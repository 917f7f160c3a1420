-------------------------- MODULE MainLayout_proofs --------------------------
(***************************************************************************)
(* The properties of MainLayout for any number of picks, key presses, page *)
(* loads and traces.                                                       *)
(***************************************************************************)
EXTENDS MainLayout, SequenceTheorems, WellFoundedInduction, TLAPS

-----------------------------------------------------------------------------
(* The inductive invariant.  Each part says what one kind of message, or a *)
(* component, owes to the calls and replies that are still on their way.   *)

IsUpdate(q, i) == q[i].f = "updateTheme"
IsApplied(q, i) == q[i].f = "applied"
IsDrawing(q, i) == q[i].f = "initializeChart"
NoUpdate(q) == \A i \in DOMAIN q : ~IsUpdate(q, i)
LastUpdate(q, i) ==
    IsUpdate(q, i) /\ \A j \in DOMAIN q : i < j => ~IsUpdate(q, j)

\* The k-th pick still has to be applied to the document or to be answered.
WaitingIn(rs, k) ==
    /\ k \in DOMAIN rs
    /\ rs[k].todo # <<>> /\ Head(rs[k].todo) = Layout /\ rs[k].read = None

Waiting(k) == WaitingIn(raises, k)

\* A call of updateTheme, and its reply, belongs to a pick that waits for it.
UpdatesWait ==
    /\ \A i \in DOMAIN calls : IsUpdate(calls, i) => Waiting(calls[i].n)
    /\ \A i \in DOMAIN replies : IsApplied(replies, i) => Waiting(replies[i].n)

\* There is one call or one reply for a pick.
OneEach ==
    /\ \A i, j \in DOMAIN calls :
         IsUpdate(calls, i) /\ IsUpdate(calls, j) /\ calls[i].n = calls[j].n => i = j
    /\ \A i, j \in DOMAIN replies :
         IsApplied(replies, i) /\ IsApplied(replies, j) /\ replies[i].n = replies[j].n => i = j
    /\ \A i \in DOMAIN calls, j \in DOMAIN replies :
         IsUpdate(calls, i) /\ IsApplied(replies, j) => calls[i].n # replies[j].n

\* A theme is read by the callback that is the next one to be called, and not
\* by that of MainLayout.
ReadsNext ==
    \A k \in DOMAIN raises :
        raises[k].read # None => raises[k].todo # <<>> /\ Head(raises[k].todo) # Layout

\* MainLayout is the first to be called; an open dialog and a chart that is
\* shown are called, and a chart that was not shown yet is not.
Subscribed ==
    /\ subs # <<>> /\ Head(subs) = Layout
    /\ dialog.at # "closed" => S!Contains(subs, Dialog(dialog.n))
    /\ chart.shown = "yes" => S!Contains(subs, Chart)
    /\ chart.shown = "no" =>
         /\ chart.theme = None /\ chart.rendered = "none"
         /\ ~S!Contains(subs, Chart)
         /\ \A k \in DOMAIN raises : ~S!Contains(raises[k].todo, Chart)

\* The document and the cookie have the theme of the last call of updateTheme
\* once there is none left.
Follows ==
    /\ count.foreign = 0 => document = getEffectiveTheme(cookie)
    /\ theme = None => NoUpdate(calls)
    /\ ~lost => \A i \in DOMAIN calls : LastUpdate(calls, i) => calls[i].arg = theme
    /\ ~lost /\ NoUpdate(calls) /\ theme # None =>
         /\ document = getEffectiveTheme(theme)
         /\ count.foreign = 0 => cookie = theme

\* Without overlaps only the last pick is in progress, and its callbacks read
\* its theme.
LastOnly ==
    ~rushed => \A k \in DOMAIN raises :
        /\ k # Len(raises) => raises[k].todo = <<>>
        /\ raises[k].read # None => raises[k].read = theme

PendingIn(rs, s) == rs # <<>> /\ S!Contains(rs[Len(rs)].todo, s)
UnappliedIn(rs) ==
    rs # <<>> /\ rs[Len(rs)].todo # <<>> /\ Head(rs[Len(rs)].todo) = Layout

\* The last pick still has to call a subscription, or MainLayout.
Pending(s) == PendingIn(raises, s)
Unapplied == UnappliedIn(raises)

Settled == ~lost /\ ~rushed /\ count.foreign = 0 /\ theme # None

IsAsk(q, i) == q[i].f = "getThemeCookieValue"
IsCookie(q, i) == q[i].f = "cookie"
NoUpdateAfter(q, i) == \A j \in DOMAIN q : i < j => ~IsUpdate(q, j)
NoApplied(q) == \A j \in DOMAIN q : ~IsApplied(q, j)
NoAppliedBefore(q, i) == \A j \in DOMAIN q : j < i => ~IsApplied(q, j)

\* Calls and replies about the cookie are those of this dialog or of one before;
\* a dialog that imports theme.js has not asked yet.
AskedBy(n) == n <= dialog.n /\ (dialog.at = "importing" => n # dialog.n)

AsksOnce ==
    /\ \A i \in DOMAIN calls : IsAsk(calls, i) => AskedBy(calls[i].n)
    /\ \A i \in DOMAIN replies : IsCookie(replies, i) => AskedBy(replies[i].n)

\* The cookie that a dialog asks for is read when no theme is to be applied any
\* more, or a callback of the dialog is left to run after the answer.
AskedInTime ==
    Settled /\ dialog.at = "reading" =>
        /\ \A i \in DOMAIN calls :
             IsAsk(calls, i) /\ calls[i].n = dialog.n =>
               \/ NoUpdateAfter(calls, i)
               \/ Pending(Dialog(dialog.n)) /\ Unapplied /\ NoApplied(replies)
        /\ \A i \in DOMAIN replies :
             IsCookie(replies, i) /\ replies[i].n = dialog.n =>
               \/ replies[i].arg = theme
               \/ Pending(Dialog(dialog.n)) /\ Unapplied /\ NoAppliedBefore(replies, i)

\* An open dialog has the theme, or a callback is left that gives it to it.
OpenAgrees ==
    Settled /\ dialog.at = "open" => dialog.setting = theme \/ Pending(Dialog(dialog.n))

\* So has a chart that was told one.
ChartTold ==
    ~lost /\ ~rushed /\ chart.shown = "yes" => chart.theme \in {None, theme} \/ Pending(Chart)

\* The theme that the document has once there is no updateTheme left.
TargetOf(v, doc) == IF v = None THEN doc ELSE getEffectiveTheme(v)

NoDrawing(q) == \A i \in DOMAIN q : ~IsDrawing(q, i)
LastDrawing(q, i) ==
    IsDrawing(q, i) /\ \A j \in DOMAIN q : i < j => ~IsDrawing(q, j)

\* The last drawing of the chart has, or will have, the colors of the target.
DrawnWith(q, back, doc, target) ==
    /\ NoDrawing(q) => back = target
    /\ \A i \in DOMAIN q :
         LastDrawing(q, i) =>
           doc = target \/ \E j \in DOMAIN q : j < i /\ IsUpdate(q, j)

DrawnIn == DrawnWith(calls, chart.back, document, TargetOf(theme, document))

\* A chart that was drawn for the current theme, or before the first one, has
\* its colors, or a callback is left.
ChartDrawn ==
    ~lost /\ ~rushed /\ ~undrawn /\ chart.shown = "yes" =>
        /\ chart.rendered = theme => DrawnIn
        /\ chart.rendered = None /\ chart.theme = None => DrawnIn \/ Pending(Chart)

IInv == /\ TypeOK /\ UpdatesWait /\ OneEach /\ ReadsNext /\ Subscribed /\ Follows
        /\ LastOnly /\ AsksOnce /\ AskedInTime /\ OpenAgrees /\ ChartTold /\ ChartDrawn
        /\ TracesReversed

-----------------------------------------------------------------------------
(* The order of the traces.                                                *)

\* The least number of a set of natural numbers.
LEMMA LeastNumber ==
    ASSUME NEW T \in SUBSET Nat, T # {}
    PROVE  \E x \in T : \A y \in T : x <= y
<1> DEFINE R == OpToRel(<, Nat)
<1>1. \A x, y \in Nat : y < x => <<y, x>> \in R
  BY DEF OpToRel
<1>2. IsWellFoundedOn(R, Nat)
  BY NatLessThanWellFounded
<1> HIDE DEF R
<1>3. \E x \in T : \A y \in T : ~(<<y, x>> \in R)
  BY <1>2, WFMin, Zenon
<1>4. PICK x \in T : \A y \in T : ~(<<y, x>> \in R)
  BY <1>3, Zenon
<1>5. ASSUME NEW y \in T
      PROVE  x <= y
  <2>1. x \in Nat /\ y \in Nat
    OBVIOUS
  <2>2. ~(y < x)
    BY <1>1, <1>4, <2>1, Zenon
  <2> QED BY <2>1, <2>2
<1> QED BY <1>5

\* A node that is moved to the front, and the nodes before it, which make room.
LEMMA MovedToFront ==
    ASSUME NEW T, NEW q \in Seq(T), NEW i \in 1 .. Len(q)
    PROVE  MoveToFront(q, i) =
             [j \in 1 .. Len(q) |->
                IF j = 1 THEN q[i] ELSE IF j <= i THEN q[j - 1] ELSE q[j]]
<1> DEFINE n == Len(q)
           e == <<q[i]>>
           A == SubSeq(q, 1, i - 1)
           B == SubSeq(q, i + 1, n)
           eA == e \o A
           M == eA \o B
<1>1. n \in Nat /\ DOMAIN q = 1 .. n /\ \A k \in 1 .. n : q[k] \in T
  OBVIOUS
<1>2. e \in Seq(T) /\ Len(e) = 1 /\ e[1] = q[i]
  BY <1>1
<1>3. /\ A \in Seq(T) /\ Len(A) = i - 1
      /\ \A k \in 1 .. i - 1 : A[k] = q[k]
  <2>1. 1 \in Int /\ i - 1 \in Int /\ \A k \in 1 .. i - 1 : q[k] \in T
    BY <1>1
  <2>2. /\ A \in Seq(T)
        /\ Len(A) = IF 1 <= i - 1 THEN i - 1 - 1 + 1 ELSE 0
        /\ \A k \in 1 .. i - 1 - 1 + 1 : A[k] = q[1 + k - 1]
    BY <2>1, SubSeqProperties
  <2> HIDE DEF A
  <2> QED BY <1>1, <2>2
<1>4. /\ B \in Seq(T) /\ Len(B) = n - i
      /\ \A k \in 1 .. n - i : B[k] = q[i + k]
  <2>1. i + 1 \in Int /\ n \in Int /\ \A k \in i + 1 .. n : q[k] \in T
    BY <1>1
  <2>2. /\ B \in Seq(T)
        /\ Len(B) = IF i + 1 <= n THEN n - (i + 1) + 1 ELSE 0
        /\ \A k \in 1 .. n - (i + 1) + 1 : B[k] = q[i + 1 + k - 1]
    BY <2>1, SubSeqProperties
  <2> HIDE DEF B, n
  <2> QED BY <1>1, <2>2
<1>5. MoveToFront(q, i) = M
  BY DEF MoveToFront
<1> HIDE DEF e, A, B
<1>6. /\ eA \in Seq(T) /\ Len(eA) = Len(e) + Len(A)
      /\ \A k \in 1 .. Len(e) + Len(A) : eA[k] = IF k <= Len(e) THEN e[k] ELSE A[k - Len(e)]
  <2>1. e \in Seq(T) /\ A \in Seq(T)
    BY <1>2, <1>3
  <2> QED BY <2>1, ConcatProperties
<1> HIDE DEF eA
<1>7. /\ M \in Seq(T) /\ Len(M) = Len(eA) + Len(B)
      /\ \A k \in 1 .. Len(eA) + Len(B) :
            M[k] = IF k <= Len(eA) THEN eA[k] ELSE B[k - Len(eA)]
  <2>1. eA \in Seq(T) /\ B \in Seq(T)
    BY <1>4, <1>6
  <2> QED BY <2>1, ConcatProperties
<1> HIDE DEF M, n
<1>8. Len(eA) = i /\ Len(M) = n
  BY <1>1, <1>2, <1>3, <1>4, <1>6, <1>7
<1>9. M = [k \in 1 .. n |-> M[k]]
  BY <1>7, <1>8
<1>10. ASSUME NEW k \in 1 .. n
       PROVE  M[k] = IF k = 1 THEN q[i] ELSE IF k <= i THEN q[k - 1] ELSE q[k]
  <2>1. CASE k = 1
    BY <1>1, <1>2, <1>3, <1>6, <1>7, <1>8, <2>1
  <2>2. CASE k # 1 /\ k <= i
    BY <1>1, <1>2, <1>3, <1>6, <1>7, <1>8, <2>2
  <2>3. CASE k > i
    BY <1>1, <1>4, <1>7, <1>8, <2>3
  <2> QED BY <1>1, <2>1, <2>2, <2>3
<1> QED BY <1>5, <1>9, <1>10 DEF n

\* The traces of app.js, for every number of them: moving each node but the
\* first to the front, one after the other, reverses them.
LEMMA FixedIsReverse ==
    ASSUME NEW T, NEW nodes \in Seq(T)
    PROVE  fixTraceLineRendering(nodes) = S!Reverse(nodes)
<1> DEFINE n == Len(nodes)
           Body(f) == [i \in 1 .. n |-> IF i = 1 THEN nodes ELSE MoveToFront(f[i - 1], i)]
           Turned(i) == [j \in 1 .. n |-> IF j <= i THEN nodes[i + 1 - j] ELSE nodes[j]]
           P == [i \in 1 .. n |-> Turned(i)]
           F == CHOOSE f : f = Body(f)
<1>1. n \in Nat /\ DOMAIN nodes = 1 .. n /\ \A k \in 1 .. n : nodes[k] \in T
  OBVIOUS
<1>2. fixTraceLineRendering(nodes) = IF nodes = <<>> THEN nodes ELSE F[n]
  BY DEF fixTraceLineRendering
<1>3. Turned(1) = nodes
  BY <1>1
<1>4. ASSUME NEW i \in 2 .. n
      PROVE  MoveToFront(Turned(i - 1), i) = Turned(i)
  <2>1. Turned(i - 1) \in Seq(T) /\ Len(Turned(i - 1)) = n
    BY <1>1, IsASeq
  <2>2. MoveToFront(Turned(i - 1), i) =
          [j \in 1 .. n |-> IF j = 1 THEN Turned(i - 1)[i] ELSE
                            IF j <= i THEN Turned(i - 1)[j - 1] ELSE Turned(i - 1)[j]]
    <3> HIDE DEF Turned, n
    <3> QED BY <1>1, <2>1, MovedToFront
  <2> QED BY <1>1, <2>2
<1>5. P = Body(P)
  BY <1>1, <1>3, <1>4
<1>6. F = Body(F)
  BY <1>5, Zenon
<1>7. \A i \in 1 .. n : F[i] = Turned(i)
  <2> DEFINE Wrong == {i \in 1 .. n : F[i] # Turned(i)}
  <2> SUFFICES ASSUME Wrong # {} PROVE FALSE
    OBVIOUS
  <2> HIDE DEF F, Turned
  <2>1. PICK i \in Wrong : \A k \in Wrong : i <= k
    <3>1. Wrong \in SUBSET Nat
      BY <1>1
    <3> HIDE DEF Wrong
    <3> QED BY <3>1, LeastNumber
  <2>2. F[i] = IF i = 1 THEN nodes ELSE MoveToFront(F[i - 1], i)
    BY <1>6
  <2>3. CASE i = 1
    BY <1>3, <2>2, <2>3
  <2>4. CASE i # 1
    <3>1. i \in 2 .. n /\ i - 1 \in 1 .. n /\ i - 1 \notin Wrong
      BY <1>1, <2>1, <2>4
    <3>2. F[i - 1] = Turned(i - 1)
      BY <3>1
    <3> QED BY <1>4, <2>1, <2>2, <2>4, <3>1, <3>2
  <2> QED BY <2>3, <2>4
<1>8. CASE nodes = <<>>
  BY <1>2, <1>8 DEF S!Reverse
<1>9. CASE nodes # <<>>
  <2>1. Turned(n) = S!Reverse(nodes)
    BY <1>1 DEF S!Reverse
  <2> HIDE DEF F, Turned
  <2>2. n \in 1 .. n
    BY <1>1, <1>9
  <2>3. F[n] = Turned(n)
    BY <1>7, <2>2
  <2> QED BY <1>2, <1>9, <2>1, <2>3
<1> QED BY <1>8, <1>9

-----------------------------------------------------------------------------
(* Queues: what taking the first message and adding one at the end do.     *)

Popped(q, r) ==
    /\ Len(q) \in Nat \ {0} /\ DOMAIN q = 1 .. Len(q) /\ DOMAIN r = 1 .. Len(q) - 1
    /\ \A i \in 1 .. Len(q) - 1 : r[i] = q[i + 1]

Pushed(q, r, m) ==
    /\ Len(q) \in Nat /\ DOMAIN q = 1 .. Len(q) /\ DOMAIN r = 1 .. Len(q) + 1
    /\ r[Len(q) + 1] = m
    /\ \A i \in 1 .. Len(q) : r[i] = q[i]

\* The first message is taken.
LEMMA TailPops ==
    ASSUME NEW T, NEW q \in Seq(T), q # <<>>
    PROVE  Tail(q) \in Seq(T) /\ Head(q) \in T /\ Head(q) = q[1] /\ Popped(q, Tail(q))
<1>1. Len(q) \in Nat \ {0} /\ DOMAIN q = 1 .. Len(q) /\ Head(q) = q[1] /\ Head(q) \in T
  OBVIOUS
<1>2. Tail(q) \in Seq(T) /\ Len(Tail(q)) = Len(q) - 1
      /\ \A i \in 1 .. Len(q) - 1 : Tail(q)[i] = q[i + 1]
  OBVIOUS
<1> QED BY <1>1, <1>2 DEF Popped

\* A message is added.
LEMMA AppendPushes ==
    ASSUME NEW T, NEW q \in Seq(T), NEW m \in T
    PROVE  Append(q, m) \in Seq(T) /\ Pushed(q, Append(q, m), m)
<1>1. Len(q) \in Nat /\ DOMAIN q = 1 .. Len(q)
  OBVIOUS
<1>2. Append(q, m) \in Seq(T) /\ Len(Append(q, m)) = Len(q) + 1
      /\ Append(q, m)[Len(q) + 1] = m
      /\ \A i \in 1 .. Len(q) : Append(q, m)[i] = q[i]
  OBVIOUS
<1> QED BY <1>1, <1>2 DEF Pushed

\* The two are not confused.
LEMMA PushedNotPopped ==
    ASSUME NEW q, NEW r, NEW m, Pushed(q, r, m), Popped(q, r)
    PROVE  FALSE
<1>1. Len(q) + 1 \in 1 .. Len(q) + 1
  BY DEF Pushed
<1>2. Len(q) + 1 \in 1 .. Len(q) - 1
  BY <1>1 DEF Pushed, Popped
<1> QED BY <1>2 DEF Popped

\* What is contained in a queue after it is added to, or after its first
\* element is taken.
LEMMA ContainsPushed ==
    ASSUME NEW T, NEW q \in Seq(T), NEW m \in T, NEW x
    PROVE  S!Contains(Append(q, m), x) <=> S!Contains(q, x) \/ m = x
<1>1. Append(q, m) \in Seq(T) /\ Pushed(q, Append(q, m), m)
  BY AppendPushes
<1> DEFINE r == Append(q, m)
<1> HIDE DEF r
<1>2. DOMAIN r = 1 .. Len(r) /\ Len(q) \in Nat /\ Len(r) = Len(q) + 1
      /\ r[Len(q) + 1] = m /\ \A i \in 1 .. Len(q) : r[i] = q[i]
  BY <1>1 DEF Pushed, r
<1>3. S!Contains(r, x) <=> S!Contains(q, x) \/ m = x
  BY <1>2 DEF S!Contains
<1> QED BY <1>3 DEF r

\* The same for a queue whose first element is taken.
LEMMA ContainsPopped ==
    ASSUME NEW T, NEW q \in Seq(T), q # <<>>, NEW x
    PROVE  S!Contains(q, x) <=> S!Contains(Tail(q), x) \/ Head(q) = x
<1>1. Tail(q) \in Seq(T) /\ Head(q) = q[1] /\ Popped(q, Tail(q))
  BY TailPops
<1> DEFINE r == Tail(q)
<1> HIDE DEF r
<1>2. Len(q) \in Nat \ {0} /\ Len(r) = Len(q) - 1 /\ \A i \in 1 .. Len(q) - 1 : r[i] = q[i + 1]
  BY <1>1 DEF Popped, r
<1>3. S!Contains(r, x) \/ q[1] = x => S!Contains(q, x)
  BY <1>2 DEF S!Contains
<1>4. ASSUME S!Contains(q, x), q[1] # x
      PROVE  S!Contains(r, x)
  <2>1. PICK i \in 1 .. Len(q) : q[i] = x
    BY <1>4 DEF S!Contains
  <2>2. i - 1 \in 1 .. Len(q) - 1 /\ r[i - 1] = q[i]
    BY <1>2, <1>4, <2>1
  <2> QED BY <1>2, <2>1, <2>2 DEF S!Contains
<1> QED BY <1>1, <1>3, <1>4 DEF r

\* The subscriptions that stay when one is disposed: all others, in order.
LEMMA Removal ==
    ASSUME TypeOK, NEW s
    PROVE  /\ RemoveSubscription(s) \in Seq(Subscription)
           /\ \A x : x # s => (S!Contains(RemoveSubscription(s), x) <=> S!Contains(subs, x))
           /\ \A x : S!Contains(RemoveSubscription(s), x) => S!Contains(subs, x)
           /\ subs # <<>> /\ Head(subs) # s =>
                RemoveSubscription(s) # <<>> /\ Head(RemoveSubscription(s)) = Head(subs)
<1>1. CASE ~S!Contains(subs, s)
  BY <1>1 DEF RemoveSubscription, TypeOK
<1>2. CASE S!Contains(subs, s)
  <2> DEFINE n == Len(subs)
             k == CHOOSE i \in DOMAIN subs : subs[i] = s
             A == SubSeq(subs, 1, k - 1)
             B == SubSeq(subs, k + 1, n)
             AB == A \o B
  <2>1. n \in Nat /\ DOMAIN subs = 1 .. n /\ subs \in Seq(Subscription)
        /\ \A i \in 1 .. n : subs[i] \in Subscription
    <3>1. subs \in Seq(Subscription)
      BY DEF TypeOK
    <3> QED BY <3>1
  <2>2. k \in 1 .. n /\ subs[k] = s
    <3>1. \E i \in DOMAIN subs : subs[i] = s
      BY <1>2, <2>1 DEF S!Contains
    <3>2. k \in DOMAIN subs /\ subs[k] = s
      BY <3>1, Zenon
    <3> QED BY <2>1, <3>2
  <2>3. RemoveSubscription(s) = AB
    BY <1>2 DEF RemoveSubscription, S!RemoveAt
  <2> HIDE DEF k
  <2>4. /\ A \in Seq(Subscription) /\ Len(A) = k - 1
        /\ \A i \in 1 .. k - 1 : A[i] = subs[i]
    <3>1. 1 \in Int /\ k - 1 \in Int /\ \A i \in 1 .. k - 1 : subs[i] \in Subscription
      BY <2>1, <2>2
    <3>2. /\ A \in Seq(Subscription)
          /\ Len(A) = IF 1 <= k - 1 THEN k - 1 - 1 + 1 ELSE 0
          /\ \A i \in 1 .. k - 1 - 1 + 1 : A[i] = subs[1 + i - 1]
      BY <3>1, SubSeqProperties
    <3> HIDE DEF A
    <3> QED BY <2>1, <2>2, <3>2
  <2>5. /\ B \in Seq(Subscription) /\ Len(B) = n - k
        /\ \A i \in 1 .. n - k : B[i] = subs[k + i]
    <3>1. k + 1 \in Int /\ n \in Int /\ \A i \in k + 1 .. n : subs[i] \in Subscription
      BY <2>1, <2>2
    <3>2. /\ B \in Seq(Subscription)
          /\ Len(B) = IF k + 1 <= n THEN n - (k + 1) + 1 ELSE 0
          /\ \A i \in 1 .. n - (k + 1) + 1 : B[i] = subs[k + 1 + i - 1]
      BY <3>1, SubSeqProperties
    <3> HIDE DEF B, n
    <3> QED BY <2>1, <2>2, <3>2
  <2> HIDE DEF A, B
  <2>6. /\ AB \in Seq(Subscription) /\ Len(AB) = Len(A) + Len(B)
        /\ \A i \in 1 .. Len(A) + Len(B) : AB[i] = IF i <= Len(A) THEN A[i] ELSE B[i - Len(A)]
    <3>1. A \in Seq(Subscription) /\ B \in Seq(Subscription)
      BY <2>4, <2>5
    <3> QED BY <3>1, ConcatProperties
  <2> HIDE DEF AB, n
  <2>7. Len(AB) = n - 1 /\ \A i \in 1 .. n - 1 : AB[i] = IF i < k THEN subs[i] ELSE subs[i + 1]
    BY <2>1, <2>2, <2>4, <2>5, <2>6
  <2>8. ASSUME NEW x, S!Contains(AB, x)
        PROVE  S!Contains(subs, x)
    <3>1. PICK i \in 1 .. n - 1 : AB[i] = x
      BY <2>7, <2>8 DEF S!Contains
    <3>2. CASE i < k
      BY <2>1, <2>7, <3>1, <3>2 DEF S!Contains, n
    <3>3. CASE ~(i < k)
      <4>1. i + 1 \in 1 .. n /\ subs[i + 1] = x
        BY <2>1, <2>2, <2>7, <3>1, <3>3
      <4> QED BY <4>1 DEF S!Contains, n
    <3> QED BY <3>2, <3>3
  <2>9. ASSUME NEW x, x # s, S!Contains(subs, x)
        PROVE  S!Contains(AB, x)
    <3>1. PICK i \in 1 .. n : subs[i] = x
      BY <2>9 DEF S!Contains, n
    <3>2. i # k
      BY <2>2, <2>9, <3>1
    <3>3. CASE i < k
      <4>1. i \in 1 .. n - 1 /\ AB[i] = x
        BY <2>1, <2>2, <2>7, <3>1, <3>3
      <4> QED BY <2>7, <4>1 DEF S!Contains
    <3>4. CASE i > k
      <4>1. i - 1 \in 1 .. n - 1 /\ AB[i - 1] = x
        BY <2>1, <2>2, <2>7, <3>1, <3>4
      <4> QED BY <2>7, <4>1 DEF S!Contains
    <3> QED BY <2>1, <2>2, <3>2, <3>3, <3>4
  <2>10. ASSUME subs # <<>>, Head(subs) # s
         PROVE  AB # <<>> /\ Head(AB) = Head(subs)
    <3>1. Head(subs) = subs[1] /\ k # 1
      BY <2>1, <2>2, <2>10
    <3>2. 1 \in 1 .. n - 1 /\ AB[1] = subs[1]
      BY <2>1, <2>2, <2>7, <3>1
    <3> QED BY <2>6, <2>7, <3>1, <3>2
  <2> QED BY <2>3, <2>6, <2>8, <2>9, <2>10
<1> QED BY <1>1, <1>2

-----------------------------------------------------------------------------
(* The steps, as far as the invariant is concerned with them.              *)

\* The messages and the subscriptions by themselves.
LEMMA QueueTypes ==
    ASSUME TypeOK
    PROVE  /\ calls \in Seq(CallOf) /\ replies \in Seq(ReplyOf \cup KeyOf)
           /\ subs \in Seq(Subscription)
           /\ raises \in Seq([todo : Seq(Subscription), read : ThemeOrNone])
BY DEF TypeOK

\* The browser takes a call.
LEMMA TakePops ==
    ASSUME TypeOK, NEW f, Take(f)
    PROVE  /\ Popped(calls, calls') /\ calls' \in Seq(CallOf)
           /\ Head(calls) = calls[1] /\ calls[1] \in CallOf /\ calls[1].f = f
<1>1. calls \in Seq(CallOf) /\ calls # <<>> /\ calls' = Tail(calls) /\ Head(calls).f = f
  BY QueueTypes DEF Take
<1>2. Tail(calls) \in Seq(CallOf) /\ Head(calls) \in CallOf /\ Head(calls) = calls[1]
      /\ Popped(calls, Tail(calls))
  BY <1>1, TailPops
<1> QED BY <1>1, <1>2

\* The server takes a reply or an event.
LEMMA ReceivePops ==
    ASSUME TypeOK, NEW f, Receive(f)
    PROVE  /\ Popped(replies, replies') /\ replies' \in Seq(ReplyOf \cup KeyOf)
           /\ Head(replies) = replies[1] /\ replies[1] \in ReplyOf \cup KeyOf
           /\ replies[1].f = f
<1> DEFINE T == ReplyOf \cup KeyOf
<1>1. replies \in Seq(T) /\ replies # <<>> /\ replies' = Tail(replies) /\ Head(replies).f = f
  BY QueueTypes DEF Receive
<1> HIDE DEF T
<1>2. Tail(replies) \in Seq(T) /\ Head(replies) \in T /\ Head(replies) = replies[1]
      /\ Popped(replies, Tail(replies))
  BY <1>1, TailPops
<1>3. replies[1] \in T /\ replies' \in Seq(T) /\ Popped(replies, replies')
  BY <1>1, <1>2
<1> QED BY <1>1, <1>2, <1>3 DEF T

\* The server makes a call.
LEMMA SendPushes ==
    ASSUME TypeOK, NEW m \in CallOf, Send(m)
    PROVE  Pushed(calls, calls', m) /\ calls' \in Seq(CallOf)
<1>1. calls \in Seq(CallOf) /\ calls' = Append(calls, m)
  BY QueueTypes DEF Send
<1>2. Append(calls, m) \in Seq(CallOf) /\ Pushed(calls, Append(calls, m), m)
  BY <1>1, AppendPushes
<1> QED BY <1>1, <1>2

\* The browser replies, or the user does something.
LEMMA ReplyPushes ==
    ASSUME TypeOK, NEW m \in ReplyOf \cup KeyOf, Reply(m)
    PROVE  Pushed(replies, replies', m) /\ replies' \in Seq(ReplyOf \cup KeyOf)
<1> DEFINE T == ReplyOf \cup KeyOf
<1>1. replies \in Seq(T) /\ replies' = Append(replies, m) /\ m \in T
  BY QueueTypes DEF Reply
<1> HIDE DEF T
<1>2. Append(replies, m) \in Seq(T) /\ Pushed(replies, Append(replies, m), m)
  BY <1>1, AppendPushes
<1>3. replies' \in Seq(T) /\ Pushed(replies, replies', m)
  BY <1>1, <1>2
<1> QED BY <1>3 DEF T

\* A script is imported or registers its listener.
ScriptStarts ==
    /\ Popped(calls, calls') /\ calls' \in Seq(CallOf)
    /\ calls[1].f \in {"import", "register", "importForDialog"}
    /\ \E m \in ReplyOf : /\ m.f \in {"imported", "registered", "importedForDialog"}
                          /\ Pushed(replies, replies', m)
    /\ replies' \in Seq(ReplyOf \cup KeyOf) /\ keys' \in BOOLEAN
    /\ UNCHANGED <<cookie, document, layout, theme, subs, raises, dialog, chart, count,
                   lost, rushed, undrawn, stolen>>

CookieAnswered ==
    /\ Popped(calls, calls') /\ calls' \in Seq(CallOf)
    /\ calls[1].f = "getThemeCookieValue" /\ calls[1].n \in Nat
    /\ Pushed(replies, replies', Message("cookie", cookie, calls[1].n))
    /\ replies' \in Seq(ReplyOf \cup KeyOf)
    /\ UNCHANGED <<cookie, document, keys, layout, theme, subs, raises, dialog, chart, count,
                   lost, rushed, undrawn, stolen>>

ThemeApplied ==
    /\ Popped(calls, calls') /\ calls' \in Seq(CallOf)
    /\ calls[1].f = "updateTheme" /\ calls[1].arg \in Setting
    /\ document' = getEffectiveTheme(calls[1].arg) /\ cookie' = calls[1].arg
    /\ Pushed(replies, replies', Message("applied", None, calls[1].n))
    /\ replies' \in Seq(ReplyOf \cup KeyOf)
    /\ UNCHANGED <<keys, layout, theme, subs, raises, dialog, chart, count,
                   lost, rushed, undrawn, stolen>>

\* A chart is drawn in the colors of the document, or keeps the ones it has.
Drawn ==
    /\ Popped(calls, calls') /\ calls' \in Seq(CallOf)
    /\ \/ calls[1].f = "initializeChart" /\ chart'.back = document
       \/ calls[1].f = "updateChart" /\ chart'.back = chart.back
    /\ chart' = [shown |-> chart.shown, theme |-> chart.theme, rendered |-> chart.rendered,
                 back |-> chart'.back, order |-> S!Reverse(Trace)]
    /\ UNCHANGED <<cookie, document, replies, keys, layout, theme, subs, raises, dialog,
                   count, lost, rushed, undrawn, stolen>>

\* The user presses a key or uses the dialog.
UserActs ==
    /\ \E m \in ReplyOf \cup KeyOf :
         /\ m.f \in {"key", "button", "pick", "close"}
         /\ m.f = "pick" => m.arg \in Setting
         /\ Pushed(replies, replies', m)
    /\ replies' \in Seq(ReplyOf \cup KeyOf)
    /\ count' \in [picks : Nat, keys : Nat, loads : Nat, foreign : Nat, redraws : Nat]
    /\ count'.foreign = count.foreign /\ stolen' \in BOOLEAN
    /\ UNCHANGED <<cookie, document, calls, keys, layout, theme, subs, raises, dialog, chart,
                   lost, rushed, undrawn>>

\* MainLayout's first render goes on.
LayoutStarts ==
    /\ Popped(replies, replies') /\ replies' \in Seq(ReplyOf \cup KeyOf)
    /\ replies[1].f \in {"imported", "registered"}
    /\ \/ UNCHANGED calls
       \/ \E m \in CallOf : m.f = "register" /\ Pushed(calls, calls', m)
    /\ calls' \in Seq(CallOf)
    /\ layout' \in {"registering", "ready"}
    /\ UNCHANGED <<cookie, document, keys, theme, subs, raises, dialog, chart, count,
                   lost, rushed, undrawn, stolen>>

\* A dialog is opened or closed, or the page with the chart shown or left.
Launches ==
    /\ dialog.at = "closed"
    /\ dialog' = [n |-> dialog.n + 1, at |-> "importing", setting |-> "System"]
    /\ subs' = Append(subs, Dialog(dialog.n + 1))
    /\ \E m \in CallOf : m.f = "importForDialog" /\ Pushed(calls, calls', m)
    /\ calls' \in Seq(CallOf)
    /\ UNCHANGED chart

Disposes == dialog.at # "closed" /\ DisposeDialog /\ UNCHANGED <<calls, chart>>

Shows ==
    /\ chart.shown = "no" /\ chart' = [chart EXCEPT !.shown = "yes"]
    /\ subs' = Append(subs, Chart) /\ UNCHANGED <<dialog, calls>>

Leaves == LeaveMetrics /\ UNCHANGED <<dialog, calls>>

PageActs ==
    /\ Popped(replies, replies') /\ replies' \in Seq(ReplyOf \cup KeyOf)
    /\ replies[1].f \in {"button", "close", "key"}
    /\ Launches \/ Disposes \/ Shows \/ Leaves \/ UNCHANGED <<dialog, subs, calls, chart>>
    /\ UNCHANGED <<cookie, document, keys, layout, theme, raises, count,
                   lost, rushed, undrawn, stolen>>

\* A dialog asks for the cookie.
Asks ==
    /\ Popped(replies, replies') /\ replies' \in Seq(ReplyOf \cup KeyOf)
    /\ replies[1].f = "importedForDialog"
    /\ \/ UNCHANGED <<dialog, calls>>
       \/ /\ dialog.at = "importing" /\ dialog' = [dialog EXCEPT !.at = "reading"]
          /\ Pushed(calls, calls', Message("getThemeCookieValue", None, dialog.n))
    /\ calls' \in Seq(CallOf)
    /\ UNCHANGED <<cookie, document, keys, layout, theme, subs, raises, chart, count,
                   lost, rushed, undrawn, stolen>>

\* It has got it.
Opens ==
    /\ Popped(replies, replies') /\ replies' \in Seq(ReplyOf \cup KeyOf)
    /\ replies[1].f = "cookie" /\ replies[1].arg \in ThemeOrNone
    /\ \/ UNCHANGED dialog
       \/ /\ dialog.at = "reading" /\ dialog.n = replies[1].n
          /\ dialog' = [dialog EXCEPT !.at = "open", !.setting = replies[1].arg]
    /\ UNCHANGED <<cookie, document, calls, keys, layout, theme, subs, raises, chart,
                   count, lost, rushed, undrawn, stolen>>

\* A pick is received while theme.js is there, while it is not, or too late.
Raises(v) ==
    /\ layout # "importing" /\ v \in Setting /\ theme' = v /\ dialog.at # "closed"
    /\ dialog' = [dialog EXCEPT !.setting = v]
    /\ raises' = Append(raises, [todo |-> subs, read |-> None])
    /\ Pushed(calls, calls', Message("updateTheme", v, Len(raises) + 1))
    /\ calls' \in Seq(CallOf)
    /\ rushed' = (rushed \/ InProgress)
    /\ undrawn' = (undrawn \/ (chart.shown = "yes" /\ ThemeChanged))
    /\ UNCHANGED <<chart, lost>>

Loses(v) ==
    /\ layout = "importing" /\ v \in Setting /\ theme' = v
    /\ dialog' = [dialog EXCEPT !.setting = v]
    /\ chart' = IF S!Contains(subs, Chart) THEN [chart EXCEPT !.theme = v] ELSE chart
    /\ lost' = TRUE /\ rushed' \in BOOLEAN /\ undrawn' \in BOOLEAN
    /\ rushed' = (rushed \/ InProgress)
    /\ UNCHANGED <<calls, raises>>

Picked ==
    /\ Popped(replies, replies') /\ replies' \in Seq(ReplyOf \cup KeyOf)
    /\ replies[1].f = "pick"
    /\ \/ Raises(replies[1].arg) \/ Loses(replies[1].arg)
       \/ UNCHANGED <<dialog, theme, raises, calls, chart, lost, rushed, undrawn>>
    /\ UNCHANGED <<cookie, document, keys, layout, subs, count, stolen>>

\* MainLayout has applied a theme.
Answers ==
    /\ Popped(replies, replies') /\ replies' \in Seq(ReplyOf \cup KeyOf)
    /\ replies[1].f = "applied" /\ Called(replies[1].n)
    /\ UNCHANGED <<cookie, document, calls, keys, layout, theme, subs, dialog, chart,
                   count, lost, rushed, undrawn, stolen>>

\* A chart is to be drawn, anew or with new data.
Renders ==
    /\ chart.shown = "yes"
    /\ \/ /\ \E m \in CallOf : m.f = "initializeChart" /\ Pushed(calls, calls', m)
          /\ chart' = [chart EXCEPT !.rendered = chart.theme]
       \/ /\ \E m \in CallOf : m.f = "updateChart" /\ Pushed(calls, calls', m)
          /\ UNCHANGED chart
    /\ calls' \in Seq(CallOf)
    /\ count' \in [picks : Nat, keys : Nat, loads : Nat, foreign : Nat, redraws : Nat]
    /\ count'.foreign = count.foreign
    /\ UNCHANGED <<cookie, document, replies, keys, layout, theme, subs, raises, dialog,
                   lost, rushed, undrawn, stolen>>

-----------------------------------------------------------------------------
(* Every step is one of these.                                             *)

\* The type of a message from its parts.
LEMMA MessageTypes ==
    ASSUME NEW a \in ThemeOrNone, NEW n \in Nat
    PROVE  /\ \A f \in {"import", "register", "importForDialog", "getThemeCookieValue",
                        "updateTheme", "initializeChart", "updateChart"} :
                Message(f, a, n) \in CallOf
           /\ \A f \in {"imported", "registered", "importedForDialog", "cookie", "applied",
                        "button", "pick", "close"} :
                Message(f, a, n) \in ReplyOf
           /\ \A f : /\ Message(f, a, n).f = f /\ Message(f, a, n).arg = a
                     /\ Message(f, a, n).n = n
BY DEF Message, CallOf, ReplyOf

\* The browser imports theme.js or app.js, or registers the keydown listener.
LEMMA ScriptSteps ==
    ASSUME TypeOK, Import \/ registerGlobalKeydownListener \/ ImportForDialog
    PROVE  ScriptStarts
<1>1. None \in ThemeOrNone /\ 0 \in Nat
  BY DEF ThemeOrNone
<1>2. keys \in BOOLEAN
  BY DEF TypeOK
<1>3. CASE Import
  <2>1. Take("import") /\ Reply(Message("imported", None, 0))
    BY <1>3 DEF Import
  <2>2. Message("imported", None, 0) \in ReplyOf /\ Message("imported", None, 0).f = "imported"
    BY <1>1, MessageTypes
  <2> HIDE DEF Message
  <2>3. Pushed(replies, replies', Message("imported", None, 0))
        /\ replies' \in Seq(ReplyOf \cup KeyOf)
    BY <2>1, <2>2, ReplyPushes
  <2>4. Popped(calls, calls') /\ calls' \in Seq(CallOf) /\ calls[1].f = "import"
    BY <2>1, TakePops
  <2> QED BY <1>2, <1>3, <2>2, <2>3, <2>4 DEF Import, ScriptStarts, serverVars, historyVars
<1>4. CASE registerGlobalKeydownListener
  <2>1. Take("register") /\ Reply(Message("registered", None, 0))
    BY <1>4 DEF registerGlobalKeydownListener
  <2>2. Message("registered", None, 0) \in ReplyOf /\ Message("registered", None, 0).f = "registered"
    BY <1>1, MessageTypes
  <2>3. Pushed(replies, replies', Message("registered", None, 0))
        /\ replies' \in Seq(ReplyOf \cup KeyOf)
    BY <2>1, <2>2, ReplyPushes
  <2>4. Popped(calls, calls') /\ calls' \in Seq(CallOf) /\ calls[1].f = "register"
    BY <2>1, TakePops
  <2> QED BY <1>2, <1>4, <2>2, <2>3, <2>4
          DEF registerGlobalKeydownListener, ScriptStarts, serverVars, historyVars
<1>5. CASE ImportForDialog
  <2> DEFINE n == Head(calls).n
  <2>1. Take("importForDialog") /\ Reply(Message("importedForDialog", None, n))
    BY <1>5 DEF ImportForDialog
  <2>2. Popped(calls, calls') /\ calls' \in Seq(CallOf) /\ calls[1].f = "importForDialog"
        /\ Head(calls) \in CallOf
    BY <2>1, TakePops
  <2>3. n \in Nat
    BY <2>2 DEF CallOf
  <2> HIDE DEF n
  <2>4. Message("importedForDialog", None, n) \in ReplyOf
        /\ Message("importedForDialog", None, n).f = "importedForDialog"
    BY <1>1, <2>3, MessageTypes
  <2>5. Pushed(replies, replies', Message("importedForDialog", None, n))
        /\ replies' \in Seq(ReplyOf \cup KeyOf)
    BY <2>1, <2>4, ReplyPushes
  <2> QED BY <1>2, <1>5, <2>2, <2>4, <2>5
          DEF ImportForDialog, ScriptStarts, serverVars, historyVars
<1> QED BY <1>3, <1>4, <1>5

\* The browser reads the cookie.
LEMMA CookieSteps ==
    ASSUME TypeOK, ReadCookie
    PROVE  CookieAnswered
<1> DEFINE n == Head(calls).n
<1>1. Take("getThemeCookieValue") /\ Reply(Message("cookie", cookie, n))
  BY DEF ReadCookie, getThemeCookieValue
<1>2. Popped(calls, calls') /\ calls' \in Seq(CallOf) /\ calls[1].f = "getThemeCookieValue"
      /\ Head(calls) \in CallOf /\ Head(calls) = calls[1]
  BY <1>1, TakePops
<1>3. n \in Nat /\ n = calls[1].n
  BY <1>2 DEF CallOf
<1> HIDE DEF n
<1>4. cookie \in ThemeOrNone
  BY DEF TypeOK
<1>5. Message("cookie", cookie, n) \in ReplyOf
  BY <1>3, <1>4, MessageTypes
<1>6. Pushed(replies, replies', Message("cookie", cookie, n))
      /\ replies' \in Seq(ReplyOf \cup KeyOf)
  BY <1>1, <1>5, ReplyPushes
<1> QED BY <1>2, <1>3, <1>6 DEF ReadCookie, CookieAnswered, serverVars, historyVars

\* The browser applies a theme.
LEMMA ThemeSteps ==
    ASSUME TypeOK, ApplyTheme
    PROVE  ThemeApplied
<1> DEFINE n == Head(calls).n
<1>1. Take("updateTheme") /\ Reply(Message("applied", None, n)) /\ updateTheme(Head(calls).arg)
  BY DEF ApplyTheme
<1>2. Popped(calls, calls') /\ calls' \in Seq(CallOf) /\ calls[1].f = "updateTheme"
      /\ Head(calls) \in CallOf /\ Head(calls) = calls[1]
  BY <1>1, TakePops
<1>3. n \in Nat /\ n = calls[1].n
  BY <1>2 DEF CallOf
<1> HIDE DEF n
<1>4. None \in ThemeOrNone
  BY DEF ThemeOrNone
<1>5. Message("applied", None, n) \in ReplyOf
  BY <1>3, <1>4, MessageTypes
<1>6. Pushed(replies, replies', Message("applied", None, n))
      /\ replies' \in Seq(ReplyOf \cup KeyOf)
  BY <1>1, <1>5, ReplyPushes
<1>7. \A i \in DOMAIN calls : calls[i].f = "updateTheme" => calls[i].arg \in Setting
  BY DEF TypeOK
<1>8. 1 \in DOMAIN calls
  BY <1>2 DEF Popped
<1>9. calls[1].arg \in Setting
  BY <1>2, <1>7, <1>8
<1> QED BY <1>1, <1>2, <1>3, <1>6, <1>9
        DEF ApplyTheme, ThemeApplied, updateTheme, serverVars, historyVars

\* The browser draws the chart.
LEMMA DrawSteps ==
    ASSUME TypeOK, DrawChart
    PROVE  Drawn
<1>1. fixTraceLineRendering(PlotlyOrder) = S!Reverse(Trace)
  BY TraceAssumption, FixedIsReverse DEF PlotlyOrder
<1> DEFINE R == S!Reverse(Trace)
<1>2. chart \in [shown : {"no", "yes", "gone"}, theme : ThemeOrNone,
                 rendered : ThemeOrNone \cup {"none"}, back : {None, "Light", "Dark"},
                 order : Seq(STRING)]
  BY DEF TypeOK
<1>3. CASE Take("initializeChart") /\ initializeChart
  <2>1. Popped(calls, calls') /\ calls' \in Seq(CallOf) /\ calls[1].f = "initializeChart"
    BY <1>3, TakePops
  <2>2. chart' = [chart EXCEPT !.back = document, !.order = R]
    BY <1>1, <1>3 DEF initializeChart
  <2> HIDE DEF R
  <2>3. chart' = [shown |-> chart.shown, theme |-> chart.theme, rendered |-> chart.rendered,
                  back |-> document, order |-> R]
    BY <1>2, <2>2
  <2>4. chart'.back = document
    BY <2>3
  <2>5. chart' = [shown |-> chart.shown, theme |-> chart.theme, rendered |-> chart.rendered,
                  back |-> chart'.back, order |-> R]
    BY <2>3, <2>4
  <2> QED BY <2>1, <2>4, <2>5 DEF DrawChart, Drawn, R, serverVars, historyVars
<1>4. CASE Take("updateChart") /\ updateChart
  <2>1. Popped(calls, calls') /\ calls' \in Seq(CallOf) /\ calls[1].f = "updateChart"
    BY <1>4, TakePops
  <2>2. chart' = [chart EXCEPT !.order = R]
    BY <1>1, <1>4 DEF updateChart
  <2> HIDE DEF R
  <2>3. chart' = [shown |-> chart.shown, theme |-> chart.theme, rendered |-> chart.rendered,
                  back |-> chart.back, order |-> R]
    BY <1>2, <2>2
  <2>4. chart'.back = chart.back
    BY <2>3
  <2>5. chart' = [shown |-> chart.shown, theme |-> chart.theme, rendered |-> chart.rendered,
                  back |-> chart'.back, order |-> R]
    BY <2>3, <2>4
  <2> QED BY <2>1, <2>4, <2>5 DEF DrawChart, Drawn, R, serverVars, historyVars
<1> QED BY <1>3, <1>4 DEF DrawChart

\* The user presses a key, clicks or picks.
LEMMA UserSteps ==
    ASSUME TypeOK,
           \/ \E active \in Focusable, e \in KeyEvent : KeyDown(active, e)
           \/ \E v \in Setting : Pick(v)
           \/ SettingsButton \/ CloseDialog
    PROVE  UserActs
<1> DEFINE Acts(m) ==
             /\ m \in ReplyOf \cup KeyOf /\ m.f \in {"key", "button", "pick", "close"}
             /\ m.f = "pick" => m.arg \in Setting
             /\ Reply(m)
             /\ count' \in [picks : Nat, keys : Nat, loads : Nat, foreign : Nat, redraws : Nat]
             /\ count'.foreign = count.foreign /\ stolen' \in BOOLEAN
             /\ UNCHANGED <<cookie, document, calls, keys, layout, theme, subs, raises, dialog,
                            chart, lost, rushed, undrawn>>
<1>1. None \in ThemeOrNone /\ 0 \in Nat /\ \A v \in Setting : v \in ThemeOrNone
  BY DEF ThemeOrNone
<1>2. count \in [picks : Nat, keys : Nat, loads : Nat, foreign : Nat, redraws : Nat]
      /\ stolen \in BOOLEAN /\ dialog.n \in Nat
  BY DEF TypeOK, historyVars
<1>3. ASSUME NEW active \in Focusable, NEW e \in KeyEvent, KeyDown(active, e)
      PROVE  \E m : Acts(m)
  <2> DEFINE s == keydownListener(active, e)
             m == Message("key", s, 0)
  <2>1. m \in KeyOf /\ m.f = "key"
    BY DEF KeyOf, Message
  <2>2. Reply(m) /\ count' = [count EXCEPT !.keys = count.keys + 1]
    BY <1>3 DEF KeyDown, CountKey
  <2>3. stolen' \in BOOLEAN
    BY <1>3, Zenon DEF KeyDown
  <2>4. UNCHANGED <<cookie, document, calls, keys, layout, theme, subs, raises, dialog,
                    chart, lost, rushed, undrawn>>
    BY <1>3 DEF KeyDown, serverVars
  <2> HIDE DEF s, m
  <2>5. count' \in [picks : Nat, keys : Nat, loads : Nat, foreign : Nat, redraws : Nat]
        /\ count'.foreign = count.foreign
    BY <1>2, <2>2
  <2>6. Acts(m)
    BY <2>1, <2>2, <2>3, <2>4, <2>5
  <2> QED BY <2>6, Zenon
<1>4. ASSUME NEW v \in Setting, Pick(v)
      PROVE  \E m : Acts(m)
  <2> DEFINE m == Message("pick", v, dialog.n)
  <2>1. m \in ReplyOf /\ m.f = "pick" /\ m.arg = v
    BY <1>1, <1>2, MessageTypes
  <2>2. Reply(m) /\ count' = [count EXCEPT !.picks = count.picks + 1]
        /\ UNCHANGED <<cookie, document, calls, keys, layout, theme, subs, raises, dialog,
                       chart, lost, rushed, undrawn, stolen>>
    BY <1>4 DEF Pick, serverVars, historyVars
  <2> HIDE DEF m
  <2>3. count' \in [picks : Nat, keys : Nat, loads : Nat, foreign : Nat, redraws : Nat]
        /\ count'.foreign = count.foreign
    BY <1>2, <2>2
  <2>4. Acts(m)
    BY <1>2, <2>1, <2>2, <2>3
  <2> QED BY <2>4, Zenon
<1>5. ASSUME SettingsButton
      PROVE  \E m : Acts(m)
  <2> DEFINE m == Message("button", None, 0)
  <2>1. m \in ReplyOf /\ m.f = "button"
    BY <1>1, MessageTypes
  <2>2. Reply(m) /\ count' = [count EXCEPT !.keys = count.keys + 1]
        /\ UNCHANGED <<cookie, document, calls, keys, layout, theme, subs, raises, dialog,
                       chart, lost, rushed, undrawn, stolen>>
    BY <1>5 DEF SettingsButton, CountKey, serverVars, historyVars
  <2> HIDE DEF m
  <2>3. count' \in [picks : Nat, keys : Nat, loads : Nat, foreign : Nat, redraws : Nat]
        /\ count'.foreign = count.foreign
    BY <1>2, <2>2
  <2>4. Acts(m)
    BY <1>2, <2>1, <2>2, <2>3
  <2> QED BY <2>4, Zenon
<1>6. ASSUME CloseDialog
      PROVE  \E m : Acts(m)
  <2> DEFINE m == Message("close", None, dialog.n)
  <2>1. m \in ReplyOf /\ m.f = "close"
    BY <1>1, <1>2, MessageTypes
  <2>2. Reply(m)
        /\ UNCHANGED <<cookie, document, calls, keys, layout, theme, subs, raises, dialog,
                       chart, count, lost, rushed, undrawn, stolen>>
    BY <1>6 DEF CloseDialog, serverVars, historyVars
  <2> HIDE DEF m
  <2>3. Acts(m)
    BY <1>2, <2>1, <2>2
  <2> QED BY <2>3, Zenon
<1>7. PICK m : Acts(m)
  BY <1>3, <1>4, <1>5, <1>6, Zenon
<1>8. Pushed(replies, replies', m) /\ replies' \in Seq(ReplyOf \cup KeyOf)
  BY <1>7, ReplyPushes
<1> QED BY <1>7, <1>8 DEF UserActs

\* MainLayout's first render goes on.
LEMMA LayoutSteps ==
    ASSUME TypeOK, Imported \/ Registered
    PROVE  LayoutStarts
<1>1. calls \in Seq(CallOf)
  BY QueueTypes
<1>2. CASE Imported
  <2> DEFINE m == Message("register", None, 0)
  <2>1. Receive("imported") /\ Send(m) /\ layout' = "registering"
        /\ UNCHANGED <<cookie, document, keys, theme, subs, raises, dialog, chart, count,
                       lost, rushed, undrawn, stolen>>
    BY <1>2 DEF Imported, historyVars
  <2>2. m \in CallOf /\ m.f = "register"
    BY MessageTypes DEF ThemeOrNone
  <2> HIDE DEF m
  <2>3. Pushed(calls, calls', m) /\ calls' \in Seq(CallOf)
    BY <2>1, <2>2, SendPushes
  <2>4. Popped(replies, replies') /\ replies' \in Seq(ReplyOf \cup KeyOf)
        /\ replies[1].f = "imported"
    BY <2>1, ReceivePops
  <2> QED BY <2>1, <2>2, <2>3, <2>4 DEF LayoutStarts
<1>3. CASE Registered
  <2>1. Receive("registered") /\ layout' = "ready"
        /\ UNCHANGED <<cookie, document, calls, keys, theme, subs, raises, dialog, chart,
                       count, lost, rushed, undrawn, stolen>>
    BY <1>3 DEF Registered, historyVars
  <2>2. Popped(replies, replies') /\ replies' \in Seq(ReplyOf \cup KeyOf)
        /\ replies[1].f = "registered"
    BY <2>1, ReceivePops
  <2> QED BY <1>1, <2>1, <2>2 DEF LayoutStarts
<1> QED BY <1>2, <1>3

\* The settings dialog is launched, or is there already.
LEMMA LaunchSteps ==
    ASSUME TypeOK, LaunchSettings, UNCHANGED chart
    PROVE  Launches \/ UNCHANGED <<dialog, subs, calls, chart>>
<1>1. CASE dialog.at # "closed"
  BY <1>1 DEF LaunchSettings
<1>2. CASE dialog.at = "closed"
  <2> DEFINE m == Message("importForDialog", None, dialog.n + 1)
  <2>1. dialog.n \in Nat
    BY DEF TypeOK
  <2>2. m \in CallOf /\ m.f = "importForDialog"
    BY <2>1, MessageTypes DEF ThemeOrNone
  <2>3. dialog' = [n |-> dialog.n + 1, at |-> "importing", setting |-> "System"]
        /\ subs' = Append(subs, Dialog(dialog.n + 1)) /\ Send(m)
    BY <1>2 DEF LaunchSettings, OnThemeChanged
  <2> HIDE DEF m
  <2>4. Pushed(calls, calls', m) /\ calls' \in Seq(CallOf)
    BY <2>2, <2>3, SendPushes
  <2> QED BY <1>2, <2>2, <2>3, <2>4 DEF Launches
<1> QED BY <1>1, <1>2

\* The dialog or the page with the chart comes or goes.
LEMMA PageSteps ==
    ASSUME TypeOK, ButtonClicked \/ DialogClosed \/ OnGlobalKeyDown
    PROVE  PageActs
<1> DEFINE Same == UNCHANGED <<cookie, document, keys, layout, theme, raises, count,
                               lost, rushed, undrawn, stolen>>
           Effect == Launches \/ Disposes \/ Shows \/ Leaves
                       \/ UNCHANGED <<dialog, subs, calls, chart>>
<1>1. CASE ButtonClicked
  <2>1. Receive("button") /\ LaunchSettings /\ UNCHANGED chart /\ Same
    BY <1>1 DEF ButtonClicked, historyVars
  <2>2. Popped(replies, replies') /\ replies' \in Seq(ReplyOf \cup KeyOf)
        /\ replies[1].f = "button"
    BY <2>1, ReceivePops
  <2>3. Effect
    BY <2>1, LaunchSteps
  <2> QED BY <2>1, <2>2, <2>3 DEF PageActs
<1>2. CASE DialogClosed
  <2>1. Receive("close") /\ UNCHANGED <<calls, chart>> /\ Same
        /\ (dialog.at = "closed" => UNCHANGED <<dialog, subs>>)
        /\ (dialog.at # "closed" => DisposeDialog)
    BY <1>2 DEF DialogClosed, historyVars
  <2>2. Popped(replies, replies') /\ replies' \in Seq(ReplyOf \cup KeyOf)
        /\ replies[1].f = "close"
    BY <2>1, ReceivePops
  <2>3. Effect
    BY <2>1 DEF Disposes
  <2> QED BY <2>1, <2>2, <2>3 DEF PageActs
<1>3. CASE OnGlobalKeyDown
  <2>1. Receive("key") /\ Same
    BY <1>3 DEF OnGlobalKeyDown, historyVars
  <2>2. Popped(replies, replies') /\ replies' \in Seq(ReplyOf \cup KeyOf)
        /\ replies[1].f = "key"
    BY <2>1, ReceivePops
  <2>3. \/ UNCHANGED <<dialog, subs, calls, chart>>
        \/ LaunchSettings /\ UNCHANGED chart
        \/ /\ UNCHANGED <<calls, chart>>
           /\ IF dialog.at = "closed" THEN UNCHANGED <<dialog, subs>> ELSE DisposeDialog
        \/ ShowMetrics /\ UNCHANGED <<dialog, calls>>
        \/ LeaveMetrics /\ UNCHANGED <<dialog, calls>>
    BY <1>3, Zenon DEF OnGlobalKeyDown
  <2>4. CASE UNCHANGED <<dialog, subs, calls, chart>>
    BY <2>1, <2>2, <2>4 DEF PageActs
  <2>5. CASE LaunchSettings /\ UNCHANGED chart
    <3>1. Effect
      BY <2>5, LaunchSteps
    <3> QED BY <2>1, <2>2, <3>1 DEF PageActs
  <2>6. CASE /\ UNCHANGED <<calls, chart>>
             /\ IF dialog.at = "closed" THEN UNCHANGED <<dialog, subs>> ELSE DisposeDialog
    <3>1. Effect
      BY <2>6 DEF Disposes
    <3> QED BY <2>1, <2>2, <3>1 DEF PageActs
  <2>7. CASE ShowMetrics /\ UNCHANGED <<dialog, calls>>
    <3>1. Effect
      BY <2>7 DEF ShowMetrics, Shows, OnThemeChanged
    <3> QED BY <2>1, <2>2, <3>1 DEF PageActs
  <2>8. CASE LeaveMetrics /\ UNCHANGED <<dialog, calls>>
    <3>1. Effect
      BY <2>8 DEF Leaves
    <3> QED BY <2>1, <2>2, <3>1 DEF PageActs
  <2> QED BY <2>3, <2>4, <2>5, <2>6, <2>7, <2>8
<1> QED BY <1>1, <1>2, <1>3

\* The dialog has imported theme.js.
LEMMA AskSteps ==
    ASSUME TypeOK, DialogImported
    PROVE  Asks
<1>1. Receive("importedForDialog")
      /\ UNCHANGED <<cookie, document, keys, layout, theme, subs, raises, chart, count,
                     lost, rushed, undrawn, stolen>>
  BY DEF DialogImported, historyVars
<1>2. Popped(replies, replies') /\ replies' \in Seq(ReplyOf \cup KeyOf)
      /\ replies[1].f = "importedForDialog"
  BY <1>1, ReceivePops
<1>3. calls \in Seq(CallOf)
  BY QueueTypes
<1> DEFINE m == Message("getThemeCookieValue", None, dialog.n)
<1>4. \/ UNCHANGED <<dialog, calls>>
      \/ dialog.at = "importing" /\ dialog' = [dialog EXCEPT !.at = "reading"] /\ Send(m)
  BY DEF DialogImported
<1>5. dialog.n \in Nat
  BY DEF TypeOK
<1>6. m \in CallOf
  BY <1>5, MessageTypes DEF ThemeOrNone
<1>7. CASE UNCHANGED <<dialog, calls>>
  BY <1>1, <1>2, <1>3, <1>7 DEF Asks
<1>8. CASE dialog.at = "importing" /\ dialog' = [dialog EXCEPT !.at = "reading"] /\ Send(m)
  <2> HIDE DEF m
  <2>1. Pushed(calls, calls', m) /\ calls' \in Seq(CallOf)
    BY <1>6, <1>8, SendPushes
  <2> QED BY <1>1, <1>2, <1>8, <2>1 DEF Asks, m
<1> QED BY <1>4, <1>7, <1>8

\* The dialog is given the cookie.
LEMMA OpenSteps ==
    ASSUME TypeOK, CookieRead
    PROVE  Opens
<1>1. Receive("cookie")
      /\ UNCHANGED <<cookie, document, calls, keys, layout, theme, subs, raises, chart,
                     count, lost, rushed, undrawn, stolen>>
  BY DEF CookieRead, historyVars
<1>2. Popped(replies, replies') /\ replies' \in Seq(ReplyOf \cup KeyOf)
      /\ replies[1].f = "cookie" /\ Head(replies) = replies[1]
      /\ replies[1] \in ReplyOf \cup KeyOf
  BY <1>1, ReceivePops
<1>3. replies[1] \in ReplyOf
  BY <1>2 DEF KeyOf
<1>4. replies[1].arg \in ThemeOrNone
  BY <1>3 DEF ReplyOf
<1>5. \/ UNCHANGED dialog
      \/ /\ dialog.at = "reading" /\ dialog.n = replies[1].n
         /\ dialog' = [dialog EXCEPT !.at = "open", !.setting = replies[1].arg]
  BY <1>2 DEF CookieRead
<1> QED BY <1>1, <1>2, <1>4, <1>5 DEF Opens

\* The server receives a pick.
LEMMA PickSteps ==
    ASSUME TypeOK, PickReceived
    PROVE  Picked
<1> DEFINE v == replies[1].arg
<1>1. Receive("pick") /\ UNCHANGED <<cookie, document, keys, layout, subs, count, stolen>>
  BY DEF PickReceived
<1>2. Popped(replies, replies') /\ replies' \in Seq(ReplyOf \cup KeyOf)
      /\ replies[1].f = "pick" /\ Head(replies) = replies[1]
  BY <1>1, ReceivePops
<1>3. \A i \in DOMAIN replies : replies[i].f = "pick" => replies[i].arg \in Setting
  BY DEF TypeOK
<1>4. 1 \in DOMAIN replies
  BY <1>2 DEF Popped
<1>5. v \in Setting
  BY <1>2, <1>3, <1>4
<1>6. CASE UNCHANGED <<dialog, theme, raises, calls, chart, lost, rushed, undrawn>>
  BY <1>1, <1>2, <1>6 DEF Picked
<1>7. CASE /\ dialog.at # "closed"
           /\ dialog' = [dialog EXCEPT !.setting = v]
           /\ RaiseThemeChanged(v)
           /\ rushed' = (rushed \/ InProgress)
           /\ undrawn' = (undrawn \/ (chart.shown = "yes" /\ ThemeChanged))
  <2> HIDE DEF v
  <2>1. CASE layout # "importing"
    <3> DEFINE m == Message("updateTheme", v, Len(raises) + 1)
    <3>1. raises' = Append(raises, [todo |-> subs, read |-> None]) /\ Send(m) /\ theme' = v
          /\ UNCHANGED <<chart, lost>>
      BY <1>7, <2>1 DEF RaiseThemeChanged, NewTheme
    <3>2. Len(raises) + 1 \in Nat
      BY QueueTypes
    <3>3. m \in CallOf
      BY <1>5, <3>2, MessageTypes DEF ThemeOrNone
    <3> HIDE DEF m
    <3>4. Pushed(calls, calls', m) /\ calls' \in Seq(CallOf)
      BY <3>1, <3>3, SendPushes
    <3>5. Raises(v)
      BY <1>5, <1>7, <2>1, <3>1, <3>4 DEF Raises, m
    <3> QED BY <1>1, <1>2, <3>5 DEF Picked, v
  <2>2. CASE layout = "importing"
    <3>1. rushed \in BOOLEAN /\ undrawn \in BOOLEAN
      BY DEF TypeOK, historyVars
    <3>2. rushed' \in BOOLEAN /\ undrawn' \in BOOLEAN
      BY <1>7, <3>1, Zenon
    <3>3. Loses(v)
      BY <1>5, <1>7, <2>2, <3>2 DEF RaiseThemeChanged, Loses
    <3> QED BY <1>1, <1>2, <3>3 DEF Picked, v
  <2> QED BY <2>1, <2>2
<1> QED BY <1>2, <1>6, <1>7 DEF PickReceived

\* The callback of MainLayout returns.
LEMMA AnswerSteps ==
    ASSUME TypeOK, Applied
    PROVE  Answers
<1>1. Receive("applied") /\ Called(Head(replies).n)
      /\ UNCHANGED <<cookie, document, calls, keys, layout, theme, subs, dialog, chart,
                     count, lost, rushed, undrawn, stolen>>
  BY DEF Applied, historyVars
<1>2. Popped(replies, replies') /\ replies' \in Seq(ReplyOf \cup KeyOf)
      /\ replies[1].f = "applied" /\ Head(replies) = replies[1]
  BY <1>1, ReceivePops
<1> QED BY <1>1, <1>2 DEF Answers

\* The chart is rendered.
LEMMA RenderSteps ==
    ASSUME TypeOK, RenderChart \/ Redraw
    PROVE  Renders
<1> DEFINE i == Message("initializeChart", None, 0)
           u == Message("updateChart", None, 0)
<1>1. i \in CallOf /\ i.f = "initializeChart" /\ u \in CallOf /\ u.f = "updateChart"
  BY MessageTypes DEF ThemeOrNone
<1>2. chart.shown = "yes"
      /\ UNCHANGED <<cookie, document, replies, keys, layout, theme, subs, raises, dialog,
                     lost, rushed, undrawn, stolen>>
  BY DEF RenderChart, Redraw, serverVars, historyVars
<1>3. count' \in [picks : Nat, keys : Nat, loads : Nat, foreign : Nat, redraws : Nat]
      /\ count'.foreign = count.foreign
  <2>1. count \in [picks : Nat, keys : Nat, loads : Nat, foreign : Nat, redraws : Nat]
    BY DEF TypeOK
  <2>2. count' = count \/ count' = [count EXCEPT !.redraws = count.redraws + 1]
    BY DEF RenderChart, Redraw
  <2> QED BY <2>1, <2>2
<1>4. \/ Send(i) /\ chart' = [chart EXCEPT !.rendered = chart.theme]
      \/ Send(u) /\ UNCHANGED chart
  BY DEF RenderChart, Redraw
<1> HIDE DEF i, u
<1>5. CASE Send(i) /\ chart' = [chart EXCEPT !.rendered = chart.theme]
  <2>1. Pushed(calls, calls', i) /\ calls' \in Seq(CallOf)
    BY <1>1, <1>5, SendPushes
  <2> QED BY <1>1, <1>2, <1>3, <1>5, <2>1 DEF Renders
<1>6. CASE Send(u) /\ UNCHANGED chart
  <2>1. Pushed(calls, calls', u) /\ calls' \in Seq(CallOf)
    BY <1>1, <1>6, SendPushes
  <2> QED BY <1>1, <1>2, <1>3, <1>6, <2>1 DEF Renders
<1> QED BY <1>4, <1>5, <1>6

\* A step other than a page load, as the invariant sees it.
Move ==
    \/ ScriptStarts \/ CookieAnswered \/ ThemeApplied \/ Drawn \/ UserActs
    \/ \E v \in Setting : OtherWindow(v)
    \/ LayoutStarts \/ PageActs \/ Asks \/ Opens \/ Picked \/ Answers \/ Renders
    \/ \E k \in DOMAIN raises : CallbackReads(k) \/ CallbackSets(k)
    \/ UNCHANGED vars

\* Every action of the specification is a page load or one of these moves.
LEMMA Steps ==
    ASSUME TypeOK, [Next]_vars
    PROVE  Reload \/ Move
<1>1. CASE Browser
  BY <1>1, ScriptSteps, CookieSteps, ThemeSteps, DrawSteps DEF Browser, Move
<1>2. CASE User
  BY <1>2, UserSteps DEF User, Move
<1>3. CASE Server
  BY <1>3, LayoutSteps, PageSteps, AskSteps, OpenSteps, PickSteps, AnswerSteps, RenderSteps
     DEF Server, Move
<1>4. CASE UNCHANGED vars
  BY <1>4 DEF Move
<1> QED BY <1>1, <1>2, <1>3, <1>4 DEF Next

-----------------------------------------------------------------------------
(* Types.                                                                  *)

CallsTyped ==
    /\ calls \in Seq(CallOf)
    /\ \A i \in DOMAIN calls : calls[i].f = "updateTheme" => calls[i].arg \in Setting

RepliesTyped ==
    /\ replies \in Seq(ReplyOf \cup KeyOf)
    /\ \A i \in DOMAIN replies : replies[i].f = "pick" => replies[i].arg \in Setting

RaiseOf == [todo : Seq(Subscription), read : ThemeOrNone]
DialogOf == [n : Nat, at : {"closed", "importing", "reading", "open"}, setting : ThemeOrNone]
ChartOf == [shown : {"no", "yes", "gone"}, theme : ThemeOrNone,
            rendered : ThemeOrNone \cup {"none"}, back : {None, "Light", "Dark"},
            order : Seq(STRING)]
CountOf == [picks : Nat, keys : Nat, loads : Nat, foreign : Nat, redraws : Nat]

PlainTyped ==
    /\ cookie \in ThemeOrNone /\ document \in {"Light", "Dark"} /\ keys \in BOOLEAN
    /\ layout \in {"importing", "registering", "ready"} /\ theme \in ThemeOrNone
    /\ lost \in BOOLEAN /\ rushed \in BOOLEAN /\ undrawn \in BOOLEAN /\ stolen \in BOOLEAN

\* The type invariant, part by part.
LEMMA TypeParts ==
    TypeOK <=> /\ CallsTyped /\ RepliesTyped /\ subs \in Seq(Subscription)
               /\ raises \in Seq(RaiseOf) /\ dialog \in DialogOf /\ chart \in ChartOf
               /\ count \in CountOf /\ PlainTyped
<1>1. historyVars \in BOOLEAN \X BOOLEAN \X BOOLEAN \X BOOLEAN
        <=> lost \in BOOLEAN /\ rushed \in BOOLEAN /\ undrawn \in BOOLEAN /\ stolen \in BOOLEAN
  BY DEF historyVars
<1> QED BY <1>1, Zenon DEF TypeOK, CallsTyped, RepliesTyped, RaiseOf, DialogOf, ChartOf,
                    CountOf, PlainTyped

\* What is pushed and popped is typed.
LEMMA CallsTypedKept ==
    ASSUME TypeOK, Move
    PROVE  CallsTyped'
<1>1. CallsTyped
  BY TypeParts
<1>2. CASE UNCHANGED calls
  BY <1>1, <1>2 DEF CallsTyped
<1>3. CASE Popped(calls, calls') /\ calls' \in Seq(CallOf)
  BY <1>1, <1>3 DEF CallsTyped, Popped
<1>4. ASSUME NEW m, Pushed(calls, calls', m), calls' \in Seq(CallOf),
             m.f = "updateTheme" => m.arg \in Setting
      PROVE  CallsTyped'
  BY <1>1, <1>4 DEF CallsTyped, Pushed
<1>5. CASE ScriptStarts \/ CookieAnswered \/ ThemeApplied \/ Drawn
  BY <1>3, <1>5 DEF ScriptStarts, CookieAnswered, ThemeApplied, Drawn
<1>6. CASE UserActs \/ Opens \/ Answers \/ UNCHANGED vars
  BY <1>2, <1>6 DEF UserActs, Opens, Answers, vars
<1>7. CASE LayoutStarts
  BY <1>2, <1>4, <1>7 DEF LayoutStarts
<1>8. CASE PageActs
  BY <1>2, <1>4, <1>8 DEF PageActs, Launches, Disposes, Shows, Leaves
<1>9. CASE Asks
  <2>1. Message("getThemeCookieValue", None, dialog.n).f = "getThemeCookieValue"
    BY DEF Message
  <2> QED BY <1>2, <1>4, <1>9, <2>1 DEF Asks
<1>10. CASE Picked
  <2>1. \A v, n : Message("updateTheme", v, n).arg = v
    BY DEF Message
  <2>2. CASE UNCHANGED calls
    BY <1>2, <2>2
  <2>3. CASE Raises(replies[1].arg)
    BY <1>4, <2>1, <2>3 DEF Raises
  <2> QED BY <1>10, <2>2, <2>3 DEF Picked, Loses
<1>11. CASE Renders
  BY <1>4, <1>11 DEF Renders
<1>12. ASSUME NEW v \in Setting, OtherWindow(v)
       PROVE  CallsTyped'
  BY <1>2, <1>12 DEF OtherWindow
<1>13. ASSUME NEW k \in DOMAIN raises, CallbackReads(k) \/ CallbackSets(k)
       PROVE  CallsTyped'
  BY <1>2, <1>13 DEF CallbackReads, CallbackSets
<1> QED BY <1>5, <1>6, <1>7, <1>8, <1>9, <1>10, <1>11, <1>12, <1>13 DEF Move

\* So is what is replied, and a pick carries a theme.
LEMMA RepliesTypedKept ==
    ASSUME TypeOK, Move
    PROVE  RepliesTyped'
<1>1. RepliesTyped
  BY TypeParts
<1>2. CASE UNCHANGED replies
  BY <1>1, <1>2 DEF RepliesTyped
<1>3. CASE Popped(replies, replies') /\ replies' \in Seq(ReplyOf \cup KeyOf)
  <2>1. \A i \in DOMAIN replies' : i + 1 \in DOMAIN replies /\ replies'[i] = replies[i + 1]
    BY <1>3 DEF Popped
  <2>2. \A i \in DOMAIN replies' : replies'[i].f = "pick" => replies'[i].arg \in Setting
    BY <1>1, <2>1 DEF RepliesTyped
  <2> QED BY <1>3, <2>2 DEF RepliesTyped
<1>4. ASSUME NEW m, Pushed(replies, replies', m), replies' \in Seq(ReplyOf \cup KeyOf),
             m.f = "pick" => m.arg \in Setting
      PROVE  RepliesTyped'
  BY <1>1, <1>4 DEF RepliesTyped, Pushed
<1>5. CASE ScriptStarts
  BY <1>4, <1>5 DEF ScriptStarts
<1>6. CASE CookieAnswered \/ ThemeApplied
  <2>1. \A f, a, n : Message(f, a, n).f = f
    BY DEF Message
  <2> QED BY <1>4, <1>6, <2>1 DEF CookieAnswered, ThemeApplied
<1>7. CASE UserActs
  BY <1>4, <1>7 DEF UserActs
<1>8. CASE Drawn \/ Renders \/ UNCHANGED vars
  BY <1>2, <1>8 DEF Drawn, Renders, vars
<1>9. CASE LayoutStarts \/ PageActs \/ Asks \/ Opens \/ Picked \/ Answers
  BY <1>3, <1>9 DEF LayoutStarts, PageActs, Asks, Opens, Picked, Answers
<1>10. ASSUME NEW v \in Setting, OtherWindow(v)
       PROVE  RepliesTyped'
  BY <1>2, <1>10 DEF OtherWindow
<1>11. ASSUME NEW k \in DOMAIN raises, CallbackReads(k) \/ CallbackSets(k)
       PROVE  RepliesTyped'
  BY <1>2, <1>11 DEF CallbackReads, CallbackSets
<1> QED BY <1>5, <1>6, <1>7, <1>8, <1>9, <1>10, <1>11 DEF Move

\* The themes are not None.
LEMMA NoneApart ==
    /\ None \notin Setting /\ None \notin {"Light", "Dark"} /\ None # "none"
    /\ ThemeOrNone = Setting \cup {None}
BY Zenon DEF None, Setting, ThemeOrNone

\* The theme that is applied.
LEMMA EffectiveTypes ==
    \A v : getEffectiveTheme(v) \in {"Light", "Dark"}
BY SystemAssumption DEF getEffectiveTheme, getSystemTheme

\* One pick goes on with its callbacks and the others stay as they are.
OnlyPick(k) ==
    /\ k \in DOMAIN raises /\ raises' \in Seq(RaiseOf)
    /\ DOMAIN raises' = DOMAIN raises /\ Len(raises') = Len(raises)
    /\ \A j \in DOMAIN raises : j # k => raises'[j] = raises[j]

CallsNext(k) ==
    /\ OnlyPick(k) /\ raises[k].todo # <<>>
    /\ raises'[k].todo = Tail(raises[k].todo) /\ raises'[k].read = None
    /\ \A x : S!Contains(raises[k].todo, x)
                <=> S!Contains(raises'[k].todo, x) \/ Head(raises[k].todo) = x

\* Called(k) takes the subscription that was called from the k-th pick.
LEMMA CalledNext ==
    ASSUME TypeOK, NEW k \in DOMAIN raises, raises[k].todo # <<>>, Called(k)
    PROVE  CallsNext(k)
<1> DEFINE todo == raises[k].todo
           r == [todo |-> Tail(todo), read |-> None]
<1>1. raises \in Seq(RaiseOf) /\ todo \in Seq(Subscription)
  <2>1. raises \in Seq(RaiseOf)
    BY TypeParts
  <2>2. raises[k] \in RaiseOf
    BY <2>1
  <2> QED BY <2>1, <2>2 DEF RaiseOf
<1>2. raises' = [raises EXCEPT ![k] = r]
  BY DEF Called
<1>3. Tail(todo) \in Seq(Subscription)
  BY <1>1, TailPops
<1>4. r \in RaiseOf /\ r.todo = Tail(todo) /\ r.read = None
  BY <1>3 DEF RaiseOf, ThemeOrNone
<1>5. \A x : S!Contains(todo, x) <=> S!Contains(Tail(todo), x) \/ Head(todo) = x
  BY <1>1, ContainsPopped
<1> HIDE DEF r
<1>6. OnlyPick(k) /\ raises'[k] = r
  BY <1>1, <1>2, <1>4 DEF OnlyPick
<1> QED BY <1>4, <1>5, <1>6 DEF CallsNext

ReadsTheme(k) ==
    /\ OnlyPick(k) /\ raises[k].todo # <<>> /\ Head(raises[k].todo) # Layout
    /\ raises'[k].todo = raises[k].todo /\ raises'[k].read = theme

\* CallbackReads(k) notes the theme of the ThemeManager in the k-th pick.
LEMMA CallbackReadsTheme ==
    ASSUME TypeOK, NEW k \in DOMAIN raises, CallbackReads(k)
    PROVE  ReadsTheme(k)
<1>1. raises \in Seq(RaiseOf) /\ theme \in ThemeOrNone
  BY TypeParts DEF PlainTyped
<1>2. raises[k] \in RaiseOf
  BY <1>1
<1>3. raises' = [raises EXCEPT ![k].read = theme]
      /\ raises[k].todo # <<>> /\ Head(raises[k].todo) # Layout
  BY DEF CallbackReads
<1>4. [raises[k] EXCEPT !.read = theme] \in RaiseOf
  BY <1>1, <1>2 DEF RaiseOf
<1>5. /\ raises'[k].todo = raises[k].todo /\ raises'[k].read = theme
  BY <1>1, <1>2, <1>3 DEF RaiseOf
<1>6. OnlyPick(k)
  BY <1>1, <1>3, <1>4 DEF OnlyPick
<1> QED BY <1>3, <1>5, <1>6 DEF ReadsTheme

\* The callback of MainLayout returns to a pick that waits for it.
LEMMA AnswersNext ==
    ASSUME TypeOK, UpdatesWait, Answers
    PROVE  Waiting(replies[1].n) /\ CallsNext(replies[1].n)
<1>1. 1 \in DOMAIN replies /\ replies[1].f = "applied" /\ Called(replies[1].n)
  BY DEF Answers, Popped
<1>2. Waiting(replies[1].n)
  BY <1>1 DEF UpdatesWait, IsApplied
<1>3. replies[1].n \in DOMAIN raises /\ raises[replies[1].n].todo # <<>>
  BY <1>2 DEF Waiting, WaitingIn
<1>4. CallsNext(replies[1].n)
  BY <1>1, <1>3, CalledNext
<1> QED BY <1>2, <1>4

\* A callback that has read the theme sets it.
LEMMA CallbackSetsNext ==
    ASSUME TypeOK, ReadsNext, NEW k \in DOMAIN raises, CallbackSets(k)
    PROVE  CallsNext(k) /\ Head(raises[k].todo) # Layout /\ raises[k].read # None
<1>1. raises[k].read # None /\ Called(k)
  BY DEF CallbackSets
<1>2. raises[k].todo # <<>> /\ Head(raises[k].todo) # Layout
  BY <1>1 DEF ReadsNext
<1>3. CallsNext(k)
  BY <1>1, <1>2, CalledNext
<1> QED BY <1>1, <1>2, <1>3

\* A pick is the last one.
LEMMA RaisesPushed ==
    ASSUME TypeOK, NEW v, Raises(v)
    PROVE  /\ raises' \in Seq(RaiseOf) /\ Len(raises') = Len(raises) + 1
           /\ Pushed(raises, raises', [todo |-> subs, read |-> None])
           /\ raises'[Len(raises) + 1].todo = subs /\ raises'[Len(raises) + 1].read = None
<1> DEFINE r == [todo |-> subs, read |-> None]
<1>1. raises \in Seq(RaiseOf) /\ subs \in Seq(Subscription)
  BY TypeParts
<1>2. r \in RaiseOf /\ r.todo = subs /\ r.read = None
  BY <1>1 DEF RaiseOf, ThemeOrNone
<1>3. raises' = Append(raises, r)
  BY DEF Raises
<1> HIDE DEF r
<1>4. Append(raises, r) \in Seq(RaiseOf) /\ Pushed(raises, Append(raises, r), r)
      /\ Len(Append(raises, r)) = Len(raises) + 1
  BY <1>1, <1>2, AppendPushes
<1>5. raises'[Len(raises) + 1] = r
  BY <1>3, <1>4 DEF Pushed
<1> QED BY <1>2, <1>3, <1>4, <1>5 DEF r

\* Every other variable keeps its type.
LEMMA SubsTypedKept ==
    ASSUME TypeOK, Move
    PROVE  subs' \in Seq(Subscription)
<1>1. subs \in Seq(Subscription) /\ dialog.n \in Nat
  BY TypeParts DEF DialogOf
<1>2. CASE UNCHANGED subs
  BY <1>1, <1>2
<1>3. ASSUME NEW s \in Subscription, subs' = Append(subs, s)
      PROVE  subs' \in Seq(Subscription)
  BY <1>1, <1>3, AppendPushes
<1>4. ASSUME NEW s, subs' = RemoveSubscription(s)
      PROVE  subs' \in Seq(Subscription)
  BY <1>4, Removal
<1>5. Chart \in Subscription /\ Dialog(dialog.n + 1) \in Subscription
  BY <1>1 DEF Chart, Dialog, Subscription
<1>6. CASE PageActs
  BY <1>2, <1>3, <1>4, <1>5, <1>6
     DEF PageActs, Launches, Disposes, Shows, Leaves, DisposeDialog, LeaveMetrics
<1>7. ASSUME NEW k \in DOMAIN raises, CallbackReads(k) \/ CallbackSets(k)
      PROVE  UNCHANGED subs
  BY <1>7 DEF CallbackReads, CallbackSets
<1>8. ASSUME NEW v \in Setting, OtherWindow(v)
      PROVE  UNCHANGED subs
  BY <1>8 DEF OtherWindow, serverVars
<1>9. CASE ~PageActs
  <2>1. UNCHANGED subs
    BY <1>7, <1>8, <1>9 DEF Move, ScriptStarts, CookieAnswered, ThemeApplied, Drawn, UserActs,
        LayoutStarts, Asks, Opens, Picked, Answers, Renders, vars, serverVars
  <2> QED BY <1>2, <2>1
<1> QED BY <1>6, <1>9

\* A pick that goes on has a callback left, so that its rest is typed.
LEMMA RaisesTypedKept ==
    ASSUME TypeOK, UpdatesWait, ReadsNext, Move
    PROVE  raises' \in Seq(RaiseOf)
<1>1. raises \in Seq(RaiseOf)
  BY TypeParts
<1>2. ASSUME NEW k \in DOMAIN raises, CallbackReads(k) \/ CallbackSets(k)
      PROVE  raises' \in Seq(RaiseOf)
  BY <1>2, CallbackReadsTheme, CallbackSetsNext DEF ReadsTheme, CallsNext, OnlyPick
<1>3. CASE Answers
  BY <1>3, AnswersNext DEF CallsNext, OnlyPick
<1>4. CASE Picked
  BY <1>1, <1>4, RaisesPushed DEF Picked, Loses
<1>5. ASSUME NEW v \in Setting, OtherWindow(v)
      PROVE  UNCHANGED raises
  BY <1>5 DEF OtherWindow, serverVars
<1>6. CASE ~Answers /\ ~Picked /\ ~\E k \in DOMAIN raises : CallbackReads(k) \/ CallbackSets(k)
  BY <1>1, <1>5, <1>6 DEF Move, ScriptStarts, CookieAnswered, ThemeApplied, Drawn, UserActs,
        LayoutStarts, PageActs, Asks, Opens, Renders, vars, serverVars
<1> QED BY <1>2, <1>3, <1>4, <1>6

\* The dialog.
LEMMA DialogTypedKept ==
    ASSUME TypeOK, Move
    PROVE  dialog' \in DialogOf
<1>1. dialog \in DialogOf
  BY TypeParts
<1>2. CASE PageActs
  BY <1>1, <1>2 DEF PageActs, Launches, Disposes, Shows, Leaves, DisposeDialog, DialogOf,
                    ThemeOrNone, Setting
<1>3. CASE Asks
  BY <1>1, <1>3 DEF Asks, DialogOf
<1>4. CASE Opens
  BY <1>1, <1>4 DEF Opens, DialogOf
<1>5. CASE Picked
  BY <1>1, <1>5 DEF Picked, Raises, Loses, DialogOf, ThemeOrNone
<1>6. ASSUME NEW k \in DOMAIN raises, CallbackReads(k)
      PROVE  UNCHANGED dialog
  BY <1>6 DEF CallbackReads
<1>7. ASSUME NEW k \in DOMAIN raises, CallbackSets(k)
      PROVE  dialog' \in DialogOf
  <2>1. raises \in Seq(RaiseOf)
    BY TypeParts
  <2>2. raises[k] \in RaiseOf
    BY <2>1
  <2>3. raises[k].read \in ThemeOrNone
    BY <2>2 DEF RaiseOf
  <2>4. SettingAfter(k) \in ThemeOrNone
    BY <1>1, <2>3 DEF SettingAfter, DialogOf
  <2>5. dialog' = [dialog EXCEPT !.setting = SettingAfter(k)]
    BY <1>7 DEF CallbackSets
  <2> QED BY <1>1, <2>4, <2>5 DEF DialogOf
<1>8. ASSUME NEW v \in Setting, OtherWindow(v)
      PROVE  UNCHANGED dialog
  BY <1>8 DEF OtherWindow, serverVars
<1>9. CASE /\ ~PageActs /\ ~Asks /\ ~Opens /\ ~Picked
           /\ ~\E k \in DOMAIN raises : CallbackReads(k) \/ CallbackSets(k)
  BY <1>1, <1>8, <1>9 DEF Move, ScriptStarts, CookieAnswered, ThemeApplied, Drawn, UserActs,
        LayoutStarts, Answers, Renders, vars, serverVars
<1> QED BY <1>1, <1>2, <1>3, <1>4, <1>5, <1>6, <1>7, <1>9

\* The chart.
LEMMA ChartTypedKept ==
    ASSUME TypeOK, Move
    PROVE  chart' \in ChartOf
<1>1. chart \in ChartOf /\ document \in {"Light", "Dark"}
  BY TypeParts DEF PlainTyped
<1>2. CASE Drawn
  <2>1. S!Reverse(Trace) \in Seq(STRING)
    BY TraceAssumption DEF S!Reverse
  <2> DEFINE R == S!Reverse(Trace)
  <2> HIDE DEF R
  <2>2. chart' = [shown |-> chart.shown, theme |-> chart.theme, rendered |-> chart.rendered,
                  back |-> chart'.back, order |-> R]
    BY <1>2 DEF Drawn, R
  <2>3. chart'.back \in {None, "Light", "Dark"} /\ R \in Seq(STRING)
    BY <1>1, <1>2, <2>1 DEF Drawn, ChartOf, R
  <2> QED BY <1>1, <2>2, <2>3 DEF ChartOf
<1>3. CASE PageActs
  BY <1>1, <1>3 DEF PageActs, Launches, Disposes, Shows, Leaves, LeaveMetrics, ChartOf
<1>4. CASE Picked
  BY <1>1, <1>4 DEF Picked, Raises, Loses, ChartOf, ThemeOrNone
<1>5. CASE Renders
  BY <1>1, <1>5 DEF Renders, ChartOf
<1>6. ASSUME NEW k \in DOMAIN raises, CallbackReads(k)
      PROVE  UNCHANGED chart
  BY <1>6 DEF CallbackReads
<1>7. ASSUME NEW k \in DOMAIN raises, CallbackSets(k)
      PROVE  chart' \in ChartOf
  <2>1. raises \in Seq(RaiseOf)
    BY TypeParts
  <2>2. raises[k] \in RaiseOf
    BY <2>1
  <2>3. raises[k].read \in ThemeOrNone
    BY <2>2 DEF RaiseOf
  <2> QED BY <1>1, <1>7, <2>3 DEF CallbackSets, ChartOf
<1>8. ASSUME NEW v \in Setting, OtherWindow(v)
      PROVE  UNCHANGED chart
  BY <1>8 DEF OtherWindow
<1>9. CASE /\ ~Drawn /\ ~PageActs /\ ~Picked /\ ~Renders
           /\ ~\E k \in DOMAIN raises : CallbackReads(k) \/ CallbackSets(k)
  BY <1>1, <1>8, <1>9 DEF Move, ScriptStarts, CookieAnswered, ThemeApplied, UserActs,
        LayoutStarts, Asks, Opens, Answers, vars
<1> QED BY <1>1, <1>2, <1>3, <1>4, <1>5, <1>6, <1>7, <1>9

\* The bounds.
LEMMA CountTypedKept ==
    ASSUME TypeOK, Move
    PROVE  count' \in CountOf
<1>1. count \in CountOf
  BY TypeParts
<1>2. CASE UserActs \/ Renders
  BY <1>2 DEF UserActs, Renders, CountOf
<1>3. ASSUME NEW v \in Setting, OtherWindow(v)
      PROVE  count' \in CountOf
  <2>1. count' = [count EXCEPT !.foreign = count.foreign + 1]
    BY <1>3 DEF OtherWindow
  <2> QED BY <1>1, <2>1 DEF CountOf
<1>4. ASSUME NEW k \in DOMAIN raises, CallbackReads(k) \/ CallbackSets(k)
      PROVE  UNCHANGED count
  BY <1>4 DEF CallbackReads, CallbackSets
<1>5. CASE ~UserActs /\ ~Renders /\ ~\E v \in Setting : OtherWindow(v)
  BY <1>1, <1>4, <1>5 DEF Move, ScriptStarts, CookieAnswered, ThemeApplied, Drawn,
        LayoutStarts, PageActs, Asks, Opens, Picked, Answers, vars
<1> QED BY <1>2, <1>3, <1>5

\* The cookie, the document, the theme and the flags.
LEMMA PlainTypedKept ==
    ASSUME TypeOK, Move
    PROVE  PlainTyped'
<1>1. PlainTyped
  BY TypeParts
<1>2. CASE ScriptStarts \/ CookieAnswered \/ Drawn \/ UserActs \/ Renders
  BY <1>1, <1>2 DEF ScriptStarts, CookieAnswered, Drawn, UserActs, Renders, PlainTyped
<1>3. CASE ThemeApplied
  BY <1>1, <1>3, EffectiveTypes DEF ThemeApplied, PlainTyped, ThemeOrNone
<1>4. CASE LayoutStarts \/ PageActs \/ Asks \/ Opens \/ Answers
  BY <1>1, <1>4 DEF LayoutStarts, PageActs, Asks, Opens, Answers, PlainTyped
<1>5. CASE Picked
  <2>1. CASE Raises(replies[1].arg)
    <3>1. rushed' \in BOOLEAN /\ undrawn' \in BOOLEAN
      BY <1>1, <2>1, Zenon DEF Raises, PlainTyped
    <3> QED BY <1>1, <1>5, <2>1, <3>1 DEF Picked, Raises, PlainTyped, ThemeOrNone
  <2>2. CASE Loses(replies[1].arg)
    BY <1>1, <1>5, <2>2 DEF Picked, Loses, PlainTyped, ThemeOrNone
  <2>3. CASE UNCHANGED <<dialog, theme, raises, calls, chart, lost, rushed, undrawn>>
    BY <1>1, <1>5, <2>3 DEF Picked, PlainTyped
  <2> QED BY <1>5, <2>1, <2>2, <2>3 DEF Picked
<1>6. ASSUME NEW v \in Setting, OtherWindow(v)
      PROVE  PlainTyped'
  BY <1>1, <1>6 DEF OtherWindow, PlainTyped, ThemeOrNone, serverVars, historyVars
<1>7. ASSUME NEW k \in DOMAIN raises, CallbackReads(k) \/ CallbackSets(k)
      PROVE  PlainTyped'
  BY <1>1, <1>7 DEF CallbackReads, CallbackSets, PlainTyped, historyVars
<1>8. CASE UNCHANGED vars
  BY <1>1, <1>8 DEF vars, PlainTyped, serverVars, historyVars
<1> QED BY <1>2, <1>3, <1>4, <1>5, <1>6, <1>7, <1>8 DEF Move

\* Every step but a page load keeps the types.
LEMMA TypeKept ==
    ASSUME TypeOK, UpdatesWait, ReadsNext, Move
    PROVE  TypeOK'
<1>1. /\ CallsTyped' /\ RepliesTyped' /\ subs' \in Seq(Subscription)
      /\ raises' \in Seq(RaiseOf) /\ dialog' \in DialogOf /\ chart' \in ChartOf
      /\ count' \in CountOf /\ PlainTyped'
  BY CallsTypedKept, RepliesTypedKept, SubsTypedKept, RaisesTypedKept, DialogTypedKept,
     ChartTypedKept, CountTypedKept, PlainTypedKept
<1>2. (TypeOK <=> /\ CallsTyped /\ RepliesTyped /\ subs \in Seq(Subscription)
                  /\ raises \in Seq(RaiseOf) /\ dialog \in DialogOf /\ chart \in ChartOf
                  /\ count \in CountOf /\ PlainTyped)'
  BY TypeParts, PTL
<1> QED BY <1>1, <1>2

-----------------------------------------------------------------------------
(* The calls of updateTheme and their replies.                             *)

\* Only a pick sends a call of updateTheme.
LEMMA CallsChange ==
    ASSUME Move
    PROVE  \/ UNCHANGED calls
           \/ Popped(calls, calls')
           \/ \E m : Pushed(calls, calls', m) /\ m.f # "updateTheme"
           \/ Picked /\ Raises(replies[1].arg)
<1>1. CASE ScriptStarts \/ CookieAnswered \/ ThemeApplied \/ Drawn
  BY <1>1 DEF ScriptStarts, CookieAnswered, ThemeApplied, Drawn
<1>2. CASE UserActs \/ Opens \/ Answers \/ UNCHANGED vars
  BY <1>2 DEF UserActs, Opens, Answers, vars
<1>3. CASE LayoutStarts
  BY <1>3 DEF LayoutStarts
<1>4. CASE PageActs
  BY <1>4 DEF PageActs, Launches, Disposes, Shows, Leaves
<1>5. CASE Asks
  <2>1. Message("getThemeCookieValue", None, dialog.n).f = "getThemeCookieValue"
    BY DEF Message
  <2> QED BY <1>5, <2>1 DEF Asks
<1>6. CASE Picked
  BY <1>6 DEF Picked, Loses
<1>7. CASE Renders
  BY <1>7 DEF Renders
<1>8. ASSUME NEW v \in Setting, OtherWindow(v)
      PROVE  UNCHANGED calls
  BY <1>8 DEF OtherWindow
<1>9. ASSUME NEW k \in DOMAIN raises, CallbackReads(k) \/ CallbackSets(k)
      PROVE  UNCHANGED calls
  BY <1>9 DEF CallbackReads, CallbackSets
<1> QED BY <1>1, <1>2, <1>3, <1>4, <1>5, <1>6, <1>7, <1>8, <1>9 DEF Move

\* Only ApplyTheme replies to one.
LEMMA RepliesChange ==
    ASSUME Move
    PROVE  \/ UNCHANGED replies
           \/ Popped(replies, replies')
           \/ \E m : Pushed(replies, replies', m) /\ m.f # "applied"
           \/ ThemeApplied
<1>1. CASE ScriptStarts
  BY <1>1 DEF ScriptStarts
<1>2. CASE CookieAnswered
  <2>1. \A a, n : Message("cookie", a, n).f = "cookie"
    BY DEF Message
  <2> QED BY <1>2, <2>1 DEF CookieAnswered
<1>3. CASE UserActs
  BY <1>3 DEF UserActs
<1>4. CASE Drawn \/ Renders \/ UNCHANGED vars
  BY <1>4 DEF Drawn, Renders, vars
<1>5. CASE LayoutStarts \/ PageActs \/ Asks \/ Opens \/ Picked \/ Answers
  BY <1>5 DEF LayoutStarts, PageActs, Asks, Opens, Picked, Answers
<1>6. ASSUME NEW v \in Setting, OtherWindow(v)
      PROVE  UNCHANGED replies
  BY <1>6 DEF OtherWindow
<1>7. ASSUME NEW k \in DOMAIN raises, CallbackReads(k) \/ CallbackSets(k)
      PROVE  UNCHANGED replies
  BY <1>7 DEF CallbackReads, CallbackSets
<1> QED BY <1>1, <1>2, <1>3, <1>4, <1>5, <1>6, <1>7 DEF Move

\* The steps that change what the picks have to call.
LEMMA RaisesChange ==
    ASSUME Move
    PROVE  \/ UNCHANGED raises
           \/ Answers
           \/ Picked /\ Raises(replies[1].arg)
           \/ \E k \in DOMAIN raises : CallbackReads(k) \/ CallbackSets(k)
<1>1. ASSUME NEW v \in Setting, OtherWindow(v)
      PROVE  UNCHANGED raises
  BY <1>1 DEF OtherWindow, serverVars
<1> QED BY <1>1 DEF Move, ScriptStarts, CookieAnswered, ThemeApplied, Drawn, UserActs,
        LayoutStarts, PageActs, Asks, Opens, Picked, Loses, Renders, vars, serverVars

\* A pick that waits goes on waiting until its reply is received.
LEMMA WaitingKept ==
    ASSUME TypeOK, UpdatesWait, ReadsNext, Move, NEW k, WaitingIn(raises, k),
           Answers => k # replies[1].n
    PROVE  WaitingIn(raises', k)
<1>1. CASE UNCHANGED raises
  BY <1>1
<1>2. CASE Answers
  <2>1. CallsNext(replies[1].n) /\ k # replies[1].n
    BY <1>2, AnswersNext
  <2> QED BY <2>1 DEF WaitingIn, CallsNext, OnlyPick
<1>3. CASE Picked /\ Raises(replies[1].arg)
  <2>1. Pushed(raises, raises', [todo |-> subs, read |-> None])
    BY <1>3, RaisesPushed
  <2>2. k \in DOMAIN raises' /\ raises'[k] = raises[k]
    BY <2>1 DEF WaitingIn, Pushed
  <2> QED BY <2>2 DEF WaitingIn
<1>4. ASSUME NEW j \in DOMAIN raises, CallbackReads(j) \/ CallbackSets(j)
      PROVE  WaitingIn(raises', k)
  <2>1. OnlyPick(j) /\ Head(raises[j].todo) # Layout
    BY <1>4, CallbackReadsTheme, CallbackSetsNext DEF ReadsTheme, CallsNext
  <2>2. k # j
    BY <2>1 DEF WaitingIn
  <2> QED BY <2>1, <2>2 DEF WaitingIn, OnlyPick
<1> QED BY <1>1, <1>2, <1>3, <1>4, RaisesChange

\* The pick that is received waits for MainLayout, the first subscriber.
LEMMA RaisedWaits ==
    ASSUME TypeOK, Subscribed, NEW v, Raises(v)
    PROVE  WaitingIn(raises', Len(raises) + 1)
<1>1. raises' \in Seq(RaiseOf) /\ Len(raises') = Len(raises) + 1
      /\ raises'[Len(raises) + 1].todo = subs /\ raises'[Len(raises) + 1].read = None
  BY RaisesPushed
<1>2. Len(raises) \in Nat
  BY QueueTypes
<1>3. Len(raises) + 1 \in DOMAIN raises'
  BY <1>1, <1>2
<1>4. subs # <<>> /\ Head(subs) = Layout
  BY DEF Subscribed
<1> QED BY <1>1, <1>3, <1>4 DEF WaitingIn

\* A call of updateTheme and its reply always find the pick that waits for them.
LEMMA UpdatesWaitKept ==
    ASSUME TypeOK, UpdatesWait, OneEach, ReadsNext, Subscribed, Move
    PROVE  UpdatesWait'
<1>1. \A k : WaitingIn(raises, k) /\ (Answers => k # replies[1].n) => WaitingIn(raises', k)
  BY WaitingKept
<1>2. Answers => 1 \in DOMAIN replies /\ IsApplied(replies, 1)
  BY DEF Answers, Popped, IsApplied
<1>3. \A i \in DOMAIN calls : IsUpdate(calls, i) => WaitingIn(raises', calls[i].n)
  BY <1>1, <1>2 DEF UpdatesWait, Waiting, OneEach
<1>4. \A i \in DOMAIN replies : IsApplied(replies, i) /\ (Answers => i # 1)
                                  => WaitingIn(raises', replies[i].n)
  BY <1>1, <1>2 DEF UpdatesWait, Waiting, OneEach
<1>5. \A i \in DOMAIN calls' : IsUpdate(calls', i) => WaitingIn(raises', calls'[i].n)
  <2>1. CASE UNCHANGED calls
    BY <1>3, <2>1
  <2>2. CASE Popped(calls, calls')
    BY <1>3, <2>2 DEF Popped, IsUpdate
  <2>3. ASSUME NEW m, Pushed(calls, calls', m), m.f # "updateTheme"
        PROVE  \A i \in DOMAIN calls' : IsUpdate(calls', i) => WaitingIn(raises', calls'[i].n)
    BY <1>3, <2>3 DEF Pushed, IsUpdate
  <2>4. CASE Picked /\ Raises(replies[1].arg)
    <3> DEFINE m == Message("updateTheme", replies[1].arg, Len(raises) + 1)
    <3>1. Pushed(calls, calls', m)
      BY <2>4 DEF Raises
    <3>2. WaitingIn(raises', m.n)
      BY <2>4, RaisedWaits DEF Message
    <3> HIDE DEF m
    <3> QED BY <1>3, <3>1, <3>2 DEF Pushed, IsUpdate
  <2> QED BY <2>1, <2>2, <2>3, <2>4, CallsChange
<1>6. \A i \in DOMAIN replies' : IsApplied(replies', i) => WaitingIn(raises', replies'[i].n)
  <2>1. CASE UNCHANGED replies
    <3>1. ~Answers
      BY <2>1 DEF Answers, Popped
    <3> QED BY <1>4, <2>1, <3>1
  <2>2. CASE Popped(replies, replies')
    BY <1>4, <2>2 DEF Popped, IsApplied
  <2>3. ASSUME NEW m, Pushed(replies, replies', m), m.f # "applied"
        PROVE  \A i \in DOMAIN replies' :
                 IsApplied(replies', i) => WaitingIn(raises', replies'[i].n)
    <3>1. ~Answers
      BY <2>3, PushedNotPopped DEF Answers
    <3> QED BY <1>4, <2>3, <3>1 DEF Pushed, IsApplied
  <2>4. CASE ThemeApplied
    <3> DEFINE m == Message("applied", None, calls[1].n)
    <3>1. Pushed(replies, replies', m) /\ ~Answers
      BY <2>4, PushedNotPopped DEF ThemeApplied, Answers
    <3>2. 1 \in DOMAIN calls /\ IsUpdate(calls, 1)
      BY <2>4 DEF ThemeApplied, Popped, IsUpdate
    <3>3. WaitingIn(raises', m.n)
      BY <1>3, <3>2 DEF Message
    <3> HIDE DEF m
    <3> QED BY <1>4, <3>1, <3>3 DEF Pushed, IsApplied
  <2> QED BY <2>1, <2>2, <2>3, <2>4, RepliesChange
<1> QED BY <1>5, <1>6 DEF UpdatesWait, Waiting

\* There are never two of them for one pick.
LEMMA OneEachKept ==
    ASSUME TypeOK, UpdatesWait, OneEach, Move
    PROVE  OneEach'
<1>1. Len(raises) + 1 \notin DOMAIN raises
  BY QueueTypes
<1>2. \A k : WaitingIn(raises, k) => k \in DOMAIN raises
  BY DEF WaitingIn
<1>3. ASSUME Picked, Raises(replies[1].arg)
      PROVE  \E m : /\ Pushed(calls, calls', m) /\ m.f = "updateTheme"
                    /\ m.n = Len(raises) + 1 /\ m.n \notin DOMAIN raises
  <2> DEFINE m == Message("updateTheme", replies[1].arg, Len(raises) + 1)
  <2>1. Pushed(calls, calls', m)
    BY <1>3 DEF Raises
  <2>2. m.f = "updateTheme" /\ m.n = Len(raises) + 1
    BY DEF Message
  <2> HIDE DEF m
  <2> QED BY <1>1, <2>1, <2>2
<1>4. ASSUME ThemeApplied
      PROVE  \E m : Pushed(replies, replies', m) /\ m.f = "applied" /\ m.n = calls[1].n
  <2> DEFINE m == Message("applied", None, calls[1].n)
  <2>1. Pushed(replies, replies', m)
    BY <1>4 DEF ThemeApplied
  <2>2. m.f = "applied" /\ m.n = calls[1].n
    BY DEF Message
  <2> HIDE DEF m
  <2> QED BY <2>1, <2>2
<1> DEFINE CallsApart(q) == \A i, j \in DOMAIN q :
             IsUpdate(q, i) /\ IsUpdate(q, j) /\ q[i].n = q[j].n => i = j
           RepliesApart(q) == \A i, j \in DOMAIN q :
             IsApplied(q, i) /\ IsApplied(q, j) /\ q[i].n = q[j].n => i = j
           Apart(p, q) == \A i \in DOMAIN p, j \in DOMAIN q :
             IsUpdate(p, i) /\ IsApplied(q, j) => p[i].n # q[j].n
<1>5. CallsApart(calls) /\ RepliesApart(replies) /\ Apart(calls, replies)
  BY DEF OneEach
<1>6. CallsApart(calls')
  <2>1. CASE UNCHANGED calls
    BY <1>5, <2>1
  <2>2. CASE Popped(calls, calls')
    <3>1. \A i \in DOMAIN calls' : i \in Int /\ i + 1 \in DOMAIN calls /\ calls'[i] = calls[i + 1]
      BY <2>2 DEF Popped
    <3> QED BY <1>5, <3>1 DEF IsUpdate
  <2>3. ASSUME NEW m, Pushed(calls, calls', m), m.f # "updateTheme"
        PROVE  CallsApart(calls')
    BY <1>5, <2>3 DEF Pushed, IsUpdate
  <2>4. CASE Picked /\ Raises(replies[1].arg)
    <3>1. PICK m : /\ Pushed(calls, calls', m) /\ m.f = "updateTheme"
                   /\ m.n \notin DOMAIN raises
      BY <1>3, <2>4
    <3>2. \A i \in DOMAIN calls : IsUpdate(calls, i) => calls[i].n # m.n
      BY <1>2, <3>1 DEF UpdatesWait, Waiting
    <3> QED BY <1>5, <3>1, <3>2 DEF Pushed, IsUpdate
  <2> QED BY <2>1, <2>2, <2>3, <2>4, CallsChange
<1>7. RepliesApart(replies')
  <2>1. CASE UNCHANGED replies
    BY <1>5, <2>1
  <2>2. CASE Popped(replies, replies')
    <3>1. \A i \in DOMAIN replies' :
            i \in Int /\ i + 1 \in DOMAIN replies /\ replies'[i] = replies[i + 1]
      BY <2>2 DEF Popped
    <3> QED BY <1>5, <3>1 DEF IsApplied
  <2>3. ASSUME NEW m, Pushed(replies, replies', m), m.f # "applied"
        PROVE  RepliesApart(replies')
    BY <1>5, <2>3 DEF Pushed, IsApplied
  <2>4. CASE ThemeApplied
    <3>1. PICK m : Pushed(replies, replies', m) /\ m.f = "applied" /\ m.n = calls[1].n
      BY <1>4, <2>4
    <3>2. 1 \in DOMAIN calls /\ IsUpdate(calls, 1)
      BY <2>4 DEF ThemeApplied, Popped, IsUpdate
    <3>3. \A i \in DOMAIN replies : IsApplied(replies, i) => replies[i].n # m.n
      BY <1>5, <3>1, <3>2
    <3> QED BY <1>5, <3>1, <3>3 DEF Pushed, IsApplied
  <2> QED BY <2>1, <2>2, <2>3, <2>4, RepliesChange
<1>8. Apart(calls', replies')
  <2>1. CASE Picked /\ Raises(replies[1].arg)
    <3>1. PICK m : /\ Pushed(calls, calls', m) /\ m.f = "updateTheme"
                   /\ m.n \notin DOMAIN raises
      BY <1>3, <2>1
    <3>2. Popped(replies, replies')
      BY <2>1 DEF Picked
    <3>3. \A j \in DOMAIN replies' : j + 1 \in DOMAIN replies /\ replies'[j] = replies[j + 1]
      BY <3>2 DEF Popped
    <3>4. \A i \in DOMAIN calls' : (i \in DOMAIN calls /\ calls'[i] = calls[i]) \/ calls'[i] = m
      BY <3>1 DEF Pushed
    <3>5. \A i \in DOMAIN replies : IsApplied(replies, i) => replies[i].n # m.n
      BY <1>2, <3>1 DEF UpdatesWait, Waiting
    <3> QED BY <1>5, <3>3, <3>4, <3>5 DEF IsUpdate, IsApplied
  <2>2. CASE ThemeApplied
    <3>1. PICK m : Pushed(replies, replies', m) /\ m.f = "applied" /\ m.n = calls[1].n
      BY <1>4, <2>2
    <3>2. Popped(calls, calls')
      BY <2>2 DEF ThemeApplied
    <3>3. \A i \in DOMAIN calls' : i + 1 \in DOMAIN calls /\ i + 1 # 1 /\ calls'[i] = calls[i + 1]
      BY <3>2 DEF Popped
    <3>4. \A j \in DOMAIN replies' :
            (j \in DOMAIN replies /\ replies'[j] = replies[j]) \/ replies'[j] = m
      BY <3>1 DEF Pushed
    <3>5. 1 \in DOMAIN calls /\ IsUpdate(calls, 1)
      BY <2>2 DEF ThemeApplied, Popped, IsUpdate
    <3>6. \A i \in DOMAIN calls' : IsUpdate(calls', i) => calls'[i].n # m.n
      BY <1>5, <3>1, <3>3, <3>5 DEF IsUpdate
    <3> QED BY <1>5, <3>3, <3>4, <3>6 DEF IsUpdate, IsApplied
  <2>3. CASE ~ThemeApplied /\ ~(Picked /\ Raises(replies[1].arg))
    <3>1. ASSUME NEW i \in DOMAIN calls', IsUpdate(calls', i)
          PROVE  \E a \in DOMAIN calls : calls'[i] = calls[a]
      BY <2>3, <3>1, CallsChange DEF Popped, Pushed, IsUpdate
    <3>2. ASSUME NEW i \in DOMAIN replies', IsApplied(replies', i)
          PROVE  \E a \in DOMAIN replies : replies'[i] = replies[a]
      BY <2>3, <3>2, RepliesChange DEF Popped, Pushed, IsApplied
    <3> QED BY <1>5, <3>1, <3>2 DEF IsUpdate, IsApplied
  <2> QED BY <2>1, <2>2, <2>3
<1> QED BY <1>6, <1>7, <1>8 DEF OneEach

\* A callback reads the theme when it is its turn.
LEMMA ReadsNextKept ==
    ASSUME TypeOK, UpdatesWait, ReadsNext, Move
    PROVE  ReadsNext'
<1>1. CASE UNCHANGED raises
  BY <1>1 DEF ReadsNext
<1>2. ASSUME NEW k, CallsNext(k)
      PROVE  ReadsNext'
  BY <1>2 DEF ReadsNext, CallsNext, OnlyPick
<1>3. CASE Answers
  BY <1>2, <1>3, AnswersNext
<1>4. CASE Picked /\ Raises(replies[1].arg)
  <2>1. Pushed(raises, raises', [todo |-> subs, read |-> None])
        /\ raises'[Len(raises) + 1].read = None
    BY <1>4, RaisesPushed
  <2>2. \A k \in DOMAIN raises' :
          (k \in DOMAIN raises /\ raises'[k] = raises[k]) \/ raises'[k].read = None
    BY <2>1 DEF Pushed
  <2> QED BY <2>2 DEF ReadsNext
<1>5. ASSUME NEW k \in DOMAIN raises, CallbackReads(k)
      PROVE  ReadsNext'
  <2>1. ReadsTheme(k)
    BY <1>5, CallbackReadsTheme
  <2> QED BY <2>1 DEF ReadsNext, ReadsTheme, OnlyPick
<1>6. ASSUME NEW k \in DOMAIN raises, CallbackSets(k)
      PROVE  ReadsNext'
  BY <1>2, <1>6, CallbackSetsNext
<1> QED BY <1>1, <1>3, <1>4, <1>5, <1>6, RaisesChange

-----------------------------------------------------------------------------
(* The subscriptions.                                                      *)

\* MainLayout, the chart and a dialog are different subscribers.
LEMMA SubscriptionsApart ==
    ASSUME NEW n
    PROVE  Layout # Chart /\ Layout # Dialog(n) /\ Chart # Dialog(n)
BY DEF Layout, Chart, Dialog

\* The picks that are on their way do not come to a new subscription.
LEMMA NoNewCallback ==
    ASSUME TypeOK, UpdatesWait, ReadsNext, Move, NEW x,
           \A k \in DOMAIN raises : ~S!Contains(raises[k].todo, x),
           ~S!Contains(subs, x)
    PROVE  \A k \in DOMAIN raises' : ~S!Contains(raises'[k].todo, x)
<1>1. CASE UNCHANGED raises
  BY <1>1
<1>2. ASSUME NEW k, CallsNext(k)
      PROVE  \A j \in DOMAIN raises' : ~S!Contains(raises'[j].todo, x)
  BY <1>2 DEF CallsNext, OnlyPick
<1>3. CASE Answers
  BY <1>2, <1>3, AnswersNext
<1>4. CASE Picked /\ Raises(replies[1].arg)
  <2>1. Pushed(raises, raises', [todo |-> subs, read |-> None])
        /\ raises'[Len(raises) + 1].todo = subs
    BY <1>4, RaisesPushed
  <2>2. \A k \in DOMAIN raises' :
          (k \in DOMAIN raises /\ raises'[k] = raises[k]) \/ raises'[k].todo = subs
    BY <2>1 DEF Pushed
  <2> QED BY <2>2
<1>5. ASSUME NEW k \in DOMAIN raises, CallbackReads(k)
      PROVE  \A j \in DOMAIN raises' : ~S!Contains(raises'[j].todo, x)
  <2>1. ReadsTheme(k)
    BY <1>5, CallbackReadsTheme
  <2> QED BY <2>1 DEF ReadsTheme, OnlyPick
<1>6. ASSUME NEW k \in DOMAIN raises, CallbackSets(k)
      PROVE  \A j \in DOMAIN raises' : ~S!Contains(raises'[j].todo, x)
  BY <1>2, <1>6, CallbackSetsNext
<1> QED BY <1>1, <1>3, <1>4, <1>5, <1>6, RaisesChange

\* A step that leaves the subscriptions, which dialog there is and whether the
\* chart is shown as they are.
LEMMA SubscribedFrame ==
    ASSUME TypeOK, UpdatesWait, ReadsNext, Subscribed, Move,
           UNCHANGED subs, dialog'.n = dialog.n,
           dialog'.at # "closed" => dialog.at # "closed",
           chart'.shown = chart.shown,
           chart.shown = "no" =>
             chart'.theme = chart.theme /\ chart'.rendered = chart.rendered
    PROVE  Subscribed'
<1>1. chart.shown = "no" => \A k \in DOMAIN raises' : ~S!Contains(raises'[k].todo, Chart)
  BY NoNewCallback DEF Subscribed
<1> QED BY <1>1 DEF Subscribed

\* MainLayout stays the first subscriber, and components subscribe and leave.
LEMMA SubscribedKept ==
    ASSUME TypeOK, UpdatesWait, ReadsNext, Subscribed, Move
    PROVE  Subscribed'
<1>1. /\ subs \in Seq(Subscription) /\ raises \in Seq(RaiseOf)
      /\ dialog \in DialogOf /\ chart \in ChartOf
  BY TypeParts
<1>2. subs # <<>> /\ Head(subs) = Layout
  BY DEF Subscribed
<1>3. ASSUME NEW s \in Subscription, subs' = Append(subs, s)
      PROVE  /\ subs' # <<>> /\ Head(subs') = Layout
             /\ \A x : S!Contains(subs', x) <=> S!Contains(subs, x) \/ s = x
  <2>1. Append(subs, s) \in Seq(Subscription) /\ Pushed(subs, Append(subs, s), s)
    BY <1>1, AppendPushes
  <2>2. Len(subs) \in Nat \ {0} /\ Head(subs) = subs[1]
    BY <1>1, <1>2
  <2>3. subs' # <<>> /\ Head(subs') = subs'[1] /\ subs'[1] = subs[1]
    BY <1>1, <1>3, <2>1, <2>2 DEF Pushed
  <2>4. \A x : S!Contains(Append(subs, s), x) <=> S!Contains(subs, x) \/ s = x
    BY <1>1, ContainsPushed
  <2> QED BY <1>2, <1>3, <2>2, <2>3, <2>4
<1>4. ASSUME NEW s, s # Layout, subs' = RemoveSubscription(s)
      PROVE  /\ subs' # <<>> /\ Head(subs') = Layout
             /\ \A x : x # s => (S!Contains(subs', x) <=> S!Contains(subs, x))
             /\ \A x : S!Contains(subs', x) => S!Contains(subs, x)
  BY <1>2, <1>4, Removal
<1>5. CASE PageActs
  <2>1. UNCHANGED raises
    BY <1>5 DEF PageActs
  <2>2. CASE Launches
    <3>1. dialog' = [n |-> dialog.n + 1, at |-> "importing", setting |-> "System"]
          /\ subs' = Append(subs, Dialog(dialog.n + 1)) /\ UNCHANGED chart
      BY <2>2 DEF Launches
    <3>2. Dialog(dialog.n + 1) \in Subscription /\ Dialog(dialog.n + 1) # Chart
      BY <1>1, SubscriptionsApart DEF Dialog, Subscription, DialogOf
    <3>3. dialog'.n = dialog.n + 1
      BY <3>1
    <3> QED BY <1>3, <2>1, <3>1, <3>2, <3>3 DEF Subscribed
  <2>3. CASE Disposes
    <3>1. dialog' = [dialog EXCEPT !.at = "closed"]
          /\ subs' = RemoveSubscription(Dialog(dialog.n)) /\ UNCHANGED chart
      BY <2>3 DEF Disposes, DisposeDialog
    <3>2. dialog'.at = "closed"
      BY <1>1, <3>1 DEF DialogOf
    <3>3. Dialog(dialog.n) # Layout /\ Dialog(dialog.n) # Chart
      BY SubscriptionsApart
    <3> QED BY <1>4, <2>1, <3>1, <3>2, <3>3 DEF Subscribed
  <2>4. CASE Shows
    <3>1. chart'.shown = "yes" /\ subs' = Append(subs, Chart) /\ UNCHANGED dialog
      BY <1>1, <2>4 DEF Shows, ChartOf
    <3>2. Chart \in Subscription
      BY DEF Chart, Subscription
    <3> QED BY <1>3, <2>1, <3>1, <3>2 DEF Subscribed
  <2>5. CASE Leaves
    <3>1. /\ chart'.shown # "yes" /\ (chart'.shown = "no" => chart.shown = "no")
          /\ chart'.theme = chart.theme /\ chart'.rendered = chart.rendered
          /\ subs' = RemoveSubscription(Chart) /\ UNCHANGED dialog
      BY <1>1, <2>5 DEF Leaves, LeaveMetrics, ChartOf
    <3>2. Chart # Layout /\ Dialog(dialog.n) # Chart
      BY SubscriptionsApart
    <3> QED BY <1>4, <2>1, <3>1, <3>2 DEF Subscribed
  <2>6. CASE UNCHANGED <<dialog, subs, calls, chart>>
    BY <2>1, <2>6 DEF Subscribed
  <2> QED BY <1>5, <2>2, <2>3, <2>4, <2>5, <2>6 DEF PageActs
<1>6. CASE Picked
  <2>1. UNCHANGED subs
    BY <1>6 DEF Picked
  <2>2. CASE Loses(replies[1].arg)
    <3>1. dialog'.n = dialog.n /\ dialog'.at = dialog.at
      BY <1>1, <2>2 DEF Loses, DialogOf
    <3>2. chart'.shown = chart.shown /\ (chart.shown = "no" => UNCHANGED chart)
      BY <1>1, <2>2 DEF Loses, ChartOf, Subscribed
    <3> QED BY <2>1, <3>1, <3>2, SubscribedFrame
  <2>3. CASE Raises(replies[1].arg)
    <3>1. dialog'.n = dialog.n /\ dialog'.at = dialog.at /\ UNCHANGED chart
      BY <1>1, <2>3 DEF Raises, DialogOf
    <3> QED BY <2>1, <3>1, SubscribedFrame
  <2>4. CASE UNCHANGED <<dialog, theme, raises, calls, chart, lost, rushed, undrawn>>
    BY <2>1, <2>4, SubscribedFrame
  <2> QED BY <1>6, <2>2, <2>3, <2>4 DEF Picked
<1>7. ASSUME NEW k \in DOMAIN raises, CallbackSets(k)
      PROVE  Subscribed'
  <2>1. UNCHANGED subs
        /\ dialog' = [dialog EXCEPT !.setting = SettingAfter(k)]
    BY <1>7 DEF CallbackSets
  <2> DEFINE x == SettingAfter(k)
  <2> HIDE DEF x
  <2>2. dialog'.n = dialog.n /\ dialog'.at = dialog.at
    BY <1>1, <2>1 DEF DialogOf, x
  <2>3. chart'.shown = chart.shown /\ chart'.rendered = chart.rendered
    BY <1>1, <1>7 DEF CallbackSets, ChartOf
  <2>4. chart.shown = "no" => Head(raises[k].todo) # Chart
    <3>1. CallsNext(k)
      BY <1>7, CallbackSetsNext
    <3> QED BY <3>1 DEF CallsNext, Subscribed
  <2>5. chart.shown = "no" => UNCHANGED chart
    BY <1>7, <2>4 DEF CallbackSets
  <2> QED BY <2>1, <2>2, <2>3, <2>5, SubscribedFrame
<1>8. ASSUME NEW k \in DOMAIN raises, CallbackReads(k)
      PROVE  Subscribed'
  BY <1>8, SubscribedFrame DEF CallbackReads
<1>9. CASE Asks \/ Opens
  <2>1. UNCHANGED <<subs, chart>>
    BY <1>9 DEF Asks, Opens
  <2>2. dialog'.n = dialog.n /\ (dialog'.at # "closed" => dialog.at # "closed")
    BY <1>1, <1>9 DEF Asks, Opens, DialogOf
  <2> QED BY <2>1, <2>2, SubscribedFrame
<1>10. CASE Drawn \/ Renders
  <2>1. UNCHANGED <<subs, dialog>>
    BY <1>10 DEF Drawn, Renders
  <2>2. chart'.shown = chart.shown
        /\ (chart.shown = "no" => chart'.theme = chart.theme /\ chart'.rendered = chart.rendered)
    BY <1>1, <1>10 DEF Drawn, Renders, ChartOf
  <2> QED BY <2>1, <2>2, SubscribedFrame
<1>11. ASSUME NEW v \in Setting, OtherWindow(v)
       PROVE  Subscribed'
  BY <1>11, SubscribedFrame DEF OtherWindow, serverVars
<1>12. CASE \/ ScriptStarts \/ CookieAnswered \/ ThemeApplied \/ UserActs \/ LayoutStarts
            \/ Answers \/ UNCHANGED vars
  BY <1>12, SubscribedFrame DEF ScriptStarts, CookieAnswered, ThemeApplied, UserActs,
     LayoutStarts, Answers, vars, serverVars
<1> QED BY <1>5, <1>6, <1>7, <1>8, <1>9, <1>10, <1>11, <1>12 DEF Move

-----------------------------------------------------------------------------
(* The document and the cookie.                                            *)

\* A step that neither picks nor applies a theme.
Calmly ==
    /\ UNCHANGED <<cookie, document, theme, lost, rushed, undrawn>>
    /\ count'.foreign = count.foreign
    /\ \/ UNCHANGED calls
       \/ Popped(calls, calls') /\ calls[1].f # "updateTheme"
       \/ \E m : Pushed(calls, calls', m) /\ m.f # "updateTheme"

\* Only ApplyTheme, another window and a pick are not calm.
LEMMA MoveKinds ==
    ASSUME Move
    PROVE  \/ ThemeApplied
           \/ \E v \in Setting : OtherWindow(v)
           \/ Picked /\ Raises(replies[1].arg)
           \/ Picked /\ Loses(replies[1].arg)
           \/ Calmly
<1>1. CASE ScriptStarts \/ CookieAnswered \/ Drawn
  BY <1>1 DEF ScriptStarts, CookieAnswered, Drawn, Calmly
<1>2. CASE UserActs \/ Opens \/ Answers
  BY <1>2 DEF UserActs, Opens, Answers, Calmly
<1>3. CASE UNCHANGED vars
  BY <1>3 DEF vars, serverVars, historyVars, Calmly
<1>4. CASE LayoutStarts
  BY <1>4 DEF LayoutStarts, Calmly
<1>5. CASE PageActs
  BY <1>5 DEF PageActs, Launches, Disposes, Shows, Leaves, Calmly
<1>6. CASE Asks
  <2>1. Message("getThemeCookieValue", None, dialog.n).f = "getThemeCookieValue"
    BY DEF Message
  <2> QED BY <1>6, <2>1 DEF Asks, Calmly
<1>7. CASE Picked
  BY <1>7 DEF Picked, Calmly
<1>8. CASE Renders
  BY <1>8 DEF Renders, Calmly
<1>9. ASSUME NEW k \in DOMAIN raises, CallbackReads(k) \/ CallbackSets(k)
      PROVE  Calmly
  BY <1>9 DEF CallbackReads, CallbackSets, historyVars, Calmly
<1> QED BY <1>1, <1>2, <1>3, <1>4, <1>5, <1>6, <1>7, <1>8, <1>9 DEF Move

\* The calls of updateTheme after a call is popped, and after one is pushed.
LEMMA UpdatesPopped ==
    ASSUME NEW q, NEW r, Popped(q, r)
    PROVE  /\ \A i \in DOMAIN r : /\ i + 1 \in DOMAIN q /\ r[i] = q[i + 1]
                                  /\ LastUpdate(r, i) => LastUpdate(q, i + 1)
           /\ 1 \in DOMAIN q
           /\ NoUpdate(r) => \A i \in DOMAIN q : i # 1 => ~IsUpdate(q, i)
           /\ NoUpdate(q) => NoUpdate(r)
<1>1. /\ Len(q) \in Nat \ {0} /\ DOMAIN q = 1 .. Len(q) /\ DOMAIN r = 1 .. Len(q) - 1
      /\ \A i \in 1 .. Len(q) - 1 : r[i] = q[i + 1]
  BY DEF Popped
<1>2. 1 \in DOMAIN q /\ \A i \in DOMAIN r : i + 1 \in DOMAIN q /\ r[i] = q[i + 1]
  BY <1>1
<1>3. ASSUME NEW j \in DOMAIN q, j # 1
      PROVE  j - 1 \in DOMAIN r /\ r[j - 1] = q[j]
  BY <1>1, <1>3
<1>4. ASSUME NEW i \in DOMAIN r, LastUpdate(r, i)
      PROVE  LastUpdate(q, i + 1)
  <2>1. \A j \in DOMAIN q : i + 1 < j => j \in Int /\ i \in Int /\ j # 1 /\ i < j - 1
    BY <1>1
  <2> QED BY <1>2, <1>3, <1>4, <2>1 DEF LastUpdate, IsUpdate
<1>5. NoUpdate(r) => \A i \in DOMAIN q : i # 1 => ~IsUpdate(q, i)
  BY <1>3 DEF NoUpdate, IsUpdate
<1>6. NoUpdate(q) => NoUpdate(r)
  BY <1>2 DEF NoUpdate, IsUpdate
<1> QED BY <1>2, <1>4, <1>5, <1>6

\* The same for a call that is pushed.
LEMMA UpdatesPushed ==
    ASSUME NEW q, NEW r, NEW m, Pushed(q, r, m)
    PROVE  /\ \A i \in DOMAIN q : i \in DOMAIN r /\ r[i] = q[i]
           /\ Len(q) + 1 \in DOMAIN r /\ r[Len(q) + 1] = m
           /\ \A i \in DOMAIN r : i \in DOMAIN q \/ i = Len(q) + 1
           /\ m.f # "updateTheme" =>
                /\ NoUpdate(r) <=> NoUpdate(q)
                /\ \A i \in DOMAIN r : LastUpdate(r, i) => i \in DOMAIN q /\ LastUpdate(q, i)
           /\ m.f = "updateTheme" =>
                ~NoUpdate(r) /\ \A i \in DOMAIN r : LastUpdate(r, i) => i = Len(q) + 1
<1>1. /\ Len(q) \in Nat /\ DOMAIN q = 1 .. Len(q) /\ DOMAIN r = 1 .. Len(q) + 1
      /\ r[Len(q) + 1] = m
      /\ \A i \in 1 .. Len(q) : r[i] = q[i]
  BY DEF Pushed
<1>2. /\ \A i \in DOMAIN q : i \in DOMAIN r /\ r[i] = q[i]
      /\ Len(q) + 1 \in DOMAIN r /\ r[Len(q) + 1] = m
      /\ \A i \in DOMAIN r : i \in DOMAIN q \/ i = Len(q) + 1
      /\ \A i \in DOMAIN q : i < Len(q) + 1
  BY <1>1
<1>3. ASSUME m.f # "updateTheme"
      PROVE  /\ NoUpdate(r) <=> NoUpdate(q)
             /\ \A i \in DOMAIN r : LastUpdate(r, i) => i \in DOMAIN q /\ LastUpdate(q, i)
  BY <1>2, <1>3 DEF NoUpdate, LastUpdate, IsUpdate
<1>4. ASSUME m.f = "updateTheme"
      PROVE  ~NoUpdate(r) /\ \A i \in DOMAIN r : LastUpdate(r, i) => i = Len(q) + 1
  BY <1>2, <1>4 DEF NoUpdate, LastUpdate, IsUpdate
<1> QED BY <1>2, <1>3, <1>4

\* The document goes on following the last call of updateTheme.
LEMMA FollowsKept ==
    ASSUME TypeOK, Follows, Move
    PROVE  Follows'
<1>1. CASE ThemeApplied
  <2>1. Popped(calls, calls') /\ calls[1].f = "updateTheme" /\ calls[1].arg \in Setting
        /\ document' = getEffectiveTheme(calls[1].arg) /\ cookie' = calls[1].arg
        /\ UNCHANGED <<theme, count, lost>>
    BY <1>1 DEF ThemeApplied
  <2>2. /\ \A i \in DOMAIN calls' : /\ i + 1 \in DOMAIN calls /\ calls'[i] = calls[i + 1]
                                    /\ LastUpdate(calls', i) => LastUpdate(calls, i + 1)
        /\ 1 \in DOMAIN calls
        /\ NoUpdate(calls') => \A i \in DOMAIN calls : i # 1 => ~IsUpdate(calls, i)
    BY <2>1, UpdatesPopped
  <2>3. IsUpdate(calls, 1) /\ ~NoUpdate(calls) /\ theme # None
    BY <2>1, <2>2 DEF IsUpdate, NoUpdate, Follows
  <2>4. ASSUME ~lost, NoUpdate(calls')
        PROVE  calls[1].arg = theme
    <3>1. \A j \in DOMAIN calls : 1 < j => j # 1
      OBVIOUS
    <3>2. LastUpdate(calls, 1)
      BY <2>2, <2>3, <2>4, <3>1 DEF LastUpdate
    <3> QED BY <2>2, <2>4, <3>2 DEF Follows
  <2>5. ~lost => \A i \in DOMAIN calls' : LastUpdate(calls', i) => calls'[i].arg = theme
    BY <2>2 DEF Follows
  <2> QED BY <2>1, <2>3, <2>4, <2>5 DEF Follows
<1>2. ASSUME NEW v \in Setting, OtherWindow(v)
      PROVE  Follows'
  <2>1. UNCHANGED <<document, calls, theme, lost>>
    BY <1>2 DEF OtherWindow, serverVars, historyVars
  <2>2. count'.foreign # 0
    <3>1. count \in CountOf
      BY TypeParts
    <3>2. count' = [count EXCEPT !.foreign = count.foreign + 1]
      BY <1>2 DEF OtherWindow
    <3> QED BY <3>1, <3>2 DEF CountOf
  <2> QED BY <2>1, <2>2 DEF Follows
<1>3. CASE Picked /\ Raises(replies[1].arg)
  <2> DEFINE v == replies[1].arg
             m == Message("updateTheme", v, Len(raises) + 1)
  <2>1. theme' = v /\ v \in Setting /\ UNCHANGED <<cookie, document, count, lost>>
        /\ Pushed(calls, calls', m)
    BY <1>3 DEF Picked, Raises
  <2>2. m.f = "updateTheme" /\ m.arg = v
    BY DEF Message
  <2> HIDE DEF v, m
  <2>3. /\ calls'[Len(calls) + 1] = m /\ ~NoUpdate(calls')
        /\ \A i \in DOMAIN calls' : LastUpdate(calls', i) => i = Len(calls) + 1
    BY <2>1, <2>2, UpdatesPushed
  <2>4. theme' # None
    BY <2>1, NoneApart
  <2> QED BY <2>1, <2>2, <2>3, <2>4 DEF Follows
<1>4. CASE Picked /\ Loses(replies[1].arg)
  <2>1. theme' \in Setting /\ UNCHANGED <<cookie, document, count>> /\ lost'
    BY <1>4 DEF Picked, Loses
  <2>2. theme' # None
    BY <2>1, NoneApart
  <2> QED BY <2>1, <2>2 DEF Follows
<1>5. CASE Calmly
  <2>1. UNCHANGED <<cookie, document, theme, lost>> /\ count'.foreign = count.foreign
    BY <1>5 DEF Calmly
  <2>2. /\ NoUpdate(calls') <=> NoUpdate(calls)
        /\ \A i \in DOMAIN calls' : LastUpdate(calls', i) =>
             \E j \in DOMAIN calls : LastUpdate(calls, j) /\ calls'[i] = calls[j]
    <3>1. CASE UNCHANGED calls
      BY <3>1
    <3>2. CASE Popped(calls, calls') /\ calls[1].f # "updateTheme"
      <4>1. /\ \A i \in DOMAIN calls' : /\ i + 1 \in DOMAIN calls /\ calls'[i] = calls[i + 1]
                                        /\ LastUpdate(calls', i) => LastUpdate(calls, i + 1)
            /\ NoUpdate(calls') => \A i \in DOMAIN calls : i # 1 => ~IsUpdate(calls, i)
            /\ NoUpdate(calls) => NoUpdate(calls')
        BY <3>2, UpdatesPopped
      <4>2. NoUpdate(calls') => NoUpdate(calls)
        BY <3>2, <4>1 DEF NoUpdate, IsUpdate
      <4> QED BY <4>1, <4>2
    <3>3. ASSUME NEW m, Pushed(calls, calls', m), m.f # "updateTheme"
          PROVE  <2>2!:
      BY <3>3, UpdatesPushed
    <3> QED BY <1>5, <3>1, <3>2, <3>3 DEF Calmly
  <2> QED BY <2>1, <2>2 DEF Follows
<1> QED BY <1>1, <1>2, <1>3, <1>4, <1>5, MoveKinds

-----------------------------------------------------------------------------
(* Picks that do not overlap.                                              *)

\* A pick that does not overlap comes when no callback is left to run.
LEMMA NothingLeft ==
    ASSUME ReadsNext, ~InProgress
    PROVE  \A k \in DOMAIN raises : raises[k].todo = <<>> /\ raises[k].read = None
BY DEF InProgress, ReadsNext

\* Then no subscription is left to be called by the last pick.
LEMMA NothingPending ==
    ASSUME TypeOK, ~InProgress, NEW s
    PROVE  ~PendingIn(raises, s)
<1> SUFFICES ASSUME PendingIn(raises, s) PROVE FALSE
  OBVIOUS
<1>1. raises \in Seq(RaiseOf) /\ raises # <<>>
  BY TypeParts DEF PendingIn
<1>2. Len(raises) \in DOMAIN raises
  BY <1>1
<1>3. raises[Len(raises)].todo = <<>>
  BY <1>2 DEF InProgress
<1> QED BY <1>3 DEF PendingIn, S!Contains

\* Without overlaps only the last pick goes on.
LEMMA LastOnlyKept ==
    ASSUME TypeOK, UpdatesWait, ReadsNext, LastOnly, Move
    PROVE  LastOnly'
<1>1. raises \in Seq(RaiseOf) /\ Len(raises) \in Nat /\ DOMAIN raises = 1 .. Len(raises)
  <2>1. raises \in Seq(RaiseOf)
    BY TypeParts
  <2> QED BY <2>1
<1>2. ASSUME NEW k, CallsNext(k), UNCHANGED <<theme, rushed>>
      PROVE  LastOnly'
  BY <1>2 DEF LastOnly, CallsNext, OnlyPick
<1>3. CASE Answers
  <2>1. UNCHANGED <<theme, rushed>>
    BY <1>3 DEF Answers
  <2> QED BY <1>2, <1>3, <2>1, AnswersNext
<1>4. CASE Picked /\ Raises(replies[1].arg)
  <2>1. Pushed(raises, raises', [todo |-> subs, read |-> None])
        /\ raises'[Len(raises) + 1].read = None /\ Len(raises') = Len(raises) + 1
    BY <1>4, RaisesPushed
  <2>2. rushed' = (rushed \/ InProgress)
    BY <1>4 DEF Raises
  <2>3. ASSUME ~rushed'
        PROVE  \A k \in DOMAIN raises : raises[k].todo = <<>> /\ raises[k].read = None
    BY <2>2, <2>3, NothingLeft
  <2>4. \A k \in DOMAIN raises' :
          \/ k \in DOMAIN raises /\ raises'[k] = raises[k]
          \/ k = Len(raises') /\ raises'[k].read = None
    BY <2>1 DEF Pushed
  <2> QED BY <2>3, <2>4 DEF LastOnly
<1>5. CASE Picked /\ Loses(replies[1].arg)
  <2>1. rushed' = (rushed \/ InProgress) /\ UNCHANGED raises
    BY <1>5 DEF Loses
  <2>2. ASSUME ~rushed'
        PROVE  \A k \in DOMAIN raises : raises[k].todo = <<>> /\ raises[k].read = None
    BY <2>1, <2>2, NothingLeft
  <2> QED BY <2>1, <2>2 DEF LastOnly
<1>6. ASSUME NEW k \in DOMAIN raises, CallbackReads(k)
      PROVE  LastOnly'
  <2>1. ReadsTheme(k)
    BY <1>6, CallbackReadsTheme
  <2>2. UNCHANGED <<theme, rushed>>
    BY <1>6 DEF CallbackReads, historyVars
  <2> QED BY <2>1, <2>2 DEF LastOnly, ReadsTheme, OnlyPick
<1>7. ASSUME NEW k \in DOMAIN raises, CallbackSets(k)
      PROVE  LastOnly'
  <2>1. CallsNext(k)
    BY <1>7, CallbackSetsNext
  <2>2. UNCHANGED <<theme, rushed>>
    BY <1>7 DEF CallbackSets, historyVars
  <2> QED BY <1>2, <2>1, <2>2
<1>8. CASE UNCHANGED raises /\ ~(Picked /\ Raises(replies[1].arg))
             /\ ~(Picked /\ Loses(replies[1].arg))
  <2>1. ASSUME NEW v \in Setting, OtherWindow(v)
        PROVE  UNCHANGED <<theme, rushed>>
    BY <2>1 DEF OtherWindow, serverVars, historyVars
  <2>2. UNCHANGED <<theme, rushed>>
    BY <1>8, <2>1, MoveKinds DEF ThemeApplied, Calmly
  <2> QED BY <1>8, <2>2 DEF LastOnly
<1> QED BY <1>3, <1>4, <1>5, <1>6, <1>7, <1>8, RaisesChange

\* Then there is at most one call of updateTheme or reply to one, that of the
\* last pick.
LEMMA OneUpdate ==
    ASSUME TypeOK, UpdatesWait, OneEach, LastOnly, ~rushed
    PROVE  /\ \A i \in DOMAIN calls : IsUpdate(calls, i) =>
                /\ Unapplied
                /\ \A j \in DOMAIN calls : IsUpdate(calls, j) => i = j
                /\ \A j \in DOMAIN replies : ~IsApplied(replies, j)
           /\ \A i \in DOMAIN replies : IsApplied(replies, i) =>
                /\ Unapplied
                /\ \A j \in DOMAIN replies : IsApplied(replies, j) => i = j
<1>1. ASSUME NEW k, WaitingIn(raises, k)
      PROVE  k = Len(raises) /\ Unapplied
  <2>1. k = Len(raises)
    BY <1>1 DEF LastOnly, WaitingIn
  <2>2. raises # <<>>
    BY <1>1, QueueTypes DEF WaitingIn
  <2> QED BY <1>1, <2>1, <2>2 DEF WaitingIn, Unapplied, UnappliedIn
<1>2. \A i \in DOMAIN calls : IsUpdate(calls, i) => calls[i].n = Len(raises) /\ Unapplied
  BY <1>1 DEF UpdatesWait, Waiting
<1>3. \A i \in DOMAIN replies : IsApplied(replies, i) => replies[i].n = Len(raises) /\ Unapplied
  BY <1>1 DEF UpdatesWait, Waiting
<1> QED BY <1>2, <1>3 DEF OneEach

\* And there is none once the callback of MainLayout has returned.
LEMMA NoneInProgress ==
    ASSUME UpdatesWait, ~InProgress
    PROVE  /\ NoUpdate(calls)
           /\ \A i \in DOMAIN replies : ~IsApplied(replies, i)
BY DEF UpdatesWait, Waiting, WaitingIn, InProgress, NoUpdate

-----------------------------------------------------------------------------
(* The dialog.                                                             *)

\* What the last pick has to call stays, but for the one that is called.
LEMMA PendingKept ==
    ASSUME TypeOK, UpdatesWait, ReadsNext, Move, ~(Picked /\ Raises(replies[1].arg)),
           NEW s, s # Layout, PendingIn(raises, s),
           \A k \in DOMAIN raises : CallbackSets(k) => Head(raises[k].todo) # s
    PROVE  PendingIn(raises', s)
<1>1. raises \in Seq(RaiseOf) /\ raises # <<>>
  BY TypeParts DEF PendingIn
<1>2. Len(raises) \in DOMAIN raises
  BY <1>1
<1>3. ASSUME NEW k, OnlyPick(k), S!Contains(raises[k].todo, s) => S!Contains(raises'[k].todo, s)
      PROVE  PendingIn(raises', s)
  <2>1. raises' # <<>>
    BY <1>1, <1>3 DEF OnlyPick
  <2> QED BY <1>2, <1>3, <2>1 DEF PendingIn, OnlyPick
<1>4. CASE UNCHANGED raises
  BY <1>4
<1>5. CASE Answers
  <2>1. Waiting(replies[1].n) /\ CallsNext(replies[1].n)
    BY <1>5, AnswersNext
  <2> QED BY <1>3, <2>1 DEF Waiting, WaitingIn, CallsNext
<1>6. ASSUME NEW k \in DOMAIN raises, CallbackReads(k)
      PROVE  PendingIn(raises', s)
  <2>1. ReadsTheme(k)
    BY <1>6, CallbackReadsTheme
  <2> QED BY <1>3, <2>1 DEF ReadsTheme
<1>7. ASSUME NEW k \in DOMAIN raises, CallbackSets(k)
      PROVE  PendingIn(raises', s)
  <2>1. CallsNext(k)
    BY <1>7, CallbackSetsNext
  <2> QED BY <1>3, <1>7, <2>1 DEF CallsNext
<1> QED BY <1>4, <1>5, <1>6, <1>7, RaisesChange

\* A new pick has to call every subscription.
LEMMA PickPends ==
    ASSUME TypeOK, Subscribed, NEW v, Raises(v)
    PROVE  /\ UnappliedIn(raises')
           /\ \A s : S!Contains(subs, s) => PendingIn(raises', s)
<1>1. raises' \in Seq(RaiseOf) /\ Len(raises') = Len(raises) + 1
      /\ raises'[Len(raises) + 1].todo = subs
  BY RaisesPushed
<1>2. raises' # <<>> /\ raises'[Len(raises')].todo = subs
  <2>1. Len(raises) \in Nat
    BY QueueTypes
  <2> QED BY <1>1, <2>1
<1>3. subs # <<>> /\ Head(subs) = Layout
  BY DEF Subscribed
<1> QED BY <1>2, <1>3 DEF UnappliedIn, PendingIn

\* Whom the dialog is.
LEMMA DialogChange ==
    ASSUME TypeOK, Move
    PROVE  \/ /\ dialog'.n = dialog.n + 1 /\ dialog'.at = "importing"
           \/ /\ dialog'.n = dialog.n /\ dialog'.at = "closed"
           \/ /\ dialog'.n = dialog.n /\ dialog'.at = "reading" /\ dialog.at = "importing"
              /\ Asks
           \/ /\ dialog'.n = dialog.n /\ dialog'.at = "open" /\ dialog.at = "reading" /\ Opens
              /\ dialog.n = replies[1].n /\ dialog'.setting = replies[1].arg
           \/ /\ dialog'.n = dialog.n /\ dialog'.at = dialog.at
              /\ \/ UNCHANGED dialog
                 \/ Picked /\ dialog'.setting = replies[1].arg /\ theme' = replies[1].arg
                 \/ \E k \in DOMAIN raises : CallbackSets(k) /\ dialog'.setting = SettingAfter(k)
<1>1. dialog \in DialogOf
  BY TypeParts
<1>2. CASE PageActs
  BY <1>1, <1>2 DEF PageActs, Launches, Disposes, Shows, Leaves, DisposeDialog, DialogOf
<1>3. CASE Asks
  BY <1>1, <1>3 DEF Asks, DialogOf
<1>4. CASE Opens
  BY <1>1, <1>4 DEF Opens, DialogOf
<1>5. CASE Picked
  <2>1. CASE UNCHANGED dialog
    BY <2>1
  <2>2. CASE Raises(replies[1].arg) \/ Loses(replies[1].arg)
    <3>1. dialog' = [dialog EXCEPT !.setting = replies[1].arg] /\ theme' = replies[1].arg
          /\ replies[1].arg \in Setting
      BY <2>2 DEF Raises, Loses
    <3>2. dialog'.n = dialog.n /\ dialog'.at = dialog.at /\ dialog'.setting = replies[1].arg
      BY <1>1, <3>1 DEF DialogOf
    <3> QED BY <1>5, <3>1, <3>2
  <2> QED BY <1>5, <2>1, <2>2 DEF Picked
<1>6. ASSUME NEW k \in DOMAIN raises, CallbackReads(k)
      PROVE  UNCHANGED dialog
  BY <1>6 DEF CallbackReads
<1>7. ASSUME NEW k \in DOMAIN raises, CallbackSets(k)
      PROVE  dialog'.n = dialog.n /\ dialog'.at = dialog.at /\ dialog'.setting = SettingAfter(k)
  <2> DEFINE x == SettingAfter(k)
  <2>1. dialog' = [dialog EXCEPT !.setting = x]
    BY <1>7 DEF CallbackSets
  <2> HIDE DEF x
  <2> QED BY <1>1, <2>1 DEF DialogOf, x
<1>8. ASSUME NEW v \in Setting, OtherWindow(v)
      PROVE  UNCHANGED dialog
  BY <1>8 DEF OtherWindow, serverVars
<1>9. CASE \/ ScriptStarts \/ CookieAnswered \/ ThemeApplied \/ Drawn \/ UserActs
           \/ LayoutStarts \/ Answers \/ Renders \/ UNCHANGED vars
  BY <1>9 DEF ScriptStarts, CookieAnswered, ThemeApplied, Drawn, UserActs,
        LayoutStarts, Answers, Renders, vars, serverVars
<1> QED BY <1>2, <1>3, <1>4, <1>5, <1>6, <1>7, <1>8, <1>9 DEF Move

\* The calls for the cookie and the replies to them.
LEMMA AsksChange ==
    ASSUME Move
    PROVE  /\ \/ UNCHANGED calls
              \/ Popped(calls, calls')
              \/ \E m : Pushed(calls, calls', m) /\ m.f # "getThemeCookieValue"
              \/ /\ Asks /\ dialog.at = "importing" /\ dialog' = [dialog EXCEPT !.at = "reading"]
                 /\ Pushed(calls, calls', Message("getThemeCookieValue", None, dialog.n))
           /\ \/ UNCHANGED replies
              \/ Popped(replies, replies')
              \/ \E m : Pushed(replies, replies', m) /\ m.f # "cookie"
              \/ CookieAnswered
<1>1. CASE ScriptStarts \/ CookieAnswered \/ Drawn
  BY <1>1 DEF ScriptStarts, CookieAnswered, Drawn
<1>2. CASE ThemeApplied
  <2>1. \A n : Message("applied", None, n).f = "applied"
    BY DEF Message
  <2> QED BY <1>2, <2>1 DEF ThemeApplied
<1>3. CASE UserActs \/ Opens \/ Answers \/ LayoutStarts
  BY <1>3 DEF UserActs, Opens, Answers, LayoutStarts
<1>4. CASE PageActs
  BY <1>4 DEF PageActs, Launches, Disposes, Shows, Leaves
<1>5. CASE Asks
  BY <1>5 DEF Asks
<1>6. CASE Picked
  <2>1. \A a, n : Message("updateTheme", a, n).f = "updateTheme"
    BY DEF Message
  <2> QED BY <1>6, <2>1 DEF Picked, Raises, Loses
<1>7. CASE Renders \/ UNCHANGED vars
  BY <1>7 DEF Renders, vars
<1>8. ASSUME NEW v \in Setting, OtherWindow(v)
      PROVE  UNCHANGED <<calls, replies>>
  BY <1>8 DEF OtherWindow
<1>9. ASSUME NEW k \in DOMAIN raises, CallbackReads(k) \/ CallbackSets(k)
      PROVE  UNCHANGED <<calls, replies>>
  BY <1>9 DEF CallbackReads, CallbackSets
<1> QED BY <1>1, <1>2, <1>3, <1>4, <1>5, <1>6, <1>7, <1>8, <1>9 DEF Move

\* No call or reply about the cookie belongs to a dialog that has not asked.
LEMMA AsksOnceKept ==
    ASSUME TypeOK, AsksOnce, Move
    PROVE  AsksOnce'
<1> DEFINE By(n) == n <= dialog'.n /\ (dialog'.at = "importing" => n # dialog'.n)
<1>1. dialog.n \in Nat
  BY TypeParts DEF DialogOf
<1>2. calls \in Seq(CallOf) /\ replies \in Seq(ReplyOf \cup KeyOf)
  BY QueueTypes
<1>3. \A i \in DOMAIN calls : calls[i].n \in Nat
  <2>1. \A i \in DOMAIN calls : calls[i] \in CallOf
    BY <1>2
  <2> QED BY <2>1 DEF CallOf
<1>4. \A i \in DOMAIN replies : replies[i].n \in Nat
  <2> DEFINE T == ReplyOf \cup KeyOf
  <2>1. \A m \in T : m.n \in Nat
    BY DEF ReplyOf, KeyOf
  <2>2. replies \in Seq(T)
    BY <1>2
  <2> HIDE DEF T
  <2>3. \A i \in DOMAIN replies : replies[i] \in T
    BY <2>2
  <2> QED BY <2>1, <2>3
<1>5. ASSUME NEW n \in Nat, AskedBy(n)
      PROVE  By(n)
  BY <1>1, <1>5, DialogChange DEF AskedBy
<1>6. \A i \in DOMAIN calls : IsAsk(calls, i) => By(calls[i].n)
  BY <1>3, <1>5 DEF AsksOnce
<1>7. \A i \in DOMAIN replies : IsCookie(replies, i) => By(replies[i].n)
  BY <1>4, <1>5 DEF AsksOnce
<1>8. \A i \in DOMAIN calls' : IsAsk(calls', i) => By(calls'[i].n)
  <2>1. CASE UNCHANGED calls
    BY <1>6, <2>1
  <2>2. CASE Popped(calls, calls')
    BY <1>6, <2>2, UpdatesPopped DEF IsAsk
  <2>3. ASSUME NEW m, Pushed(calls, calls', m), m.f # "getThemeCookieValue"
        PROVE  \A i \in DOMAIN calls' : IsAsk(calls', i) => By(calls'[i].n)
    BY <1>6, <2>3, UpdatesPushed DEF IsAsk
  <2>4. CASE /\ Asks /\ dialog.at = "importing" /\ dialog' = [dialog EXCEPT !.at = "reading"]
             /\ Pushed(calls, calls', Message("getThemeCookieValue", None, dialog.n))
    <3> DEFINE m == Message("getThemeCookieValue", None, dialog.n)
    <3>1. dialog'.n = dialog.n /\ dialog'.at = "reading"
      <4>1. dialog \in DialogOf
        BY TypeParts
      <4> QED BY <2>4, <4>1 DEF DialogOf
    <3>2. By(m.n)
      BY <1>1, <3>1 DEF Message
    <3>3. Pushed(calls, calls', m)
      BY <2>4
    <3> HIDE DEF m, By
    <3> QED BY <1>6, <3>2, <3>3, UpdatesPushed DEF IsAsk
  <2> QED BY <2>1, <2>2, <2>3, <2>4, AsksChange
<1>9. \A i \in DOMAIN replies' : IsCookie(replies', i) => By(replies'[i].n)
  <2>1. CASE UNCHANGED replies
    BY <1>7, <2>1
  <2>2. CASE Popped(replies, replies')
    BY <1>7, <2>2, UpdatesPopped DEF IsCookie
  <2>3. ASSUME NEW m, Pushed(replies, replies', m), m.f # "cookie"
        PROVE  \A i \in DOMAIN replies' : IsCookie(replies', i) => By(replies'[i].n)
    BY <1>7, <2>3, UpdatesPushed DEF IsCookie
  <2>4. CASE CookieAnswered
    <3> DEFINE m == Message("cookie", cookie, calls[1].n)
    <3>1. Pushed(replies, replies', m) /\ m.n = calls[1].n
      BY <2>4 DEF CookieAnswered, Message
    <3>2. 1 \in DOMAIN calls /\ IsAsk(calls, 1)
      BY <2>4 DEF CookieAnswered, Popped, IsAsk
    <3> HIDE DEF m, By
    <3>3. By(m.n)
      BY <1>6, <3>1, <3>2
    <3> QED BY <1>7, <3>1, <3>3, UpdatesPushed DEF IsCookie
  <2> QED BY <2>1, <2>2, <2>3, <2>4, AsksChange
<1> QED BY <1>8, <1>9 DEF AsksOnce, AskedBy

\* The order of a queue after a message is popped or pushed.
LEMMA OrderPopped ==
    ASSUME NEW q, NEW r, Popped(q, r)
    PROVE  /\ NoApplied(q) => NoApplied(r)
           /\ \A i \in DOMAIN r : /\ NoUpdateAfter(q, i + 1) => NoUpdateAfter(r, i)
                                  /\ NoAppliedBefore(q, i + 1) => NoAppliedBefore(r, i)
                                  /\ NoAppliedBefore(q, i + 1) => ~IsApplied(q, 1)
<1>1. /\ Len(q) \in Nat \ {0} /\ DOMAIN q = 1 .. Len(q) /\ DOMAIN r = 1 .. Len(q) - 1
      /\ \A i \in 1 .. Len(q) - 1 : r[i] = q[i + 1]
  BY DEF Popped
<1>2. 1 \in DOMAIN q /\ \A i \in DOMAIN r : i \in Nat \ {0} /\ i + 1 \in DOMAIN q /\ r[i] = q[i + 1]
  BY <1>1
<1>3. NoApplied(q) => NoApplied(r)
  BY <1>2 DEF NoApplied, IsApplied
<1>4. ASSUME NEW i \in DOMAIN r
      PROVE  /\ NoUpdateAfter(q, i + 1) => NoUpdateAfter(r, i)
             /\ NoAppliedBefore(q, i + 1) => NoAppliedBefore(r, i)
             /\ NoAppliedBefore(q, i + 1) => ~IsApplied(q, 1)
  <2>1. \A j \in DOMAIN r : (i < j => i + 1 < j + 1) /\ (j < i => j + 1 < i + 1)
    BY <1>2
  <2>2. 1 < i + 1
    BY <1>2
  <2> QED BY <1>2, <2>1, <2>2 DEF NoUpdateAfter, NoAppliedBefore, IsUpdate, IsApplied
<1> QED BY <1>3, <1>4

\* The same for a message that is pushed.
LEMMA OrderPushed ==
    ASSUME NEW q, NEW r, NEW m, Pushed(q, r, m)
    PROVE  /\ m.f # "applied" /\ NoApplied(q) => NoApplied(r)
           /\ \A i \in DOMAIN q :
                /\ m.f # "updateTheme" /\ NoUpdateAfter(q, i) => NoUpdateAfter(r, i)
                /\ NoAppliedBefore(q, i) => NoAppliedBefore(r, i)
           /\ NoUpdateAfter(r, Len(q) + 1)
           /\ NoApplied(q) => NoAppliedBefore(r, Len(q) + 1)
<1>1. /\ Len(q) \in Nat /\ DOMAIN q = 1 .. Len(q) /\ DOMAIN r = 1 .. Len(q) + 1
      /\ r[Len(q) + 1] = m
      /\ \A i \in 1 .. Len(q) : r[i] = q[i]
  BY DEF Pushed
<1>2. /\ \A i \in DOMAIN q : i \in DOMAIN r /\ r[i] = q[i]
      /\ Len(q) + 1 \in DOMAIN r /\ r[Len(q) + 1] = m
      /\ \A i \in DOMAIN r : i \in DOMAIN q \/ i = Len(q) + 1
      /\ \A i \in DOMAIN q : ~(Len(q) + 1 < i) /\ i < Len(q) + 1
      /\ ~(Len(q) + 1 < Len(q) + 1)
  BY <1>1
<1>3. m.f # "applied" /\ NoApplied(q) => NoApplied(r)
  BY <1>2 DEF NoApplied, IsApplied
<1>4. ASSUME NEW i \in DOMAIN q
      PROVE  /\ m.f # "updateTheme" /\ NoUpdateAfter(q, i) => NoUpdateAfter(r, i)
             /\ NoAppliedBefore(q, i) => NoAppliedBefore(r, i)
  BY <1>2 DEF NoUpdateAfter, NoAppliedBefore, IsUpdate, IsApplied
<1>5. NoUpdateAfter(r, Len(q) + 1)
  BY <1>2 DEF NoUpdateAfter
<1>6. NoApplied(q) => NoAppliedBefore(r, Len(q) + 1)
  BY <1>2 DEF NoApplied, NoAppliedBefore, IsApplied
<1> QED BY <1>3, <1>4, <1>5, <1>6

\* A step that is about neither a theme nor the cookie.
LEMMA OtherMoves ==
    ASSUME Move, ~CookieAnswered, ~ThemeApplied, ~(Picked /\ Raises(replies[1].arg)),
           ~(Asks /\ dialog.at = "importing" /\ dialog' = [dialog EXCEPT !.at = "reading"])
    PROVE  /\ \/ UNCHANGED calls
              \/ Popped(calls, calls')
              \/ \E m : Pushed(calls, calls', m)
                        /\ m.f # "updateTheme" /\ m.f # "getThemeCookieValue"
           /\ \/ UNCHANGED replies
              \/ Popped(replies, replies')
              \/ \E m : Pushed(replies, replies', m) /\ m.f # "applied" /\ m.f # "cookie"
<1>1. CASE ScriptStarts \/ Drawn
  BY <1>1 DEF ScriptStarts, Drawn
<1>2. CASE UserActs \/ Opens \/ Answers \/ LayoutStarts
  BY <1>2 DEF UserActs, Opens, Answers, LayoutStarts
<1>3. CASE PageActs
  BY <1>3 DEF PageActs, Launches, Disposes, Shows, Leaves
<1>4. CASE Asks
  BY <1>4 DEF Asks
<1>5. CASE Picked
  BY <1>5 DEF Picked, Loses
<1>6. CASE Renders \/ UNCHANGED vars
  BY <1>6 DEF Renders, vars
<1>7. ASSUME NEW v \in Setting, OtherWindow(v)
      PROVE  UNCHANGED <<calls, replies>>
  BY <1>7 DEF OtherWindow
<1>8. ASSUME NEW k \in DOMAIN raises, CallbackReads(k) \/ CallbackSets(k)
      PROVE  UNCHANGED <<calls, replies>>
  BY <1>8 DEF CallbackReads, CallbackSets
<1> QED BY <1>1, <1>2, <1>3, <1>4, <1>5, <1>6, <1>7, <1>8 DEF Move

\* The last pick still has to call MainLayout after a callback has read.
LEMMA UnappliedKept ==
    ASSUME TypeOK, UnappliedIn(raises), NEW k \in DOMAIN raises, CallbackReads(k)
    PROVE  UnappliedIn(raises')
<1>1. ReadsTheme(k)
  BY CallbackReadsTheme
<1>2. raises # <<>> /\ raises \in Seq(RaiseOf)
  BY TypeParts DEF UnappliedIn
<1>3. raises' # <<>> /\ Len(raises) \in DOMAIN raises
  BY <1>1, <1>2 DEF ReadsTheme, OnlyPick
<1> QED BY <1>1, <1>3 DEF UnappliedIn, ReadsTheme, OnlyPick

\* A dialog that reads the cookie gets the theme, or is called afterwards.
LEMMA AskedInTimeKept ==
    ASSUME TypeOK, UpdatesWait, OneEach, ReadsNext, Subscribed, Follows, LastOnly,
           AsksOnce, AskedInTime, Move
    PROVE  AskedInTime'
<1> DEFINE n == dialog.n
           Left == PendingIn(raises, Dialog(n)) /\ UnappliedIn(raises)
           LeftNext == PendingIn(raises', Dialog(n)) /\ UnappliedIn(raises')
           Asking == \A i \in DOMAIN calls' : IsAsk(calls', i) /\ calls'[i].n = n =>
                       NoUpdateAfter(calls', i) \/ (LeftNext /\ NoApplied(replies'))
           Answering == \A i \in DOMAIN replies' : IsCookie(replies', i) /\ replies'[i].n = n =>
                       replies'[i].arg = theme' \/ (LeftNext /\ NoAppliedBefore(replies', i))
<1> SUFFICES ASSUME ~lost', ~rushed', count'.foreign = 0, theme' # None, dialog'.at = "reading"
             PROVE  dialog'.n = n /\ Asking /\ Answering
  BY DEF AskedInTime, Settled, Pending, Unapplied
<1>1. dialog \in DialogOf
  BY TypeParts
<1>2. CASE Asks /\ dialog.at = "importing" /\ dialog' = [dialog EXCEPT !.at = "reading"]
  <2> DEFINE m == Message("getThemeCookieValue", None, dialog.n)
  <2>1. Popped(replies, replies') /\ dialog'.n = n
    BY <1>1, <1>2 DEF Asks, DialogOf
  <2>2. Answering
    BY <1>2, <2>1, UpdatesPopped DEF AsksOnce, AskedBy, IsCookie
  <2>3. UNCHANGED <<dialog, calls>> \/ Pushed(calls, calls', m)
    BY <1>2 DEF Asks
  <2>4. ~UNCHANGED dialog
    BY <1>2
  <2>5. Pushed(calls, calls', m)
    BY <2>3, <2>4
  <2> HIDE DEF m
  <2>6. /\ \A i \in DOMAIN calls : i \in DOMAIN calls' /\ calls'[i] = calls[i]
        /\ \A i \in DOMAIN calls' : i \in DOMAIN calls \/ i = Len(calls) + 1
        /\ NoUpdateAfter(calls', Len(calls) + 1)
    BY <2>5, UpdatesPushed, OrderPushed
  <2>7. Asking
    BY <1>2, <2>6 DEF AsksOnce, AskedBy, IsAsk
  <2> QED BY <2>1, <2>2, <2>7
<1>3. CASE ~(Asks /\ dialog.at = "importing" /\ dialog' = [dialog EXCEPT !.at = "reading"])
  <2>1. dialog'.n = n /\ dialog.at = "reading"
    <3>1. Asks /\ dialog.at = "importing" /\ dialog'.at = "reading"
            => dialog' = [dialog EXCEPT !.at = "reading"]
      BY DEF Asks
    <3> QED BY <1>3, <3>1, DialogChange
  <2>2. CASE Picked /\ Raises(replies[1].arg)
    <3>1. ~InProgress /\ Popped(replies, replies')
      BY <2>2 DEF Raises, Picked
    <3>2. NoApplied(replies)
      BY <3>1, NoneInProgress DEF NoApplied
    <3>3. NoApplied(replies')
      BY <3>1, <3>2, OrderPopped
    <3>4. LeftNext
      BY <2>1, <2>2, PickPends DEF Subscribed
    <3>5. \A i : NoAppliedBefore(replies', i)
      BY <3>3 DEF NoApplied, NoAppliedBefore
    <3> QED BY <2>1, <3>3, <3>4, <3>5
  <2>3. CASE ~(Picked /\ Raises(replies[1].arg))
    <3>1. /\ ~lost /\ ~rushed /\ count.foreign = 0 /\ theme # None
          /\ UNCHANGED theme /\ (ThemeApplied \/ Calmly)
      <4>1. ASSUME NEW v \in Setting, OtherWindow(v)
            PROVE  FALSE
        <5>1. count \in CountOf
          BY TypeParts
        <5>2. count' = [count EXCEPT !.foreign = count.foreign + 1]
          BY <4>1 DEF OtherWindow
        <5> QED BY <5>1, <5>2 DEF CountOf
      <4>2. ThemeApplied \/ Calmly
        BY <2>3, <4>1, MoveKinds DEF Loses
      <4> QED BY <4>2 DEF ThemeApplied, Calmly
    <3>2. \A i \in DOMAIN calls : IsAsk(calls, i) /\ calls[i].n = n =>
            NoUpdateAfter(calls, i) \/ (Left /\ NoApplied(replies))
      BY <2>1, <3>1 DEF AskedInTime, Settled, Pending, Unapplied
    <3>3. \A i \in DOMAIN replies : IsCookie(replies, i) /\ replies[i].n = n =>
            replies[i].arg = theme \/ (Left /\ NoAppliedBefore(replies, i))
      BY <2>1, <3>1 DEF AskedInTime, Settled, Pending, Unapplied
    <3>4. CASE CookieAnswered
      <4> DEFINE m == Message("cookie", cookie, calls[1].n)
      <4>1. Popped(calls, calls') /\ Pushed(replies, replies', m) /\ LeftNext = Left
            /\ IsAsk(calls, 1) /\ ~IsUpdate(calls, 1)
        BY <3>4 DEF CookieAnswered, IsAsk, IsUpdate
      <4>2. m.f = "cookie" /\ m.arg = cookie /\ m.n = calls[1].n
        BY DEF Message
      <4> HIDE DEF m, Left, LeftNext
      <4>3. Asking
        BY <3>2, <4>1, <4>2, UpdatesPopped, OrderPopped, OrderPushed DEF IsAsk
      <4>4. ASSUME m.n = n
            PROVE  m.arg = theme \/ (Left /\ NoApplied(replies))
        <5>1. 1 \in DOMAIN calls
          BY <4>1, UpdatesPopped
        <5>2. ASSUME NoUpdateAfter(calls, 1)
              PROVE  m.arg = theme
          <6>1. \A j \in DOMAIN calls : j = 1 \/ 1 < j
            BY <4>1 DEF Popped
          <6>2. NoUpdate(calls)
            BY <4>1, <5>2, <6>1 DEF NoUpdate, NoUpdateAfter
          <6> QED BY <3>1, <4>2, <6>2 DEF Follows
        <5> QED BY <3>2, <4>1, <4>2, <4>4, <5>1, <5>2
      <4>5. /\ \A i \in DOMAIN replies : i \in DOMAIN replies' /\ replies'[i] = replies[i]
            /\ replies'[Len(replies) + 1] = m
            /\ \A i \in DOMAIN replies' : i \in DOMAIN replies \/ i = Len(replies) + 1
            /\ \A i \in DOMAIN replies : NoAppliedBefore(replies, i) => NoAppliedBefore(replies', i)
            /\ NoApplied(replies) => NoAppliedBefore(replies', Len(replies) + 1)
        BY <4>1, UpdatesPushed, OrderPushed
      <4>6. Answering
        BY <3>1, <3>3, <4>1, <4>4, <4>5 DEF IsCookie
      <4> QED BY <2>1, <4>3, <4>6
    <3>5. CASE ThemeApplied
      <4> DEFINE m == Message("applied", None, calls[1].n)
      <4>1. Popped(calls, calls') /\ Pushed(replies, replies', m) /\ LeftNext = Left
            /\ IsUpdate(calls, 1)
        BY <3>5 DEF ThemeApplied, IsUpdate
      <4>2. m.f = "applied"
        BY DEF Message
      <4> HIDE DEF m, Left, LeftNext
      <4>3. \A i \in DOMAIN calls' : i + 1 \in DOMAIN calls /\ i + 1 # 1
              /\ calls'[i] = calls[i + 1] /\ 1 \in DOMAIN calls
        BY <4>1 DEF Popped
      <4>4. NoUpdate(calls')
        BY <3>1, <4>1, <4>3, OneUpdate DEF NoUpdate, IsUpdate
      <4>5. Asking
        BY <4>4 DEF NoUpdate, NoUpdateAfter
      <4>6. Answering
        BY <3>1, <3>3, <4>1, <4>2, UpdatesPushed, OrderPushed DEF IsCookie
      <4> QED BY <2>1, <4>5, <4>6
    <3>6. CASE Answers
      <4>1. Popped(replies, replies') /\ UNCHANGED calls /\ 1 \in DOMAIN replies
            /\ IsApplied(replies, 1)
        BY <3>6 DEF Answers, Popped, IsApplied
      <4>2. NoUpdate(calls)
        BY <3>1, <4>1, OneUpdate DEF NoUpdate
      <4>3. Asking
        BY <4>1, <4>2 DEF NoUpdate, NoUpdateAfter
      <4>4. Answering
        BY <3>1, <3>3, <4>1, UpdatesPopped, OrderPopped DEF IsCookie
      <4> QED BY <2>1, <4>3, <4>4
    <3>7. ASSUME NEW k \in DOMAIN raises, CallbackSets(k)
          PROVE  Asking /\ Answering
      <4>1. CallsNext(k) /\ Head(raises[k].todo) # Layout /\ UNCHANGED <<calls, replies>>
        BY <3>7, CallbackSetsNext DEF CallbackSets
      <4>2. k = Len(raises)
        BY <3>1, <4>1 DEF LastOnly, CallsNext
      <4>3. ~UnappliedIn(raises)
        BY <4>1, <4>2 DEF UnappliedIn
      <4> QED BY <3>1, <3>2, <3>3, <4>1, <4>3
    <3>8. CASE /\ ~CookieAnswered /\ ~ThemeApplied /\ ~Answers
               /\ ~\E k \in DOMAIN raises : CallbackSets(k)
      <4>1. Left => LeftNext
        <5>1. UNCHANGED raises \/ \E k \in DOMAIN raises : CallbackReads(k)
          BY <2>3, <3>8, RaisesChange
        <5>2. UnappliedIn(raises) => UnappliedIn(raises')
          BY <5>1, UnappliedKept
        <5>3. PendingIn(raises, Dialog(n)) => PendingIn(raises', Dialog(n))
          BY <2>3, <3>8, PendingKept, SubscriptionsApart
        <5> QED BY <5>2, <5>3
      <4> HIDE DEF Left, LeftNext
      <4>2. NoApplied(replies) => NoApplied(replies')
        BY <1>3, <2>3, <3>8, OtherMoves, OrderPopped, OrderPushed
      <4>3. Asking
        BY <1>3, <2>3, <3>2, <3>8, <4>1, <4>2, OtherMoves, UpdatesPopped, UpdatesPushed,
           OrderPopped, OrderPushed DEF IsAsk
      <4>4. Answering
        BY <1>3, <2>3, <3>1, <3>3, <3>8, <4>1, OtherMoves, UpdatesPopped, UpdatesPushed,
           OrderPopped, OrderPushed DEF IsCookie
      <4> QED BY <2>1, <4>3, <4>4
    <3> QED BY <2>1, <3>4, <3>5, <3>6, <3>7, <3>8
  <2> QED BY <2>2, <2>3
<1> QED BY <1>2, <1>3

\* So an open dialog has it, or is still to be called.
LEMMA OpenAgreesKept ==
    ASSUME TypeOK, UpdatesWait, ReadsNext, Subscribed, LastOnly, AskedInTime, OpenAgrees, Move
    PROVE  OpenAgrees'
<1> DEFINE n == dialog.n
<1> SUFFICES ASSUME ~lost', ~rushed', count'.foreign = 0, theme' # None, dialog'.at = "open"
             PROVE  dialog'.n = n /\ (dialog'.setting = theme' \/ PendingIn(raises', Dialog(n)))
  BY DEF OpenAgrees, Settled, Pending
<1>1. dialog \in DialogOf
  BY TypeParts
<1>2. CASE Picked /\ Raises(replies[1].arg)
  <2>1. dialog' = [dialog EXCEPT !.setting = replies[1].arg] /\ theme' = replies[1].arg
        /\ replies[1].arg \in Setting
    BY <1>2 DEF Raises
  <2> QED BY <1>1, <2>1 DEF DialogOf
<1>3. CASE ~(Picked /\ Raises(replies[1].arg))
  <2>1. ~lost /\ ~rushed /\ count.foreign = 0 /\ theme # None /\ UNCHANGED theme
    <3>1. ASSUME NEW v \in Setting, OtherWindow(v)
          PROVE  FALSE
      <4>1. count \in CountOf
        BY TypeParts
      <4>2. count' = [count EXCEPT !.foreign = count.foreign + 1]
        BY <3>1 DEF OtherWindow
      <4> QED BY <4>1, <4>2 DEF CountOf
    <3>2. ThemeApplied \/ Calmly
      BY <1>3, <3>1, MoveKinds DEF Loses
    <3> QED BY <3>2 DEF ThemeApplied, Calmly
  <2>2. CASE dialog.at = "reading"
    <3>1. /\ Opens /\ dialog'.n = n /\ n = replies[1].n /\ dialog'.setting = replies[1].arg
      BY <2>2, DialogChange
    <3>2. 1 \in DOMAIN replies /\ IsCookie(replies, 1)
      BY <3>1 DEF Opens, Popped, IsCookie
    <3>3. replies[1].arg = theme \/ PendingIn(raises, Dialog(n))
      BY <2>1, <2>2, <3>1, <3>2 DEF AskedInTime, Settled, Pending
    <3>4. UNCHANGED raises
      BY <3>1 DEF Opens
    <3> QED BY <2>1, <3>1, <3>3, <3>4
  <2>3. CASE dialog.at # "reading"
    <3>1. dialog'.n = n /\ dialog.at = "open"
      BY <2>3, DialogChange
    <3>2. dialog.setting = theme \/ PendingIn(raises, Dialog(n))
      BY <2>1, <3>1 DEF OpenAgrees, Settled, Pending
    <3>3. \/ UNCHANGED dialog
          \/ Picked /\ dialog'.setting = replies[1].arg /\ theme' = replies[1].arg
          \/ \E k \in DOMAIN raises : CallbackSets(k) /\ dialog'.setting = SettingAfter(k)
      BY <2>3, DialogChange
    <3>4. CASE Picked /\ dialog'.setting = replies[1].arg /\ theme' = replies[1].arg
      BY <3>1, <3>4
    <3>5. ASSUME NEW k \in DOMAIN raises, CallbackSets(k), dialog'.setting = SettingAfter(k)
          PROVE  dialog'.setting = theme' \/ PendingIn(raises', Dialog(n))
      <4>1. CASE Head(raises[k].todo) = Dialog(n)
        <5>1. raises[k].read # None
          BY <3>5, CallbackSetsNext
        <5>2. raises[k].read = theme
          BY <2>1, <5>1 DEF LastOnly
        <5> QED BY <2>1, <3>5, <4>1, <5>2 DEF SettingAfter
      <4>2. CASE Head(raises[k].todo) # Dialog(n)
        <5>1. dialog'.setting = dialog.setting
          BY <3>5, <4>2 DEF SettingAfter
        <5>2. CallsNext(k)
          BY <3>5, CallbackSetsNext
        <5>3. PendingIn(raises, Dialog(n)) => PendingIn(raises', Dialog(n))
          <6>1. k = Len(raises)
            BY <2>1, <5>2 DEF LastOnly, CallsNext
          <6>2. raises' # <<>>
            BY <5>2, QueueTypes DEF CallsNext, OnlyPick
          <6> QED BY <4>2, <5>2, <6>1, <6>2 DEF PendingIn, CallsNext, OnlyPick
        <5> QED BY <2>1, <3>2, <5>1, <5>3
      <4> QED BY <4>1, <4>2
    <3>6. CASE UNCHANGED dialog /\ ~\E k \in DOMAIN raises : CallbackSets(k)
      <4>1. PendingIn(raises, Dialog(n)) => PendingIn(raises', Dialog(n))
        BY <1>3, <3>6, PendingKept, SubscriptionsApart
      <4> QED BY <2>1, <3>1, <3>2, <3>6, <4>1
    <3>7. ASSUME NEW k \in DOMAIN raises, CallbackSets(k)
          PROVE  dialog'.setting = SettingAfter(k)
      <4> DEFINE x == SettingAfter(k)
      <4>1. dialog' = [dialog EXCEPT !.setting = x]
        BY <3>7 DEF CallbackSets
      <4> HIDE DEF x
      <4> QED BY <1>1, <4>1 DEF DialogOf, x
    <3> QED BY <3>1, <3>3, <3>4, <3>5, <3>6, <3>7
  <2> QED BY <2>2, <2>3
<1> QED BY <1>2, <1>3

-----------------------------------------------------------------------------
(* The chart.                                                              *)

\* What becomes of the chart.
LEMMA ChartChange ==
    ASSUME TypeOK, Move
    PROVE  \/ UNCHANGED chart
           \/ Drawn
           \/ /\ PageActs /\ UNCHANGED calls
              /\ \/ chart.shown = "no" /\ chart'.shown = "yes"
                    /\ chart'.theme = chart.theme /\ chart'.rendered = chart.rendered
                 \/ chart'.shown # "yes"
           \/ Picked /\ Loses(replies[1].arg)
           \/ Renders
           \/ \E k \in DOMAIN raises : CallbackSets(k)
<1>1. chart \in ChartOf
  BY TypeParts
<1>2. CASE PageActs
  BY <1>1, <1>2 DEF PageActs, Launches, Disposes, Shows, Leaves, LeaveMetrics, ChartOf
<1>3. CASE Picked
  BY <1>3 DEF Picked, Raises
<1>4. ASSUME NEW k \in DOMAIN raises, CallbackReads(k)
      PROVE  UNCHANGED chart
  BY <1>4 DEF CallbackReads
<1>5. ASSUME NEW v \in Setting, OtherWindow(v)
      PROVE  UNCHANGED chart
  BY <1>5 DEF OtherWindow
<1>6. CASE \/ ScriptStarts \/ CookieAnswered \/ ThemeApplied \/ UserActs \/ LayoutStarts
           \/ Asks \/ Opens \/ Answers \/ UNCHANGED vars
  BY <1>6 DEF ScriptStarts, CookieAnswered, ThemeApplied, UserActs, LayoutStarts, Asks, Opens,
        Answers, vars
<1> QED BY <1>2, <1>3, <1>4, <1>5, <1>6 DEF Move

\* Drawing and updating a chart leave its traces reversed.
LEMMA TracesReversedKept ==
    ASSUME TypeOK, TracesReversed, Subscribed, Move
    PROVE  TracesReversed'
<1> DEFINE R == S!Reverse(Trace)
<1>1. chart \in ChartOf
  BY TypeParts
<1>2. chart.back # None => chart.order = R
  BY DEF TracesReversed
<1>3. CASE Drawn
  <2>1. chart' = [shown |-> chart.shown, theme |-> chart.theme, rendered |-> chart.rendered,
                  back |-> chart'.back, order |-> R]
    BY <1>3 DEF Drawn
  <2> HIDE DEF R
  <2>2. chart'.order = R
    BY <2>1
  <2> QED BY <2>2 DEF TracesReversed, R
<1>4. CASE chart'.back = chart.back /\ chart'.order = chart.order
  BY <1>2, <1>4 DEF TracesReversed
<1>5. CASE UNCHANGED chart
  BY <1>4, <1>5
<1>6. CASE PageActs
  <2>1. chart'.back = chart.back /\ chart'.order = chart.order
    BY <1>1, <1>6 DEF PageActs, Launches, Disposes, Shows, Leaves, LeaveMetrics, ChartOf
  <2> QED BY <1>4, <2>1
<1>7. CASE Picked /\ Loses(replies[1].arg)
  <2>1. chart'.back = chart.back /\ chart'.order = chart.order
    BY <1>1, <1>7 DEF Loses, ChartOf
  <2> QED BY <1>4, <2>1
<1>8. CASE Renders
  <2>1. chart'.back = chart.back /\ chart'.order = chart.order
    BY <1>1, <1>8 DEF Renders, ChartOf
  <2> QED BY <1>4, <2>1
<1>9. ASSUME NEW k \in DOMAIN raises, CallbackSets(k)
      PROVE  TracesReversed'
  <2>1. chart'.back = chart.back /\ chart'.order = chart.order
    BY <1>1, <1>9 DEF CallbackSets, ChartOf
  <2> QED BY <1>4, <2>1
<1> QED BY <1>3, <1>5, <1>6, <1>7, <1>8, <1>9, ChartChange

\* A chart that is shown is told of a pick, or will be.
LEMMA ChartToldKept ==
    ASSUME TypeOK, UpdatesWait, ReadsNext, Subscribed, LastOnly, ChartTold, Move
    PROVE  ChartTold'
<1> SUFFICES ASSUME ~lost', ~rushed', chart'.shown = "yes"
             PROVE  chart'.theme \in {None, theme'} \/ PendingIn(raises', Chart)
  BY DEF ChartTold, Pending
<1>1. chart \in ChartOf
  BY TypeParts
<1>2. CASE Picked /\ Raises(replies[1].arg)
  <2>1. chart.shown = "yes"
    BY <1>2 DEF Raises
  <2>2. PendingIn(raises', Chart)
    BY <1>2, <2>1, PickPends DEF Subscribed
  <2> QED BY <2>2
<1>3. CASE ~(Picked /\ Raises(replies[1].arg))
  <2>1. ~lost /\ ~rushed /\ UNCHANGED theme
    <3>1. ASSUME NEW v \in Setting, OtherWindow(v)
          PROVE  UNCHANGED <<lost, rushed, theme>>
      BY <3>1 DEF OtherWindow, serverVars, historyVars
    <3>2. ThemeApplied \/ Calmly \/ \E v \in Setting : OtherWindow(v)
      BY <1>3, MoveKinds DEF Loses
    <3>3. UNCHANGED <<lost, rushed, theme>>
      BY <3>1, <3>2 DEF ThemeApplied, Calmly
    <3> QED BY <3>3
  <2>2. ASSUME NEW k \in DOMAIN raises, CallbackSets(k), Head(raises[k].todo) = Chart
        PROVE  chart'.theme = theme'
    <3>1. raises[k].read # None
      BY <2>2, CallbackSetsNext
    <3>2. raises[k].read = theme
      BY <2>1, <3>1 DEF LastOnly
    <3>3. chart' = [chart EXCEPT !.theme = raises[k].read]
      BY <2>2 DEF CallbackSets
    <3>4. theme \in ThemeOrNone
      BY TypeParts DEF PlainTyped
    <3> QED BY <1>1, <2>1, <3>2, <3>3, <3>4 DEF ChartOf
  <2>3. CASE \A k \in DOMAIN raises : CallbackSets(k) => Head(raises[k].todo) # Chart
    <3>1. PendingIn(raises, Chart) => PendingIn(raises', Chart)
      BY <1>3, <2>3, PendingKept, SubscriptionsApart
    <3>2. \/ chart.shown = "yes" /\ chart'.theme = chart.theme
          \/ chart.shown = "no" /\ chart'.theme = chart.theme
      <4>1. ASSUME NEW k \in DOMAIN raises, CallbackSets(k)
            PROVE  UNCHANGED chart
        BY <2>3, <4>1 DEF CallbackSets
      <4>2. CASE Drawn \/ Renders
        BY <1>1, <4>2 DEF Drawn, Renders, ChartOf
      <4> QED BY <4>1, <4>2, ChartChange DEF Loses
    <3> QED BY <2>1, <3>1, <3>2 DEF ChartTold, Pending, Subscribed
  <2> QED BY <2>2, <2>3
<1> QED BY <1>2, <1>3

\* The calls that draw, after a call is popped or pushed.
LEMMA DrawnPopped ==
    ASSUME NEW q, NEW r, Popped(q, r), NEW back, NEW doc, NEW target,
           DrawnWith(q, back, doc, target)
    PROVE  /\ ~IsDrawing(q, 1) /\ ~IsUpdate(q, 1) => DrawnWith(r, back, doc, target)
           /\ ~IsDrawing(q, 1) => DrawnWith(r, back, target, target)
           /\ IsDrawing(q, 1) => DrawnWith(r, doc, doc, target)
<1>1. /\ Len(q) \in Nat \ {0} /\ DOMAIN q = 1 .. Len(q) /\ DOMAIN r = 1 .. Len(q) - 1
      /\ \A i \in 1 .. Len(q) - 1 : r[i] = q[i + 1]
  BY DEF Popped
<1>2. /\ 1 \in DOMAIN q
      /\ \A i \in DOMAIN r : i \in Int /\ i + 1 \in DOMAIN q /\ i + 1 # 1 /\ r[i] = q[i + 1]
  BY <1>1
<1>3. \A j \in DOMAIN q : j # 1 => j \in Int /\ j - 1 \in DOMAIN r /\ r[j - 1] = q[j]
  BY <1>1
<1>4. ASSUME NEW i \in DOMAIN r, LastDrawing(r, i)
      PROVE  LastDrawing(q, i + 1)
  <2>1. \A j \in DOMAIN q : i + 1 < j => j # 1 /\ i < j - 1
    BY <1>1
  <2> QED BY <1>2, <1>3, <1>4, <2>1 DEF LastDrawing, IsDrawing
<1>5. NoDrawing(r) => \A j \in DOMAIN q : j # 1 => ~IsDrawing(q, j)
  BY <1>3 DEF NoDrawing, IsDrawing
<1>6. ASSUME NEW i \in DOMAIN r, NEW j \in DOMAIN q, j # 1, j < i + 1, IsUpdate(q, j)
      PROVE  \E x \in DOMAIN r : x < i /\ IsUpdate(r, x)
  <2>1. j - 1 \in DOMAIN r /\ j - 1 < i /\ r[j - 1] = q[j]
    BY <1>2, <1>3, <1>6
  <2> QED BY <1>6, <2>1 DEF IsUpdate
<1>7. ASSUME ~IsDrawing(q, 1)
      PROVE  NoDrawing(r) => back = target
  BY <1>5, <1>7 DEF DrawnWith, NoDrawing
<1>8. ASSUME ~IsUpdate(q, 1), NEW i \in DOMAIN r, LastDrawing(r, i)
      PROVE  doc = target \/ \E x \in DOMAIN r : x < i /\ IsUpdate(r, x)
  <2>1. doc = target \/ \E j \in DOMAIN q : j < i + 1 /\ IsUpdate(q, j)
    BY <1>2, <1>4, <1>8 DEF DrawnWith
  <2> QED BY <1>6, <1>8, <2>1
<1>9. ~IsDrawing(q, 1) /\ ~IsUpdate(q, 1) => DrawnWith(r, back, doc, target)
  BY <1>7, <1>8 DEF DrawnWith
<1>10. ~IsDrawing(q, 1) => DrawnWith(r, back, target, target)
  BY <1>7 DEF DrawnWith
<1>11. ASSUME IsDrawing(q, 1)
       PROVE  DrawnWith(r, doc, doc, target)
  <2>1. ~IsUpdate(q, 1)
    BY <1>11 DEF IsDrawing, IsUpdate
  <2>2. ASSUME NoDrawing(r)
        PROVE  doc = target
    <3>1. \A j \in DOMAIN q : (1 < j => j # 1) /\ ~(j < 1)
      BY <1>1
    <3>2. LastDrawing(q, 1)
      BY <1>5, <1>11, <2>2, <3>1 DEF LastDrawing
    <3> QED BY <1>2, <3>1, <3>2 DEF DrawnWith
  <2> QED BY <1>8, <2>1, <2>2 DEF DrawnWith
<1> QED BY <1>9, <1>10, <1>11

\* The same for a call that is pushed.
LEMMA DrawnPushed ==
    ASSUME NEW q, NEW r, NEW m, Pushed(q, r, m), NEW back, NEW doc, NEW target
    PROVE  /\ m.f # "initializeChart" /\ DrawnWith(q, back, doc, target)
                => DrawnWith(r, back, doc, target)
           /\ m.f = "initializeChart" /\ (NoUpdate(q) => doc = target)
                => DrawnWith(r, back, doc, target)
<1>1. /\ Len(q) \in Nat /\ DOMAIN q = 1 .. Len(q) /\ DOMAIN r = 1 .. Len(q) + 1
      /\ r[Len(q) + 1] = m
      /\ \A i \in 1 .. Len(q) : r[i] = q[i]
  BY DEF Pushed
<1>2. /\ \A i \in DOMAIN q : i \in DOMAIN r /\ r[i] = q[i] /\ i < Len(q) + 1
      /\ Len(q) + 1 \in DOMAIN r /\ r[Len(q) + 1] = m
      /\ \A i \in DOMAIN r : i \in DOMAIN q \/ i = Len(q) + 1
  BY <1>1
<1>3. ASSUME m.f # "initializeChart", DrawnWith(q, back, doc, target)
      PROVE  DrawnWith(r, back, doc, target)
  <2>1. NoDrawing(r) => NoDrawing(q)
    BY <1>2 DEF NoDrawing, IsDrawing
  <2>2. ASSUME NEW i \in DOMAIN r, LastDrawing(r, i)
        PROVE  doc = target \/ \E j \in DOMAIN r : j < i /\ IsUpdate(r, j)
    <3>1. i \in DOMAIN q /\ LastDrawing(q, i)
      BY <1>2, <1>3, <2>2 DEF LastDrawing, IsDrawing
    <3>2. doc = target \/ \E j \in DOMAIN q : j < i /\ IsUpdate(q, j)
      BY <1>3, <3>1 DEF DrawnWith
    <3> QED BY <1>2, <3>2 DEF IsUpdate
  <2> QED BY <1>3, <2>1, <2>2 DEF DrawnWith
<1>4. ASSUME m.f = "initializeChart", NoUpdate(q) => doc = target
      PROVE  DrawnWith(r, back, doc, target)
  <2>1. ~NoDrawing(r)
    BY <1>2, <1>4 DEF NoDrawing, IsDrawing
  <2>2. ASSUME NEW i \in DOMAIN r, LastDrawing(r, i)
        PROVE  doc = target \/ \E j \in DOMAIN r : j < i /\ IsUpdate(r, j)
    <3>1. i = Len(q) + 1
      BY <1>2, <1>4, <2>2 DEF LastDrawing, IsDrawing
    <3> QED BY <1>2, <1>4, <3>1 DEF NoUpdate, IsUpdate
  <2> QED BY <2>1, <2>2 DEF DrawnWith
<1> QED BY <1>3, <1>4

\* A step that neither applies a theme nor draws.
LEMMA NoDrawingMoves ==
    ASSUME Move, ~ThemeApplied, ~(Picked /\ Raises(replies[1].arg)), ~Drawn, ~Renders
    PROVE  \/ UNCHANGED calls
           \/ Popped(calls, calls') /\ ~IsUpdate(calls, 1) /\ ~IsDrawing(calls, 1)
           \/ \E m : Pushed(calls, calls', m) /\ m.f # "initializeChart"
<1>1. CASE ScriptStarts \/ CookieAnswered
  BY <1>1 DEF ScriptStarts, CookieAnswered, IsUpdate, IsDrawing
<1>2. CASE UserActs \/ Opens \/ Answers \/ LayoutStarts
  BY <1>2 DEF UserActs, Opens, Answers, LayoutStarts
<1>3. CASE PageActs
  BY <1>3 DEF PageActs, Launches, Disposes, Shows, Leaves
<1>4. CASE Asks
  <2>1. \A n : Message("getThemeCookieValue", None, n).f = "getThemeCookieValue"
    BY DEF Message
  <2> QED BY <1>4, <2>1 DEF Asks
<1>5. CASE Picked
  BY <1>5 DEF Picked, Loses
<1>6. CASE UNCHANGED vars
  BY <1>6 DEF vars
<1>7. ASSUME NEW v \in Setting, OtherWindow(v)
      PROVE  UNCHANGED calls
  BY <1>7 DEF OtherWindow
<1>8. ASSUME NEW k \in DOMAIN raises, CallbackReads(k) \/ CallbackSets(k)
      PROVE  UNCHANGED calls
  BY <1>8 DEF CallbackReads, CallbackSets
<1> QED BY <1>1, <1>2, <1>3, <1>4, <1>5, <1>6, <1>7, <1>8 DEF Move

\* A chart that is drawn in the current theme keeps, or will have, its colors.
LEMMA ChartDrawnKept ==
    ASSUME TypeOK, UpdatesWait, OneEach, ReadsNext, Subscribed, Follows, LastOnly, ChartTold,
           ChartDrawn, Move
    PROVE  ChartDrawn'
<1> DEFINE target == TargetOf(theme, document)
           NewDrawn == DrawnWith(calls', chart'.back, document', TargetOf(theme', document'))
           Goal == /\ chart'.rendered = theme' => NewDrawn
                   /\ chart'.rendered = None /\ chart'.theme = None
                        => NewDrawn \/ PendingIn(raises', Chart)
<1> SUFFICES ASSUME ~lost', ~rushed', ~undrawn', chart'.shown = "yes"
             PROVE  Goal
  BY DEF ChartDrawn, DrawnIn, Pending
<1>1. chart \in ChartOf /\ theme \in ThemeOrNone
  BY TypeParts DEF PlainTyped
<1>2. CASE Picked /\ Raises(replies[1].arg)
  <2> DEFINE v == replies[1].arg
             m == Message("updateTheme", v, Len(raises) + 1)
  <2>1. /\ UNCHANGED <<chart, document>> /\ theme' = v /\ v \in Setting
        /\ ~InProgress /\ Pushed(calls, calls', m)
    BY <1>2 DEF Picked, Raises
  <2>2. ~lost /\ ~rushed /\ ~undrawn /\ ~ThemeChanged
    <3>1. UNCHANGED lost /\ rushed' = (rushed \/ InProgress)
          /\ undrawn' = (undrawn \/ (chart.shown = "yes" /\ ThemeChanged))
          /\ UNCHANGED chart
      BY <1>2 DEF Raises
    <3> QED BY <3>1
  <2>3. m.f = "updateTheme"
    BY DEF Message
  <2>4. PendingIn(raises', Chart)
    BY <1>2, <2>1, PickPends DEF Subscribed
  <2> HIDE DEF m, v
  <2>5. ASSUME chart'.rendered = theme'
        PROVE  NewDrawn
    <3>1. ~PendingIn(raises, Chart)
      BY <2>1, NothingPending
    <3>2. chart.theme \in {None, theme} /\ chart.rendered = chart.theme
      BY <2>1, <2>2, <3>1 DEF ChartTold, Pending, ThemeChanged
    <3>3. chart.rendered = v /\ v # None
      BY <2>1, <2>5, NoneApart
    <3>4. theme = v
      BY <3>2, <3>3
    <3>5. DrawnWith(calls, chart.back, document, target)
      BY <2>1, <2>2, <3>3, <3>4 DEF ChartDrawn, DrawnIn
    <3>6. TargetOf(theme', document') = target
      BY <2>1, <3>4
    <3> HIDE DEF target
    <3>7. DrawnWith(calls', chart.back, document, target)
      BY <2>1, <2>3, <3>5, DrawnPushed
    <3> QED BY <2>1, <3>6, <3>7
  <2> QED BY <2>4, <2>5
<1>3. CASE ~(Picked /\ Raises(replies[1].arg))
  <2>1. /\ ~lost /\ ~rushed /\ ~undrawn /\ UNCHANGED theme
        /\ ThemeApplied \/ UNCHANGED document
    <3>1. ASSUME NEW v \in Setting, OtherWindow(v)
          PROVE  UNCHANGED <<lost, rushed, undrawn, theme, document>>
      BY <3>1 DEF OtherWindow, serverVars, historyVars
    <3>2. ThemeApplied \/ Calmly \/ \E v \in Setting : OtherWindow(v)
      BY <1>3, MoveKinds DEF Loses
    <3>3. UNCHANGED <<lost, rushed, undrawn, theme>>
      BY <3>1, <3>2 DEF ThemeApplied, Calmly
    <3>4. ThemeApplied \/ UNCHANGED document
      BY <3>1, <3>2 DEF Calmly
    <3> QED BY <3>3, <3>4
  <2>2. ~(Picked /\ Loses(replies[1].arg))
    BY DEF Loses
  <2>3. ASSUME chart.shown = "yes", chart'.rendered = chart.rendered,
               chart'.theme = chart.theme \/ chart'.theme # None,
               DrawnIn => NewDrawn,
               PendingIn(raises, Chart) /\ chart'.theme = None => PendingIn(raises', Chart)
        PROVE  Goal
    BY <2>1, <2>3 DEF ChartDrawn, Pending
  <2>4. CASE ThemeApplied
    <3>1. Popped(calls, calls') /\ IsUpdate(calls, 1) /\ ~IsDrawing(calls, 1)
          /\ document' = getEffectiveTheme(calls[1].arg) /\ UNCHANGED <<chart, raises>>
      BY <2>4 DEF ThemeApplied, IsUpdate, IsDrawing
    <3>2. 1 \in DOMAIN calls /\ \A j \in DOMAIN calls : 1 < j => j # 1
      BY <3>1 DEF Popped
    <3>3. LastUpdate(calls, 1) /\ ~NoUpdate(calls)
      BY <2>1, <3>1, <3>2, OneUpdate DEF LastUpdate, NoUpdate
    <3>4. theme # None /\ calls[1].arg = theme
      BY <2>1, <3>2, <3>3 DEF Follows
    <3>5. document' = target /\ TargetOf(theme', document') = target
      BY <2>1, <3>1, <3>4 DEF TargetOf
    <3> HIDE DEF target
    <3>6. ASSUME DrawnWith(calls, chart.back, document, target)
          PROVE  DrawnWith(calls', chart.back, target, target)
      BY <3>1, <3>6, DrawnPopped
    <3>7. DrawnIn => NewDrawn
      BY <3>1, <3>5, <3>6 DEF DrawnIn, target
    <3> HIDE DEF Goal
    <3> QED BY <2>3, <3>1, <3>7
  <2>5. CASE Drawn
    <3>1. /\ Popped(calls, calls') /\ UNCHANGED <<document, theme, raises>>
          /\ \/ IsDrawing(calls, 1) /\ chart'.back = document
             \/ ~IsDrawing(calls, 1) /\ ~IsUpdate(calls, 1) /\ chart'.back = chart.back
      BY <2>5 DEF Drawn, IsDrawing, IsUpdate
    <3>2. chart'.shown = chart.shown /\ chart'.theme = chart.theme
          /\ chart'.rendered = chart.rendered
      BY <2>5 DEF Drawn
    <3> HIDE DEF target
    <3>3. ASSUME DrawnWith(calls, chart.back, document, target)
          PROVE  DrawnWith(calls', chart'.back, document, target)
      BY <3>1, <3>3, DrawnPopped
    <3>4. DrawnIn => NewDrawn
      BY <3>1, <3>3 DEF DrawnIn, target
    <3> HIDE DEF Goal
    <3> QED BY <2>3, <3>1, <3>2, <3>4
  <2>6. CASE Renders
    <3>1. UNCHANGED <<document, theme, raises>> /\ chart.shown = "yes"
      BY <2>6 DEF Renders
    <3> HIDE DEF target
    <3>2. ASSUME NEW m, Pushed(calls, calls', m), m.f = "initializeChart",
                 chart' = [chart EXCEPT !.rendered = chart.theme]
          PROVE  Goal
      <4>1. NoUpdate(calls) => document = target
        BY <2>1 DEF Follows, target, TargetOf
      <4>2. DrawnWith(calls', chart'.back, document, target)
        BY <3>2, <4>1, DrawnPushed
      <4> QED BY <3>1, <4>2 DEF target
    <3>3. ASSUME NEW m, Pushed(calls, calls', m), m.f = "updateChart", UNCHANGED chart
          PROVE  Goal
      <4>1. ASSUME DrawnWith(calls, chart.back, document, target)
            PROVE  DrawnWith(calls', chart'.back, document, target)
        BY <3>3, <4>1, DrawnPushed
      <4>2. DrawnIn => NewDrawn
        BY <3>1, <4>1 DEF DrawnIn, target
      <4> HIDE DEF Goal
      <4> QED BY <2>3, <3>1, <3>3, <4>2
    <3> HIDE DEF Goal
    <3> QED BY <2>6, <3>2, <3>3 DEF Renders
  <2>7. ASSUME NEW k \in DOMAIN raises, CallbackSets(k), Head(raises[k].todo) = Chart
        PROVE  Goal
    <3>1. raises[k].read # None
      BY <2>7, CallbackSetsNext
    <3>2. raises[k].read \in ThemeOrNone
      <4>1. raises \in Seq(RaiseOf)
        BY TypeParts
      <4>2. raises[k] \in RaiseOf
        BY <4>1
      <4> QED BY <4>2 DEF RaiseOf
    <3>3. chart' = [chart EXCEPT !.theme = raises[k].read] /\ UNCHANGED <<document, theme, calls>>
      BY <2>7 DEF CallbackSets
    <3>4. chart'.theme # None /\ chart'.rendered = chart.rendered /\ chart'.back = chart.back
          /\ chart'.shown = chart.shown
      BY <1>1, <3>1, <3>2, <3>3 DEF ChartOf
    <3>5. DrawnIn => NewDrawn
      BY <3>3, <3>4 DEF DrawnIn
    <3> HIDE DEF Goal
    <3> QED BY <2>3, <3>4, <3>5
  <2>8. CASE /\ ~ThemeApplied /\ ~Drawn /\ ~Renders
             /\ \A k \in DOMAIN raises : CallbackSets(k) => Head(raises[k].todo) # Chart
    <3>1. PendingIn(raises, Chart) => PendingIn(raises', Chart)
      BY <1>3, <2>8, PendingKept, SubscriptionsApart
    <3>2. ASSUME NEW k \in DOMAIN raises, CallbackSets(k)
          PROVE  UNCHANGED chart
      BY <2>8, <3>2 DEF CallbackSets
    <3>3. UNCHANGED <<document, theme>>
      BY <2>1, <2>8
    <3>4. CASE UNCHANGED chart
      <4> HIDE DEF target
      <4>1. ASSUME DrawnWith(calls, chart.back, document, target)
            PROVE  DrawnWith(calls', chart.back, document, target)
        BY <1>3, <2>8, <4>1, NoDrawingMoves, DrawnPopped, DrawnPushed
      <4>2. DrawnIn => NewDrawn
        BY <3>3, <3>4, <4>1 DEF DrawnIn, target
      <4> HIDE DEF Goal
      <4> QED BY <2>3, <3>1, <3>4, <4>2
    <3>5. CASE chart.shown = "no" /\ chart'.rendered = chart.rendered
      <4>1. chart'.rendered = "none"
        BY <3>5 DEF Subscribed
      <4>2. "none" # None /\ "none" \notin Setting
        BY Zenon DEF None, Setting
      <4> QED BY <1>1, <3>3, <4>1, <4>2 DEF ThemeOrNone
    <3> HIDE DEF Goal
    <3> QED BY <2>2, <2>8, <3>2, <3>4, <3>5, ChartChange
  <2> HIDE DEF Goal
  <2> QED BY <2>4, <2>5, <2>6, <2>7, <2>8
<1> QED BY <1>2, <1>3

-----------------------------------------------------------------------------
(* The invariant.                                                          *)

\* A page that has just been loaded.
Fresh ==
    /\ document = getEffectiveTheme(cookie)
    /\ calls = FirstCall /\ replies = <<>>
    /\ theme = None /\ subs = <<Layout>> /\ raises = <<>>
    /\ dialog = NoDialog /\ chart = NoChart

\* The invariant holds on a page that has just been loaded.
LEMMA FreshHolds ==
    ASSUME TypeOK, Fresh
    PROVE  IInv
<1>1. /\ DOMAIN calls = 1 .. 1 /\ calls[1].f = "import"
      /\ DOMAIN replies = 1 .. 0 /\ DOMAIN raises = 1 .. 0
  BY DEF Fresh, FirstCall, Message
<1>2. \A i \in DOMAIN calls : i = 1 /\ ~IsUpdate(calls, i) /\ ~IsDrawing(calls, i)
        /\ ~IsAsk(calls, i)
  BY <1>1 DEF IsUpdate, IsDrawing, IsAsk
<1>3. \A i \in DOMAIN replies : FALSE
  BY <1>1
<1>4. \A i \in DOMAIN raises : FALSE
  BY <1>1
<1>5. NoUpdate(calls)
  BY <1>2 DEF NoUpdate
<1>6. dialog.at = "closed" /\ chart.shown = "no" /\ chart.theme = None
      /\ chart.rendered = "none" /\ chart.back = None
  BY DEF Fresh, NoDialog, NoChart
<1>7. UpdatesWait /\ OneEach /\ ReadsNext
  BY <1>2, <1>3, <1>4 DEF UpdatesWait, OneEach, ReadsNext
<1>8. Subscribed
  <2>1. subs = <<Layout>>
    BY DEF Fresh
  <2>2. subs # <<>> /\ Head(subs) = Layout /\ Len(subs) = 1 /\ subs[1] = Layout
    BY <2>1
  <2>3. ~S!Contains(subs, Chart)
    BY <2>2, SubscriptionsApart DEF S!Contains
  <2> QED BY <1>4, <1>6, <2>2, <2>3 DEF Subscribed
<1>9. Follows
  BY <1>2, <1>5 DEF Follows, Fresh, LastUpdate
<1>10. LastOnly
  BY <1>4 DEF LastOnly
<1>11. AsksOnce /\ AskedInTime /\ OpenAgrees
  BY <1>2, <1>3, <1>6 DEF AsksOnce, AskedInTime, OpenAgrees
<1>12. ChartTold /\ ChartDrawn
  BY <1>6 DEF ChartTold, ChartDrawn
<1>13. TracesReversed
  BY <1>6 DEF TracesReversed
<1> QED BY <1>7, <1>8, <1>9, <1>10, <1>11, <1>12, <1>13 DEF IInv

\* The first load of the page.
LEMMA InitHolds ==
    ASSUME Init
    PROVE  IInv
<1>1. Fresh
  BY DEF Init, Fresh, initializeTheme, getThemeCookieValue
<1>2. TypeOK
  <2>1. CallsTyped
    <3>1. Message("import", None, 0) \in CallOf /\ Message("import", None, 0).f = "import"
      BY MessageTypes DEF ThemeOrNone
    <3> DEFINE m == Message("import", None, 0)
    <3> HIDE DEF m
    <3>2. calls = <<m>> /\ m \in CallOf /\ m.f = "import"
      BY <3>1 DEF Init, FirstCall, m
    <3>3. calls \in Seq(CallOf) /\ DOMAIN calls = 1 .. 1 /\ calls[1] = m
      BY <3>2
    <3>4. \A i \in DOMAIN calls : calls[i].f = "import"
      BY <3>2, <3>3
    <3> QED BY <3>3, <3>4 DEF CallsTyped
  <2>2. RepliesTyped
    <3>1. replies = <<>>
      BY DEF Init
    <3>2. replies \in Seq(ReplyOf \cup KeyOf) /\ \A i \in DOMAIN replies : FALSE
      BY <3>1
    <3> QED BY <3>2 DEF RepliesTyped
  <2>3. subs \in Seq(Subscription) /\ raises \in Seq(RaiseOf)
    <3>1. subs = <<Layout>> /\ raises = <<>> /\ Layout \in Subscription
      BY DEF Init, Layout, Subscription
    <3> QED BY <3>1
  <2>4. dialog \in DialogOf /\ count \in CountOf
    BY DEF Init, NoDialog, DialogOf, CountOf, ThemeOrNone, Setting
  <2>5. chart \in ChartOf
    BY DEF Init, NoChart, ChartOf, ThemeOrNone
  <2>6. PlainTyped
    BY EffectiveTypes DEF Init, PlainTyped, initializeTheme, ThemeOrNone
  <2> QED BY <2>1, <2>2, <2>3, <2>4, <2>5, <2>6, TypeParts
<1> QED BY <1>1, <1>2, FreshHolds

\* A page load brings the invariant about, whatever was on its way before.
LEMMA ReloadHolds ==
    ASSUME IInv, Reload
    PROVE  IInv'
<1>1. Fresh'
  BY DEF Reload, Fresh, initializeTheme, getThemeCookieValue
<1>2. TypeOK'
  <2> DEFINE m == Message("import", None, 0)
  <2>1. m \in CallOf /\ m.f = "import"
    BY MessageTypes DEF ThemeOrNone
  <2>2. calls' = <<m>>
    BY DEF Reload, FirstCall
  <2>3. CallsTyped'
    <3> HIDE DEF m
    <3>1. calls' \in Seq(CallOf) /\ DOMAIN calls' = 1 .. 1 /\ calls'[1] = m
      BY <2>1, <2>2
    <3>2. \A i \in DOMAIN calls' : calls'[i].f = "import"
      BY <2>1, <3>1
    <3> QED BY <3>1, <3>2 DEF CallsTyped
  <2>4. RepliesTyped'
    <3>1. replies' = <<>>
      BY DEF Reload
    <3>2. replies' \in Seq(ReplyOf \cup KeyOf) /\ \A i \in DOMAIN replies' : FALSE
      BY <3>1
    <3> QED BY <3>2 DEF RepliesTyped
  <2>5. subs' \in Seq(Subscription) /\ raises' \in Seq(RaiseOf)
    <3>1. subs' = <<Layout>> /\ raises' = <<>> /\ Layout \in Subscription
      BY DEF Reload, Layout, Subscription
    <3> QED BY <3>1
  <2>6. dialog' \in DialogOf
    BY DEF Reload, NoDialog, DialogOf, ThemeOrNone, Setting
  <2>7. chart' \in ChartOf
    BY DEF Reload, NoChart, ChartOf, ThemeOrNone
  <2>8. count' \in CountOf
    <3>1. count \in CountOf
      BY TypeParts DEF IInv
    <3>2. count' = [count EXCEPT !.loads = count.loads + 1]
      BY DEF Reload
    <3> QED BY <3>1, <3>2 DEF CountOf
  <2>9. PlainTyped'
    <3>1. PlainTyped
      BY TypeParts DEF IInv
    <3> QED BY <3>1, EffectiveTypes DEF Reload, PlainTyped, initializeTheme, ThemeOrNone
  <2>10. (TypeOK <=> /\ CallsTyped /\ RepliesTyped /\ subs \in Seq(Subscription)
                     /\ raises \in Seq(RaiseOf) /\ dialog \in DialogOf /\ chart \in ChartOf
                     /\ count \in CountOf /\ PlainTyped)'
    BY TypeParts, PTL
  <2> QED BY <2>3, <2>4, <2>5, <2>6, <2>7, <2>8, <2>9, <2>10
<1>3. (TypeOK /\ Fresh => IInv)'
  BY FreshHolds, PTL
<1> QED BY <1>1, <1>2, <1>3

\* Every step keeps the invariant.
LEMMA StepHolds ==
    ASSUME IInv, [Next]_vars
    PROVE  IInv'
<1>1. CASE Reload
  BY <1>1, ReloadHolds
<1>2. CASE Move
  <2>1. /\ TypeOK /\ UpdatesWait /\ OneEach /\ ReadsNext /\ Subscribed /\ Follows
        /\ LastOnly /\ AsksOnce /\ AskedInTime /\ OpenAgrees /\ ChartTold /\ ChartDrawn
        /\ TracesReversed
    BY DEF IInv
  <2>2. TypeOK' /\ UpdatesWait' /\ OneEach' /\ ReadsNext' /\ Subscribed'
    BY <1>2, <2>1, TypeKept, UpdatesWaitKept, OneEachKept, ReadsNextKept, SubscribedKept
  <2>3. Follows' /\ LastOnly' /\ AsksOnce' /\ AskedInTime' /\ OpenAgrees'
    BY <1>2, <2>1, FollowsKept, LastOnlyKept, AsksOnceKept, AskedInTimeKept, OpenAgreesKept
  <2>4. ChartTold' /\ ChartDrawn' /\ TracesReversed'
    BY <1>2, <2>1, ChartToldKept, ChartDrawnKept, TracesReversedKept
  <2> QED BY <2>2, <2>3, <2>4 DEF IInv
<1>3. TypeOK
  BY DEF IInv
<1> QED BY <1>1, <1>2, <1>3, Steps

\* The messages on their way between the browser and the server, the callbacks
\* that are left and the state of the components always fit together.
THEOREM InvariantHolds == Spec => []IInv
<1>1. Init => IInv
  BY InitHolds
<1>2. IInv /\ [Next]_vars => IInv'
  BY StepHolds
<1> QED BY <1>1, <1>2, PTL DEF Spec

\* Every message, and every variable, has its type.
THEOREM TypeCorrect == Spec => []TypeOK
<1>1. IInv => TypeOK
  BY DEF IInv
<1> QED BY <1>1, InvariantHolds, PTL

\* However picks, page loads and the calls of updateTheme overlap, the document
\* ends up with the theme of the cookie, the last one picked.
THEOREM DocumentFollowsHolds == Spec => []DocumentFollows
<1>1. IInv => DocumentFollows
  <2> SUFFICES ASSUME IInv, Quiet, ~lost, count.foreign = 0
               PROVE  document = getEffectiveTheme(cookie) /\ theme \in {None, cookie}
    BY DEF DocumentFollows
  <2>1. NoUpdate(calls)
    BY DEF Quiet, NoUpdate
  <2> QED BY <2>1 DEF IInv, Follows
<1> QED BY <1>1, InvariantHolds, PTL

\* A dialog that was asking for the cookie when a theme was picked ends up with
\* that theme.
THEOREM DialogAgreesHolds == Spec => []DialogAgrees
<1>1. IInv => DialogAgrees
  <2> SUFFICES ASSUME IInv, Quiet, dialog.at = "open", theme # None, ~lost, ~rushed,
                      count.foreign = 0
               PROVE  dialog.setting = theme
    BY DEF DialogAgrees
  <2>1. ~Pending(Dialog(dialog.n))
    BY NothingPending DEF IInv, Quiet, Pending
  <2> QED BY <2>1 DEF IInv, OpenAgrees, Settled
<1> QED BY <1>1, InvariantHolds, PTL

\* A chart that has been drawn in its theme has the colors of the document.
THEOREM ChartAgreesHolds == Spec => []ChartAgrees
<1>1. IInv => ChartAgrees
  <2> SUFFICES ASSUME IInv, Quiet, chart.shown = "yes", ~ThemeChanged, ~lost, ~rushed, ~undrawn
               PROVE  chart.back = document
    BY DEF ChartAgrees
  <2>1. calls = <<>> /\ ~InProgress /\ TypeOK
    BY DEF IInv, Quiet
  <2>2. ~PendingIn(raises, Chart)
    BY <2>1, NothingPending
  <2>3. chart.theme \in {None, theme} /\ chart.rendered = chart.theme
    BY <2>2 DEF IInv, ChartTold, Pending, ThemeChanged
  <2>4. DrawnIn
    BY <2>2, <2>3 DEF IInv, ChartDrawn, Pending
  <2>5. NoDrawing(calls) /\ NoUpdate(calls)
    BY <2>1 DEF NoDrawing, NoUpdate
  <2>6. chart.back = TargetOf(theme, document)
    BY <2>4, <2>5 DEF DrawnIn, DrawnWith
  <2>7. theme # None => document = getEffectiveTheme(theme)
    BY <2>5 DEF IInv, Follows
  <2> QED BY <2>6, <2>7 DEF TargetOf
<1> QED BY <1>1, InvariantHolds, PTL

\* However many traces a chart has and however often it is drawn, they are in
\* the reverse order of its data.
THEOREM TracesReversedHolds == Spec => []TracesReversed
<1>1. IInv => TracesReversed
  BY DEF IInv
<1> QED BY <1>1, InvariantHolds, PTL
=============================================================================
