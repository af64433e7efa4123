--------------------------- MODULE TerminalProofs ---------------------------
(***************************************************************************)
(* Proofs about the main loop of the terminal: the selection is sound      *)
(* whatever actions run, one in the other, no list is older than the one   *)
(* shown before, tracking keeps the cursor on its item, a `wait` has       *)
(* something to end it, and the current item is on the screen.             *)
(***************************************************************************)
EXTENDS Terminal, NatLemmas, SequenceTheorems

----------------------------------------------------------------------------
(* Lists of items *)

\* A sequence of distinct items has no other members when it is made shorter.
LEMMA BeforeList ==
  ASSUME NEW M, NEW s \in ListOf(M), NEW n \in 0 .. Len(s)
  PROVE  /\ Before(s, n) \in ListOf(M) /\ Len(Before(s, n)) = n
         /\ \A i \in 1 .. n : Before(s, n)[i] = s[i]
  <1> DEFINE I == {M} \X Nat
             t == SubSeq(s, 1, n)
  <1>1. s \in Seq(I) /\ Distinct(s)
    BY DEF ListOf
  <1>2. \A i \in 1 .. n : s[i] \in I
    BY <1>1, ElementOfSeq
  <1>3. t \in Seq(I) /\ Len(t) = n /\ \A i \in 1 .. n : t[i] = s[i]
    BY <1>2, SubSeqProperties
  <1>4. Distinct(t)
    BY <1>1, <1>3 DEF Distinct
  <1> QED
    BY <1>3, <1>4 DEF Before, ListOf

\* Two lists without a common index, one after the other
LEMMA ConcatList ==
  ASSUME NEW M, NEW s \in ListOf(M), NEW t \in ListOf(M), Indices(s) \cap Indices(t) = {}
  PROVE  s \o t \in ListOf(M) /\ Len(s \o t) = Len(s) + Len(t)
  <1> DEFINE I == {M} \X Nat
             u == s \o t
  <1>1. s \in Seq(I) /\ t \in Seq(I) /\ Distinct(s) /\ Distinct(t)
    BY DEF ListOf
  <1>2. /\ u \in Seq(I) /\ Len(u) = Len(s) + Len(t)
        /\ \A i \in 1 .. Len(s) + Len(t) : u[i] = IF i <= Len(s) THEN s[i] ELSE t[i - Len(s)]
    BY <1>1, ConcatProperties
  <1>3. ASSUME NEW i \in 1 .. Len(s), NEW j \in 1 .. Len(t) PROVE Index(s[i]) # Index(t[j])
    <2>1. i \in DOMAIN s /\ j \in DOMAIN t
      BY <1>1
    <2>2. Index(s[i]) \in Indices(s) /\ Index(t[j]) \in Indices(t)
      BY <2>1, Zenon DEF Indices
    <2> QED
      BY ONLY <2>2, Indices(s) \cap Indices(t) = {}
  <1>4. ASSUME NEW i \in DOMAIN u, NEW j \in DOMAIN u, Index(u[i]) = Index(u[j]) PROVE i = j
    <2>0. /\ i \in 1 .. Len(s) + Len(t) /\ j \in 1 .. Len(s) + Len(t)
          /\ Len(s) \in Nat /\ Len(t) \in Nat
      BY <1>1, <1>2
    <2> HIDE DEF u
    <2>3. DOMAIN s = 1 .. Len(s) /\ DOMAIN t = 1 .. Len(t)
      BY <1>1
    <2>1. ASSUME NEW x \in 1 .. Len(s) + Len(t)
          PROVE  \/ x \in DOMAIN s /\ u[x] = s[x]
                 \/ x - Len(s) \in DOMAIN t /\ u[x] = t[x - Len(s)]
      <3>1. CASE x <= Len(s)
        BY <3>1, <2>0, <2>3, <1>2
      <3>2. CASE ~(x <= Len(s))
        BY <3>2, <2>0, <2>3, <1>2
      <3> QED
        BY <3>1, <3>2
    <2>2. /\ \/ i \in DOMAIN s /\ u[i] = s[i]
             \/ i - Len(s) \in DOMAIN t /\ u[i] = t[i - Len(s)]
          /\ \/ j \in DOMAIN s /\ u[j] = s[j]
             \/ j - Len(s) \in DOMAIN t /\ u[j] = t[j - Len(s)]
      BY <2>0, <2>1
    <2>4. CASE i \in DOMAIN s /\ u[i] = s[i] /\ j \in DOMAIN s /\ u[j] = s[j]
      BY <2>4, <1>1, <1>4 DEF Distinct
    <2>5. CASE /\ i - Len(s) \in DOMAIN t /\ u[i] = t[i - Len(s)]
               /\ j - Len(s) \in DOMAIN t /\ u[j] = t[j - Len(s)]
      <3>1. i - Len(s) = j - Len(s)
        BY <2>5, <1>1, <1>4 DEF Distinct
      <3> QED
        BY <3>1, <2>0
    <2>6. Index(u[i]) = Index(u[j])
      BY <1>4
    <2> QED
      BY <2>2, <2>3, <2>4, <2>5, <2>6, <1>3
  <1>5. Distinct(u)
    BY <1>4 DEF Distinct
  <1> QED
    BY <1>2, <1>5 DEF ListOf

\* A list with an item more, of another index
LEMMA AppendList ==
  ASSUME NEW M, NEW s \in ListOf(M), NEW item \in {M} \X Nat, Index(item) \notin Indices(s)
  PROVE  Append(s, item) \in ListOf(M) /\ Len(Append(s, item)) = Len(s) + 1
  <1> DEFINE I == {M} \X Nat
             u == Append(s, item)
  <1>1. s \in Seq(I) /\ Distinct(s) /\ Len(s) \in Nat
    BY DEF ListOf
  <1>2. /\ u \in Seq(I) /\ Len(u) = Len(s) + 1 /\ u[Len(s) + 1] = item
        /\ \A i \in 1 .. Len(s) : u[i] = s[i]
    BY <1>1
  <1>3. \A i \in 1 .. Len(s) : Index(s[i]) # Index(item)
    BY <1>1 DEF Indices
  <1> HIDE DEF u
  <1>4. Distinct(u)
    <2> SUFFICES ASSUME NEW i \in DOMAIN u, NEW j \in DOMAIN u, Index(u[i]) = Index(u[j])
                 PROVE  i = j
      BY DEF Distinct
    <2>1. ASSUME NEW x \in DOMAIN u
          PROVE  \/ x \in 1 .. Len(s) /\ u[x] = s[x]
                 \/ x = Len(s) + 1 /\ u[x] = item
      <3>1. DOMAIN u = 1 .. Len(s) + 1
        BY <1>2
      <3>2. x \in 1 .. Len(s) \/ x = Len(s) + 1
        BY <3>1, <1>1
      <3> QED
        BY <3>2, <1>2
    <2>2. \A x, y \in 1 .. Len(s) : Index(s[x]) = Index(s[y]) => x = y
      BY <1>1 DEF Distinct
    <2>3. Index(u[i]) = Index(u[j])
      OBVIOUS
    <2> HIDE DEF I
    <2> QED
      BY <2>1, <2>2, <2>3, <1>3
  <1> QED
    BY <1>2, <1>4 DEF ListOf, u

\* Only is the value of a recursive function, which exists.
LEMMA OnlyDef ==
  ASSUME NEW S, NEW s \in Seq(S), NEW I
  PROVE  \E k : /\ k = [n \in 0 .. Len(s) |->
                          IF n = 0 THEN <<>>
                          ELSE IF Index(s[n]) \in I THEN Append(k[n - 1], s[n]) ELSE k[n - 1]]
                /\ Only(s, I) = k[Len(s)]
  <1> DEFINE Step(k, n) == IF n = 0 THEN <<>>
                           ELSE IF Index(s[n]) \in I THEN Append(k[n - 1], s[n]) ELSE k[n - 1]
             Fits(k, N) == k = [n \in 0 .. N |-> Step(k, n)]
             Bad == {N \in 0 .. Len(s) : ~\E k : Fits(k, N)}
             k0 == CHOOSE k : Fits(k, Len(s))
  <1>0. Len(s) \in Nat
    OBVIOUS
  <1>1. Bad = {}
    <2> SUFFICES ASSUME Bad # {} PROVE FALSE
      OBVIOUS
    <2>1. PICK N \in Bad : \A n \in Bad : N <= n
      <3>1. Bad \in SUBSET Nat
        BY <1>0
      <3> HIDE DEF Bad
      <3> QED
        BY <3>1, LeastNat
    <2>2. N \in 0 .. Len(s) /\ ~\E k : Fits(k, N)
      OBVIOUS
    <2>3. Fits([n \in 0 .. 0 |-> <<>>], 0)
      OBVIOUS
    <2> HIDE DEF Fits
    <2>4. N # 0
      BY <2>2, <2>3
    <2>5. N - 1 \in 0 .. Len(s) /\ N \in Nat /\ ~(N <= N - 1)
      BY <2>2, <2>4, <1>0
    <2>6. PICK k : Fits(k, N - 1)
      BY <2>1, <2>5
    <2> USE DEF Fits
    <2> DEFINE m == [n \in 0 .. N |-> IF n = N THEN Step(k, N) ELSE k[n]]
    <2>7. \A n \in 0 .. N : m[n] = Step(m, n)
      <3>1. ASSUME NEW n \in 0 .. N PROVE m[n] = Step(m, n)
        <4>1. CASE n = N
          BY <4>1, <2>4, <2>5
        <4>2. CASE n = 0
          BY <4>2, <2>4, <2>5, <2>6
        <4>3. CASE n # N /\ n # 0
          <5>1. n \in 0 .. N - 1 /\ n - 1 \in 0 .. N /\ n - 1 # N
            BY <4>3, <2>5
          <5>2. k[n] = Step(k, n)
            BY <5>1, <2>6
          <5> QED
            BY <5>1, <5>2, <4>3
        <4> QED
          BY <4>1, <4>2, <4>3
      <3> QED
        BY <3>1
    <2>8. Fits(m, N)
      BY <2>7
    <2> QED
      BY <2>2, <2>8
  <1>2. \E k : Fits(k, Len(s))
    <2> HIDE DEF Fits
    <2>1. Len(s) \in 0 .. Len(s)
      BY <1>0
    <2> QED
      BY <2>1, <1>1
  <1>3. Fits(k0, Len(s))
    BY <1>2
  <1>4. Only(s, I) = k0[Len(s)]
    BY DEF Only
  <1> QED
    BY <1>3, <1>4

\* Only takes items of the list, in their order, and each at most once.
LEMMA OnlyList ==
  ASSUME NEW M, NEW s \in ListOf(M), NEW I
  PROVE  /\ Only(s, I) \in ListOf(M)
         /\ Len(Only(s, I)) <= Len(s)
         /\ Indices(Only(s, I)) \subseteq Indices(s) \cap I
  <1> DEFINE It == {M} \X Nat
  <1>1. s \in Seq(It) /\ Distinct(s) /\ Len(s) \in Nat
    BY DEF ListOf
  <1>2. PICK k : /\ k = [n \in 0 .. Len(s) |->
                          IF n = 0 THEN <<>>
                          ELSE IF Index(s[n]) \in I THEN Append(k[n - 1], s[n]) ELSE k[n - 1]]
                /\ Only(s, I) = k[Len(s)]
    BY <1>1, OnlyDef
  <1>3. /\ k[0] = <<>>
        /\ \A n \in 1 .. Len(s) : k[n] = IF Index(s[n]) \in I THEN Append(k[n - 1], s[n]) ELSE k[n - 1]
    <2>1. \A n \in 0 .. Len(s) :
            k[n] = IF n = 0 THEN <<>>
                   ELSE IF Index(s[n]) \in I THEN Append(k[n - 1], s[n]) ELSE k[n - 1]
      BY <1>2
    <2>2. 0 \in 0 .. Len(s) /\ \A n \in 1 .. Len(s) : n \in 0 .. Len(s) /\ n # 0
      BY <1>1
    <2> QED
      BY <2>1, <2>2
  <1> DEFINE Right(n) == /\ k[n] \in ListOf(M) /\ Len(k[n]) <= n
                         /\ \A x \in Indices(k[n]) : x \in I /\ \E j \in 1 .. n : Index(s[j]) = x
             Bad == {n \in 0 .. Len(s) : ~Right(n)}
  <1>4. Bad = {}
    <2> SUFFICES ASSUME Bad # {} PROVE FALSE
      OBVIOUS
    <2>1. PICK n \in Bad : \A m \in Bad : n <= m
      <3>1. Bad \in SUBSET Nat
        BY <1>1
      <3> HIDE DEF Bad
      <3> QED
        BY <3>1, LeastNat
    <2>2. n \in 0 .. Len(s) /\ ~Right(n)
      OBVIOUS
    <2>3. n # 0
      <3>1. <<>> \in ListOf(M) /\ Len(<<>>) = 0 /\ Indices(<<>>) = {}
        BY DEF ListOf, Distinct, Indices
      <3>2. Right(0)
        BY <3>1, <1>3
      <3> QED
        BY <3>2, <2>2
    <2>4. n \in 1 .. Len(s) /\ n - 1 \in 0 .. Len(s) /\ ~(n <= n - 1)
      BY <2>2, <2>3, <1>1
    <2>5. Right(n - 1)
      BY <2>1, <2>4
    <2>6. CASE Index(s[n]) \notin I
      <3>1. k[n] = k[n - 1]
        BY <2>6, <2>4, <1>3
      <3>2. Right(n)
        BY <3>1, <2>5, <2>4
      <3> QED
        BY <3>2, <2>2
    <2>7. CASE Index(s[n]) \in I
      <3>1. k[n] = Append(k[n - 1], s[n])
        BY <2>7, <2>4, <1>3
      <3>2. Index(s[n]) \notin Indices(k[n - 1])
        <4> SUFFICES ASSUME Index(s[n]) \in Indices(k[n - 1]) PROVE FALSE
          OBVIOUS
        <4>1. PICK j \in 1 .. n - 1 : Index(s[j]) = Index(s[n])
          BY <2>5
        <4>2. j \in DOMAIN s /\ n \in DOMAIN s /\ j # n
          BY <4>1, <2>4, <1>1
        <4> QED
          BY <4>1, <4>2, <1>1 DEF Distinct
      <3>3. s[n] \in It
        BY <1>1, <2>4, ElementOfSeq
      <3> DEFINE was == k[n - 1]
      <3>4. was \in ListOf(M)
        BY <2>5
      <3>5. Append(was, s[n]) \in ListOf(M) /\ Len(Append(was, s[n])) = Len(was) + 1
        BY <3>2, <3>3, <3>4, AppendList
      <3>6. \A x \in Indices(k[n]) : x \in Indices(was) \/ x = Index(s[n])
        <4>1. was \in Seq(It)
          BY <3>4 DEF ListOf
        <4> HIDE DEF was, It
        <4>2. /\ DOMAIN Append(was, s[n]) = 1 .. Len(was) + 1 /\ Len(was) \in Nat
              /\ \A i \in 1 .. Len(was) : Append(was, s[n])[i] = was[i]
              /\ Append(was, s[n])[Len(was) + 1] = s[n] /\ DOMAIN was = 1 .. Len(was)
          BY <4>1, <3>3
        <4>3. k[n] = Append(was, s[n])
          BY <3>1 DEF was
        <4> QED
          BY <4>2, <4>3 DEF Indices
      <3>7. Right(n)
        <4>1. k[n] \in ListOf(M) /\ Len(k[n]) = Len(was) + 1 /\ Len(was) \in Nat
          BY <3>1, <3>4, <3>5 DEF ListOf
        <4>2. Len(k[n]) <= n
          BY <4>1, <2>4, <2>5
        <4>3. ASSUME NEW x \in Indices(k[n])
              PROVE  x \in I /\ \E j \in 1 .. n : Index(s[j]) = x
          <5>1. CASE x = Index(s[n])
            BY <5>1, <2>7, <2>4
          <5>2. CASE x \in Indices(was)
            BY <5>2, <2>5, <2>4
          <5> QED
            BY <5>1, <5>2, <3>6
        <4> QED
          BY <4>1, <4>2, <4>3
      <3> QED
        BY <3>7, <2>2
    <2> QED
      BY <2>6, <2>7
  <1>5. Right(Len(s))
    <2> HIDE DEF Right
    <2>1. Len(s) \in 0 .. Len(s)
      BY <1>1
    <2> QED
      BY <2>1, <1>4
  <1>6. \A j \in 1 .. Len(s) : Index(s[j]) \in Indices(s)
    BY <1>1 DEF Indices
  <1> HIDE DEF It
  <1> QED
    BY <1>2, <1>5, <1>6
----------------------------------------------------------------------------
(* The operations on the list *)

\* What the lines of a list are counted from
Window(m) ==
  /\ m.multiLine \in BOOLEAN /\ m.gap \in Nat /\ m.height \in Nat /\ m.scrollOff \in Nat
  /\ \A i \in DOMAIN m.lines : m.lines[i] \in Nat \ {0}
SameWindow(m, n) ==
  /\ n.multiLine = m.multiLine /\ n.gap = m.gap /\ n.height = m.height /\ n.scrollOff = m.scrollOff
  /\ n.lines = m.lines

\* A list of the terminal: each of its sequences has items of list M only, each once, and unless
\* `any` number may be selected, no more than the limit are.
SoundList(m, M, any) ==
  /\ DOMAIN m = ListFields /\ Window(m)
  /\ m.shown \in ListOf(M) /\ m.result \in ListOf(M) /\ m.pass \in ListOf(M)
  /\ m.selected \in ListOf(M) /\ m.multi \in Nat
  /\ any \/ Len(m.selected) <= m.multi

\* What moves and scrolls leave alone
SameItems(m, n) ==
  /\ DOMAIN n = ListFields /\ SameWindow(m, n)
  /\ n.shown = m.shown /\ n.result = m.result /\ n.pass = m.pass
  /\ n.selected = m.selected /\ n.multi = m.multi

\* A list with the same items and limit is as sound.
LEMMA SameItemsSound ==
  ASSUME NEW m, NEW n, NEW M, NEW any, SoundList(m, M, any), SameItems(m, n)
  PROVE  SoundList(n, M, any)
  BY DEF SoundList, SameItems, SameWindow, Window

\* Moving and scrolling change the cursor and the offset only.
LEMMA VsetSame ==
  ASSUME NEW m, DOMAIN m = ListFields, NEW n
  PROVE  SameItems(m, Vset(m, n))
  BY DEF Vset, SameItems, ListFields, SameWindow

\* vmove changes the cursor only.
LEMMA VmoveSame ==
  ASSUME NEW m, DOMAIN m = ListFields, NEW o, NEW allowCycle
  PROVE  SameItems(m, Vmove(m, o, allowCycle))
  BY VsetSame DEF Vmove

\* So do up, down and, in raw mode, up-match and down-match.
LEMMA MoveSame ==
  ASSUME NEW m, DOMAIN m = ListFields, NEW dir, NEW toMatch
  PROVE  SameItems(m, Move(m, dir, toMatch))
  <1>1. SameItems(m, MoveToMatch(m, dir))
    <2>1. PICK cy : MoveToMatch(m, dir) \in {m, [m EXCEPT !.cy = cy], Vset(m, m.cy)}
      BY DEF MoveToMatch
    <2>2. SameItems(m, m) /\ SameItems(m, [m EXCEPT !.cy = cy])
      BY DEF SameItems, ListFields, SameWindow
    <2> QED
      BY <2>1, <2>2, VsetSame
  <1> QED
    BY <1>1, VmoveSame DEF Move

\* constrain changes the cursor and the offset only.
LEMMA ConstrainSame ==
  ASSUME NEW m, DOMAIN m = ListFields
  PROVE  SameItems(m, ConstrainList(m))
  <1>1. PICK cy, offset : ConstrainList(m) = [[m EXCEPT !.cy = cy] EXCEPT !.offset = offset]
    BY DEF ConstrainList, Scrolled
  <1> QED
    BY <1>1 DEF SameItems, ListFields, SameWindow

\* So do offset-up, offset-down and offset-middle.
LEMMA ScrollSame ==
  ASSUME NEW m, DOMAIN m = ListFields, NEW dir
  PROVE  SameItems(m, OffsetMiddle(m)) /\ SameItems(m, Offset(m, dir))
  <1>1. SameItems(m, OffsetMiddle(m))
    <2>1. PICK k : k = [m EXCEPT !.scrollOff = m.height]
      OBVIOUS
    <2>2. PICK n : n = ConstrainList(k)
      OBVIOUS
    <2>3. DOMAIN k = ListFields
      BY <2>1
    <2>4. SameItems(k, n)
      BY <2>2, <2>3, ConstrainSame
    <2>5. SameItems(m, [n EXCEPT !.scrollOff = m.scrollOff])
      BY <2>1, <2>4 DEF SameItems, SameWindow, ListFields
    <2> QED
      BY <2>1, <2>2, <2>5 DEF OffsetMiddle
  <1>2. SameItems(m, Offset(m, dir))
    <2>1. PICK offset, o : Offset(m, dir) = Moved(ConstrainList([m EXCEPT !.offset = offset]), offset, o)
      BY DEF Offset
    <2>2. SameItems(m, [m EXCEPT !.offset = offset])
      BY DEF SameItems, ListFields, SameWindow
    <2>3. PICK n : n = ConstrainList([m EXCEPT !.offset = offset])
      OBVIOUS
    <2>4. SameItems(m, n)
      <3>1. SameItems([m EXCEPT !.offset = offset], n)
        BY <2>2, <2>3, ConstrainSame DEF SameItems, SameWindow
      <3> QED
        BY <2>2, <3>1 DEF SameItems, SameWindow
    <2>5. SameItems(m, [n EXCEPT !.offset = offset])
      BY <2>4 DEF SameItems, ListFields, SameWindow
    <2>6. SameItems(m, Vmove([n EXCEPT !.offset = offset], o, FALSE))
      <3>1. PICK k : k = [n EXCEPT !.offset = offset]
        OBVIOUS
      <3>2. DOMAIN k = ListFields
        BY <2>5, <3>1 DEF SameItems, SameWindow
      <3>3. SameItems(k, Vmove(k, o, FALSE))
        BY <3>2, VmoveSame
      <3> QED
        BY <2>5, <3>1, <3>3 DEF SameItems, SameWindow
    <2> QED
      BY <2>1, <2>3, <2>4, <2>6 DEF Moved
  <1> QED
    BY <1>1, <1>2

\* So do the four page actions.
LEMMA PageSame ==
  ASSUME NEW m, DOMAIN m = ListFields, NEW up, NEW half
  PROVE  SameItems(m, Page(m, up, half))
  <1>1. PICK cy, offset, n : Page(m, up, half) \in {[m EXCEPT !.cy = cy, !.offset = offset], Vset(m, n)}
    BY DEF Page
  <1>2. SameItems(m, [m EXCEPT !.cy = cy, !.offset = offset])
    BY DEF SameItems, ListFields, SameWindow
  <1> QED
    BY <1>1, <1>2, VsetSame

\* So do the jumps to a place of the list or to a selected item.
LEMMA JumpSame ==
  ASSUME NEW m, DOMAIN m = ListFields, NEW n
  PROVE  /\ SameItems(m, First(m)) /\ SameItems(m, Best(m)) /\ SameItems(m, LastItem(m))
         /\ SameItems(m, Position(m, n)) /\ SameItems(m, ToSelected(m, n))
  <1>1. SameItems(m, m)
    BY DEF SameItems, SameWindow
  <1>2. PICK cy : ToSelected(m, n) \in {m, Vset(m, cy)}
    BY DEF ToSelected
  <1> QED
    BY <1>1, <1>2, VsetSame DEF First, Best, LastItem, Position
----------------------------------------------------------------------------
(* Selecting *)

\* The selection may be replaced by any part of it.
LEMMA KeepSound ==
  ASSUME NEW m, NEW M, NEW any, SoundList(m, M, any), NEW I
  PROVE  SoundList(Keep(m, I), M, any) /\ SoundList([m EXCEPT !.selected = <<>>], M, any)
  <1>1. /\ Only(m.selected, I) \in ListOf(M) /\ Len(Only(m.selected, I)) <= Len(m.selected)
        /\ Len(Only(m.selected, I)) \in Nat /\ Len(m.selected) \in Nat
    <2>1. m.selected \in ListOf(M)
      BY DEF SoundList
    <2>2. Only(m.selected, I) \in ListOf(M) /\ Len(Only(m.selected, I)) <= Len(m.selected)
      BY <2>1, OnlyList
    <2> QED
      BY <2>1, <2>2 DEF ListOf
  <1>2. <<>> \in ListOf(M) /\ Len(<<>>) = 0
    BY DEF ListOf, Distinct
  <1>3. DOMAIN m = ListFields
    BY DEF SoundList
  <1>4. PICK s : s = Only(m.selected, I)
    OBVIOUS
  <1>5. Keep(m, I) = [m EXCEPT !.selected = s]
    BY <1>4 DEF Keep
  <1>6. SoundList([m EXCEPT !.selected = s], M, any)
    BY <1>1, <1>3, <1>4 DEF SoundList, ListFields, Window
  <1>7. SoundList([m EXCEPT !.selected = <<>>], M, any)
    BY <1>2, <1>3 DEF SoundList, ListFields, Window
  <1> QED
    BY <1>5, <1>6, <1>7

\* Whether the user touched the selection does not bear on its soundness.
LEMMA TouchedSound ==
  ASSUME NEW m, NEW M, NEW any, SoundList(m, M, any), NEW b
  PROVE  SoundList([m EXCEPT !.touched = b], M, any)
  BY DEF SoundList, ListFields, Window

\* The current item is one of the list.
LEMMA CurrentItemOf ==
  ASSUME NEW m, NEW M, NEW any, SoundList(m, M, any), HasCurrent(m)
  PROVE  CurrentItem(m) \in {M} \X Nat /\ CurrentIndex(m) \in Nat
  <1>1. m.shown \in Seq({M} \X Nat)
    BY DEF SoundList, ListOf
  <1>2. m.cy + 1 \in 1 .. Len(m.shown)
    BY <1>1 DEF HasCurrent, Count
  <1>3. m.shown[m.cy + 1] \in {M} \X Nat
    BY <1>1, <1>2, ElementOfSeq
  <1> QED
    BY <1>3 DEF CurrentItem, ItemAt, CurrentIndex, Index

\* selectItem adds an item of the list that is not selected yet, below the limit.
LEMMA SelectItemSound ==
  ASSUME NEW m, NEW M, NEW any, SoundList(m, M, any), NEW item \in {M} \X Nat
  PROVE  SoundList(SelectItem(m, item), M, any)
  <1>1. CASE ~Room(m) \/ IsSelected(m, item)
    BY <1>1 DEF SelectItem
  <1>2. CASE Room(m) /\ ~IsSelected(m, item)
    <2>1. m.selected \in ListOf(M) /\ Index(item) \notin Indices(m.selected)
      BY <1>2 DEF SoundList, IsSelected, SelectedIndices
    <2>2. PICK s : s = Append(m.selected, item)
      OBVIOUS
    <2>3. s \in ListOf(M) /\ Len(s) = Len(m.selected) + 1
      BY <2>1, <2>2, AppendList
    <2>4. Len(m.selected) \in Nat /\ m.multi \in Nat /\ DOMAIN m = ListFields
      BY <2>1 DEF ListOf, SoundList
    <2>5. Len(s) <= m.multi
      BY <2>3, <2>4, <1>2 DEF Room
    <2>6. SoundList([[m EXCEPT !.selected = s] EXCEPT !.touched = TRUE], M, any)
      BY <2>3, <2>4, <2>5 DEF SoundList, ListFields, Window
    <2> QED
      BY <1>2, <2>2, <2>6 DEF SelectItem
  <1> QED
    BY <1>1, <1>2

\* deselectItem takes one away.
LEMMA DeselectItemSound ==
  ASSUME NEW m, NEW M, NEW any, SoundList(m, M, any), NEW item
  PROVE  SoundList(DeselectItem(m, item), M, any)
  BY KeepSound, TouchedSound DEF DeselectItem

\* The actions on the current item select and deselect items that are shown.
LEMMA ToggleSound ==
  ASSUME NEW m, NEW M, NEW any, SoundList(m, M, any)
  PROVE  /\ SoundList(Select(m), M, any) /\ SoundList(Deselect(m), M, any)
         /\ SoundList(Toggle(m), M, any) /\ SoundList(ClearSelection(m), M, any)
         /\ \A o : SoundList(ToggleMove(m, o), M, any)
  <1>1. SoundList(Toggle(m), M, any)
    <2>1. CASE CanToggle(m)
      <3>1. CurrentItem(m) \in {M} \X Nat
        BY <2>1, CurrentItemOf DEF CanToggle
      <3> QED
        BY <2>1, <3>1, SelectItemSound, DeselectItemSound DEF Toggle, ToggleItem
    <2>2. CASE ~CanToggle(m)
      BY <2>2 DEF Toggle
    <2> QED
      BY <2>1, <2>2
  <1>2. SoundList(Select(m), M, any)
    BY CurrentItemOf, SelectItemSound DEF Select
  <1>3. SoundList(Deselect(m), M, any)
    BY DeselectItemSound DEF Deselect
  <1>4. SoundList(ClearSelection(m), M, any)
    <2>1. PICK n : n = [m EXCEPT !.selected = <<>>]
      OBVIOUS
    <2>2. SoundList([n EXCEPT !.touched = TRUE], M, any)
      BY <2>1, KeepSound, TouchedSound
    <2> QED
      BY <2>1, <2>2 DEF ClearSelection
  <1>5. ASSUME NEW o PROVE SoundList(ToggleMove(m, o), M, any)
    <2>1. SoundList(Vmove(Toggle(m), o, TRUE), M, any)
      <3>1. PICK n : n = Toggle(m)
        OBVIOUS
      <3>2. SoundList(n, M, any) /\ DOMAIN n = ListFields
        BY <3>1, <1>1 DEF SoundList
      <3>3. SameItems(n, Vmove(n, o, TRUE))
        BY <3>2, VmoveSame
      <3> QED
        BY <3>1, <3>2, <3>3, SameItemsSound
    <2> QED
      BY <2>1 DEF ToggleMove
  <1> QED
    BY <1>1, <1>2, <1>3, <1>4, <1>5

\* selectItem for each item stops at the limit, and deselectItem for each.
LEMMA EachSound ==
  ASSUME NEW m, NEW M, NEW any, SoundList(m, M, any), NEW items \in ListOf(M)
  PROVE  SoundList(SelectEach(m, items), M, any) /\ SoundList(DeselectEach(m, items), M, any)
  <1>1. SoundList(SelectEach(m, items), M, any)
    <2>1. PICK others : others = Only(items, Indices(items) \ SelectedIndices(m))
      OBVIOUS
    <2>2. PICK n : n = Constrain(m.multi - Len(m.selected), 0, Len(others))
      OBVIOUS
    <2>3. PICK new : new = Before(others, n)
      OBVIOUS
    <2>4. others \in ListOf(M) /\ Indices(others) \cap Indices(m.selected) = {}
      BY <2>1, OnlyList DEF SelectedIndices
    <2>5. /\ Len(others) \in Nat /\ Len(m.selected) \in Nat /\ m.multi \in Nat
          /\ m.selected \in ListOf(M) /\ DOMAIN m = ListFields
      BY <2>4 DEF ListOf, SoundList
    <2>6. n \in 0 .. Len(others) /\ (n = 0 \/ n <= m.multi - Len(m.selected))
      BY <2>2, <2>5 DEF Constrain, Larger, Smaller
    <2>7. /\ new \in ListOf(M) /\ Len(new) = n
          /\ \A i \in 1 .. n : new[i] = others[i]
      BY <2>3, <2>4, <2>6, BeforeList
    <2>8. Indices(new) \cap Indices(m.selected) = {}
      <3>1. DOMAIN new = 1 .. n /\ DOMAIN others = 1 .. Len(others)
        BY <2>4, <2>7 DEF ListOf
      <3>2. \A i \in 1 .. n : i \in 1 .. Len(others)
        BY <2>5, <2>6
      <3>3. Indices(new) \subseteq Indices(others)
        BY <3>1, <3>2, <2>7 DEF Indices
      <3> QED
        BY <3>3, <2>4
    <2>9. m.selected \o new \in ListOf(M) /\ Len(m.selected \o new) = Len(m.selected) + n
      BY <2>5, <2>7, <2>8, ConcatList
    <2>10. PICK s, b : /\ s = m.selected \o new
                       /\ SelectEach(m, items) = [[m EXCEPT !.selected = s] EXCEPT !.touched = b]
      BY <2>1, <2>2, <2>3 DEF SelectEach
    <2>11. any \/ Len(s) <= m.multi
      BY <2>5, <2>6, <2>9, <2>10 DEF SoundList
    <2>12. SoundList([m EXCEPT !.selected = s], M, any)
      BY <2>5, <2>9, <2>10, <2>11 DEF SoundList, ListFields, Window
    <2>13. PICK k : k = [m EXCEPT !.selected = s]
      OBVIOUS
    <2>14. SoundList([k EXCEPT !.touched = b], M, any)
      BY <2>12, <2>13, TouchedSound
    <2> QED
      BY <2>10, <2>13, <2>14
  <1>2. SoundList(DeselectEach(m, items), M, any)
    BY KeepSound, TouchedSound DEF DeselectEach
  <1> QED
    BY <1>1, <1>2

\* The actions on all items of the list keep each once and stop at the limit.
LEMMA AllSound ==
  ASSUME NEW m, NEW M, NEW any, SoundList(m, M, any)
  PROVE  /\ SoundList(SelectAll(m), M, any) /\ SoundList(DeselectAll(m), M, any)
         /\ SoundList(ToggleAll(m), M, any)
  <1>1. m.result \in ListOf(M)
    BY DEF SoundList
  <1>2. SoundList(SelectAll(m), M, any) /\ SoundList(DeselectAll(m), M, any)
    BY <1>1, EachSound DEF SelectAll, DeselectAll
  <1>3. SoundList(ToggleAll(m), M, any)
    <2>1. PICK were, others : /\ were \in ListOf(M) /\ others \in ListOf(M)
                              /\ were = Only(m.result, SelectedIndices(m))
                              /\ others = Only(m.result, Indices(m.result) \ SelectedIndices(m))
      BY <1>1, OnlyList
    <2>2. SoundList(SelectEach(DeselectEach(m, were), others), M, any)
      <3>1. PICK n : n = DeselectEach(m, were)
        OBVIOUS
      <3>2. SoundList(n, M, any)
        BY <2>1, <3>1, EachSound
      <3> QED
        BY <2>1, <3>1, <3>2, EachSound
    <2> QED
      BY <2>1, <2>2 DEF ToggleAll
  <1> QED
    BY <1>2, <1>3

\* change-multi with a lower limit drops the selection, and another limit keeps it.
LEMMA ChangeMultiSound ==
  ASSUME NEW m, NEW M, NEW any, SoundList(m, M, any), NEW arg
  PROVE  SoundList(ChangeMulti(m, arg), M, any)
  <1>1. PICK multi : /\ multi = IF arg \in Nat THEN arg ELSE m.multi
                     /\ ChangeMulti(m, arg) =
                          [(IF m.multi > 0 /\ multi # m.multi
                            THEN [m EXCEPT !.selected = <<>>, !.touched = TRUE] ELSE m)
                             EXCEPT !.multi = multi]
    BY DEF ChangeMulti
  <1>2. multi \in Nat /\ m.multi \in Nat /\ DOMAIN m = ListFields /\ m.selected \in ListOf(M)
    BY <1>1 DEF SoundList
  <1>3. <<>> \in ListOf(M) /\ Len(<<>>) = 0 /\ Len(m.selected) \in Nat
    BY <1>2 DEF ListOf, Distinct
  <1>4. CASE m.multi > 0 /\ multi # m.multi
    <2>1. ChangeMulti(m, arg) = [[[m EXCEPT !.selected = <<>>] EXCEPT !.touched = TRUE] EXCEPT !.multi = multi]
      BY <1>1, <1>4
    <2> QED
      BY <2>1, <1>2, <1>3 DEF SoundList, ListFields, Window
  <1>5. CASE multi = m.multi
    <2>1. ChangeMulti(m, arg) = [m EXCEPT !.multi = multi]
      BY <1>1, <1>5
    <2> QED
      BY <2>1, <1>2, <1>5 DEF SoundList, ListFields, Window
  <1>6. CASE m.multi = 0
    <2>1. ChangeMulti(m, arg) = [m EXCEPT !.multi = multi]
      BY <1>1, <1>6
    <2>2. Len(m.selected) <= multi \/ any
      BY <1>2, <1>3, <1>6 DEF SoundList
    <2> QED
      BY <2>1, <2>2, <1>2 DEF SoundList, ListFields, Window
  <1> QED
    BY <1>4, <1>5, <1>6, <1>2

\* In and out of raw mode, the shown items are of the same list.
LEMMA SetRawSound ==
  ASSUME NEW m, NEW M, NEW any, SoundList(m, M, any), NEW raw
  PROVE  SoundList(SetRaw(m, raw), M, any)
  <1> SUFFICES ASSUME m.raw # raw PROVE SoundList(SetRaw(m, raw), M, any)
    BY DEF SetRaw
  <1>1. PICK match, k, cy, offset :
          /\ k = IF raw THEN [[m EXCEPT !.match = match] EXCEPT !.shown = m.pass]
                 ELSE [Keep(m, m.match) EXCEPT !.shown = m.result]
          /\ SetRaw(m, raw) \in {[k EXCEPT !.raw = raw],
                                 [[[k EXCEPT !.raw = raw] EXCEPT !.cy = cy] EXCEPT !.offset = offset]}
    BY DEF SetRaw
  <1>2. SoundList(k, M, any)
    <2>1. SoundList([[m EXCEPT !.match = match] EXCEPT !.shown = m.pass], M, any)
      BY DEF SoundList, ListFields, Window
    <2>2. SoundList([Keep(m, m.match) EXCEPT !.shown = m.result], M, any)
      <3>1. PICK n : n = Keep(m, m.match)
        OBVIOUS
      <3>2. SoundList(n, M, any)
        BY <3>1, KeepSound
      <3>3. SoundList([n EXCEPT !.shown = m.result], M, any)
        BY <3>2 DEF SoundList, ListFields, Window
      <3> QED
        BY <3>1, <3>3
    <2> QED
      BY <1>1, <2>1, <2>2
  <1>3. /\ SoundList([k EXCEPT !.raw = raw], M, any)
        /\ SoundList([[[k EXCEPT !.raw = raw] EXCEPT !.cy = cy] EXCEPT !.offset = offset], M, any)
    BY <1>2 DEF SoundList, ListFields, Window
  <1> QED
    BY <1>1, <1>3

\* Whatever an action does to the list, it leaves it sound.
LEMMA BrowseSound ==
  ASSUME NEW m, NEW M, NEW any, SoundList(m, M, any), NEW a, a.t \in ListNames
  PROVE  SoundList(Browse(m, a), M, any)
  <1> DEFINE Good(n) == SoundList(n, M, any)
  <1>0. DOMAIN m = ListFields
    BY DEF SoundList
  <1>1. \A dir, toMatch : Good(Move(m, dir, toMatch))
    BY <1>0, MoveSame, SameItemsSound
  <1>2. ASSUME NEW n, Good(n) PROVE Good(ConstrainList(n))
    BY <1>2, ConstrainSame, SameItemsSound DEF SoundList
  <1>3. \A n : Good(First(m)) /\ Good(Best(m)) /\ Good(LastItem(m)) /\ Good(Position(m, n)) /\ Good(ToSelected(m, n))
    BY <1>0, JumpSame, SameItemsSound
  <1>4. \A up, half : Good(Page(m, up, half))
    BY <1>0, PageSame, SameItemsSound
  <1>5. \A dir : Good(Offset(m, dir)) /\ Good(OffsetMiddle(m))
    BY <1>0, ScrollSame, SameItemsSound
  <1>6. Good(Select(m)) /\ Good(Deselect(m)) /\ Good(Toggle(m)) /\ Good(ClearSelection(m)) /\ \A o : Good(ToggleMove(m, o))
    BY ToggleSound
  <1>7. Good(SelectAll(m)) /\ Good(DeselectAll(m)) /\ Good(ToggleAll(m))
    BY AllSound
  <1>8. Good(ChangeMulti(m, a.a)) /\ \A raw : Good(SetRaw(m, raw))
    BY ChangeMultiSound, SetRawSound
  <1> HIDE DEF Good
  <1>9. CASE a.t \in {"first", "best", "last", "pos"}
    <2>1. PICK n : n = (CASE a.t = "first" -> First(m) [] a.t = "best" -> Best(m)
                          [] a.t = "last" -> LastItem(m) [] a.t = "pos" -> Position(m, a.a))
      OBVIOUS
    <2>2. Good(n)
      BY <1>3, <1>9, <2>1
    <2>3. Browse(m, a) = ConstrainList(n)
      BY <1>9, <2>1 DEF Browse
    <2> QED
      BY <1>2, <2>2, <2>3 DEF Good
  <1>10. CASE a.t \in {"up", "down", "up-match", "down-match"}
    BY <1>1, <1>10 DEF Browse, Good
  <1>11. CASE a.t \in {"page-up", "page-down", "half-page-up", "half-page-down"}
    BY <1>4, <1>11 DEF Browse, Good
  <1>12. CASE a.t \in {"offset-up", "offset-down", "offset-middle"}
    BY <1>5, <1>12 DEF Browse, Good
  <1>13. CASE a.t \in {"select", "deselect", "toggle", "toggle-up", "toggle-down", "toggle-in",
                       "toggle-out", "clear-multi"}
    BY <1>6, <1>13 DEF Browse, Good
  <1>14. CASE a.t \in {"select-all", "deselect-all", "toggle-all"}
    BY <1>7, <1>14 DEF Browse, Good
  <1>15. CASE a.t \in {"change-multi", "raw"}
    BY <1>8, <1>15 DEF Browse, Good
  <1>16. CASE a.t \in {"next-selected", "prev-selected"}
    BY <1>3, <1>16 DEF Browse, Good
  <1> QED
    BY <1>9, <1>10, <1>11, <1>12, <1>13, <1>14, <1>15, <1>16 DEF ListNames, Good
----------------------------------------------------------------------------
(* The state of an iteration of Loop *)

\* While actions run, those put off wait for the end of a search: it is UpdateList that ends a wait.
WaitFields == {"blocked", "pending", "searching"}
Waits(wait, was) ==
  /\ DOMAIN wait = WaitFields
  /\ wait.searching = was.searching
  /\ wait.pending # <<>> => wait.blocked

\* What only UpdateList changes
Like(c1, c0) ==
  /\ ControlFields \subseteq DOMAIN c1
  /\ c1.revision = c0.revision /\ c1.idNth = c0.idNth /\ c1.pendingSelections = c0.pendingSelections
  /\ Waits(c1.wait, c0.wait)

\* The command that a reload asks for
Asks(x) == "command" \in DOMAIN x /\ x.command \in {None, "plain", "sync"}

\* What every action keeps of the state of an iteration, where c0 is the control state at its beginning
Good(s, c0) == /\ DOMAIN s = {"q", "l", "c", "x"}
               /\ Like(s.c, c0) /\ Asks(s.x)
               /\ SoundList(s.l, c0.revision[1], c0.idNth)

\* Good is not about the query, and about the command only of an iteration's variables.
LEMMA GoodQ ==
  ASSUME NEW s, NEW c0, Good(s, c0)
  PROVE  /\ \A v : Good([s EXCEPT !.q = v], c0)
         /\ \A f, v : f # "command" => Good([s EXCEPT !.x = [s.x EXCEPT ![f] = v]], c0)
  <1>1. \A v : Good([s EXCEPT !.q = v], c0)
    BY DEF Good
  <1>2. ASSUME NEW f, NEW v, f # "command" PROVE Good([s EXCEPT !.x = [s.x EXCEPT ![f] = v]], c0)
    <2>1. PICK x : x = [s.x EXCEPT ![f] = v]
      OBVIOUS
    <2>2. Asks(x)
      BY <1>2, <2>1 DEF Good, Asks
    <2>3. Good([s EXCEPT !.x = x], c0)
      BY <2>2 DEF Good
    <2> QED
      BY <2>1, <2>3
  <1> QED
    BY <1>1, <1>2

\* A state with the same list and command, and a control state as Like allows, is good.
LEMMA GoodIs ==
  ASSUME NEW s, NEW c0, Good(s, c0), NEW t, DOMAIN t = {"q", "l", "c", "x"},
         t.l = s.l, t.c = s.c \/ Like(t.c, c0), t.x = s.x \/ Asks(t.x)
  PROVE  Good(t, c0)
  BY DEF Good

\* A sound list in place of the list keeps the state good.
LEMMA GoodL ==
  ASSUME NEW s, NEW c0, Good(s, c0), NEW m, SoundList(m, c0.revision[1], c0.idNth)
  PROVE  Good([s EXCEPT !.l = m], c0)
  BY DEF Good

\* So does a control state that differs in what the actions change.
LEMMA GoodC ==
  ASSUME NEW s, NEW c0, Good(s, c0), NEW c1, Like(c1, c0)
  PROVE  Good([s EXCEPT !.c = c1], c0)
  BY DEF Good

\* The other fields of the control state may change.
Changeable == {"keymapOrg", "keymap", "reading", "count", "track", "trackIndex", "trackKey",
               "trackBlocked", "trackSync", "target", "filterSelection", "triggerLoad", "paused",
               "override", "pasting", "jumping", "nth", "headerLines", "bg", "printed", "ends",
               "width", "xoffset", "focused", "lastFocus", "typed"}
\* The fields that actions change are none of those Like fixes.
LEMMA LikeField ==
  ASSUME NEW c1, NEW c0, Like(c1, c0), NEW f \in Changeable, NEW v
  PROVE  Like([c1 EXCEPT ![f] = v], c0)
  BY DEF Like, Changeable, ControlFields

\* wait may change as long as what was put off waits.
LEMMA LikeWait ==
  ASSUME NEW c1, NEW c0, Like(c1, c0), NEW w, Waits(w, c0.wait)
  PROVE  Like([c1 EXCEPT !.wait = w], c0)
  BY DEF Like, ControlFields

\* unblockTrack changes none of those either.
LEMMA LikeUnblock ==
  ASSUME NEW c1, NEW c0, Like(c1, c0)
  PROVE  Like(UnblockTrack(c1), c0)
  BY DEF Like, UnblockTrack, ControlFields

\* An action that sets one of the fields it may set keeps the state good.
LEMMA GoodField ==
  ASSUME NEW s, NEW c0, Good(s, c0), NEW f \in Changeable, NEW v
  PROVE  Good([s EXCEPT !.c = [s.c EXCEPT ![f] = v]], c0)
  <1>1. Like([s.c EXCEPT ![f] = v], c0)
    BY LikeField DEF Good
  <1> QED
    BY <1>1, GoodC

\* The actions that start and stop tracking keep the state good.
LEMMA GoodTrack ==
  ASSUME NEW s, NEW c0, Good(s, c0)
  PROVE  /\ Good([s EXCEPT !.c = UnblockTrack(s.c)], c0)
         /\ \A v : Good([s EXCEPT !.c = UnblockTrack([s.c EXCEPT !.track = v])], c0)
         /\ Good(TrackCurrent(s), c0)
  <1>1. Like(s.c, c0) /\ \A v : Like([s.c EXCEPT !.track = v], c0)
    BY LikeField DEF Good, Changeable
  <1>2. Like(UnblockTrack(s.c), c0) /\ \A v : Like(UnblockTrack([s.c EXCEPT !.track = v]), c0)
    BY <1>1, LikeUnblock
  <1>3. Good(TrackCurrent(s), c0)
    <2>1. PICK t : t = [s EXCEPT !.c.track = "current"]
      OBVIOUS
    <2>2. Good(t, c0)
      BY <2>1, GoodField DEF Changeable
    <2>3. PICK i : TrackCurrent(s) = [t EXCEPT !.c.trackIndex = i]
      <3>1. DOMAIN s = {"q", "l", "c", "x"}
        BY DEF Good
      <3> QED
        BY <2>1, <3>1 DEF TrackCurrent
    <2> QED
      BY <2>2, <2>3, GoodField DEF Changeable
  <1> QED
    BY <1>2, <1>3, GoodC

\* The actions that end the terminal, ask for a search or clear the query
LEMMA EndGood ==
  ASSUME NEW s, NEW c0, Good(s, c0), NEW how
  PROVE  Good(End(s, how), c0) /\ Good(Changed(s), c0) /\ Good(Cancelled(s), c0)
         /\ \A items : Good(Excluding(s, items), c0)
  <1>1. Good(End(s, how), c0)
    BY GoodField DEF End, Changeable
  <1>2. Good(End(s, "quit"), c0)
    BY GoodField DEF End, Changeable
  <1>3. Good(Changed(s), c0)
    BY GoodQ DEF Changed
  <1>4. Good(Cancelled(s), c0)
    BY <1>2, GoodQ DEF Cancelled
  <1>5. ASSUME NEW items PROVE Good(Excluding(s, items), c0)
    <2>1. PICK t : t = Changed(s)
      OBVIOUS
    <2>2. Good([t EXCEPT !.x.deny = @ \cup Indices(items)], c0)
      BY <1>3, <2>1, GoodQ
    <2> QED
      BY <2>1, <2>2 DEF Excluding
  <1> QED
    BY <1>1, <1>3, <1>4, <1>5
\* A reload, which may block the list until the tracked key is back
LEMMA ReloadGood ==
  ASSUME NEW s, NEW c0, Good(s, c0), NEW sync, NEW needsItem
  PROVE  Good(Reload(s, sync, needsItem), c0)
  <1>1. PICK key : Reload(s, sync, needsItem) \in
          {s,
           [[s EXCEPT !.x.command = IF sync THEN "sync" ELSE "plain"]
              EXCEPT !.c = [[s.c EXCEPT !.reading = TRUE] EXCEPT !.trackSync = IF s.c.idNth THEN sync ELSE @]],
           [[s EXCEPT !.x.command = IF sync THEN "sync" ELSE "plain"]
              EXCEPT !.c = [[[[s.c EXCEPT !.reading = TRUE] EXCEPT !.trackSync = IF s.c.idNth THEN sync ELSE @]
                               EXCEPT !.trackKey = key] EXCEPT !.trackBlocked = TRUE]]}
    <2>1. DOMAIN s = {"q", "l", "c", "x"} /\ ControlFields \subseteq DOMAIN s.c
      BY DEF Good, Like
    <2> QED
      BY <2>1 DEF Reload, ControlFields
  <1>2. PICK t : t = [s EXCEPT !.x.command = IF sync THEN "sync" ELSE "plain"]
    OBVIOUS
  <1>3. Good(t, c0)
    <2>1. Asks(t.x)
      BY <1>2 DEF Good, Asks
    <2>2. DOMAIN t = {"q", "l", "c", "x"} /\ t.l = s.l /\ t.c = s.c
      BY <1>2 DEF Good
    <2> QED
      BY <2>1, <2>2, GoodIs
  <1>4. PICK c1 : c1 = [s.c EXCEPT !.reading = TRUE]
    OBVIOUS
  <1>5. PICK c2 : c2 = [c1 EXCEPT !.trackSync = IF s.c.idNth THEN sync ELSE @]
    OBVIOUS
  <1>6. PICK c3 : c3 = [c2 EXCEPT !.trackKey = key]
    OBVIOUS
  <1>7. Like(c1, c0)
    BY <1>4, LikeField DEF Good, Changeable
  <1>8. Like(c2, c0)
    BY <1>5, <1>7, LikeField DEF Changeable
  <1>9. Like(c3, c0) /\ Like([c3 EXCEPT !.trackBlocked = TRUE], c0)
    <2>1. Like(c3, c0)
      BY <1>6, <1>8, LikeField DEF Changeable
    <2> QED
      BY <2>1, LikeField DEF Changeable
  <1>10. Good([t EXCEPT !.c = c2], c0) /\ Good([t EXCEPT !.c = [c3 EXCEPT !.trackBlocked = TRUE]], c0)
    BY <1>3, <1>8, <1>9, GoodC
  <1>11. Reload(s, sync, needsItem) \in {s, [t EXCEPT !.c = c2], [t EXCEPT !.c = [c3 EXCEPT !.trackBlocked = TRUE]]}
    BY <1>1, <1>2, <1>4, <1>5, <1>6
  <1> QED
    BY <1>10, <1>11

\* Actions are put off with a block, or joined to those put off already; a cancellation drops them.
LEMMA WaitGood ==
  ASSUME NEW s, NEW c0, Good(s, c0), NEW actions
  PROVE  /\ Good(BlockWait(s, actions), c0) /\ Good(CancelWait(s), c0)
         /\ s.c.wait.blocked => Good(DeferActions(s, actions), c0)
  <1>1. PICK was, w1, w2, w3 :
          /\ was = s.c.wait
          /\ w1 = [was EXCEPT !.blocked = TRUE, !.pending = actions]
          /\ w2 = [was EXCEPT !.blocked = FALSE, !.pending = <<>>]
          /\ w3 = [was EXCEPT !.pending = @ \o actions]
    OBVIOUS
  <1>2. Like(s.c, c0) /\ Waits(was, c0.wait)
    BY <1>1 DEF Good, Like
  <1>3. Waits(w1, c0.wait) /\ Waits(w2, c0.wait) /\ (was.blocked => Waits(w3, c0.wait))
    BY <1>1, <1>2 DEF Waits, WaitFields
  <1>4. ASSUME NEW w, Waits(w, c0.wait) PROVE Good([s EXCEPT !.c = [s.c EXCEPT !.wait = w]], c0)
    BY <1>2, <1>4, LikeWait, GoodC
  <1>5. /\ BlockWait(s, actions) = [s EXCEPT !.c = [s.c EXCEPT !.wait = w1]]
        /\ CancelWait(s) = [s EXCEPT !.c = [s.c EXCEPT !.wait = w2]]
        /\ DeferActions(s, actions) = [s EXCEPT !.c = [s.c EXCEPT !.wait = w3]]
    BY <1>1 DEF BlockWait, CancelWait, DeferActions
  <1>6. /\ Good([s EXCEPT !.c = [s.c EXCEPT !.wait = w1]], c0)
        /\ Good([s EXCEPT !.c = [s.c EXCEPT !.wait = w2]], c0)
    BY <1>3, <1>4
  <1>7. was.blocked => Good([s EXCEPT !.c = [s.c EXCEPT !.wait = w3]], c0)
    BY <1>3, <1>4
  <1>8. was = s.c.wait
    BY <1>1
  <1> HIDE DEF Good
  <1> QED
    BY ONLY <1>5, <1>6, <1>7, <1>8

\* The actions of Control that set fields of the control state, that reduce the list and that track
ChangesField == {"print", "enable-search", "disable-search", "search", "paste-begin", "paste-end",
  "jump", "jump-accept", "unbind", "rebind", "toggle-bind", "bg-transform", "bg-cancel",
  "change-nth", "change-with-nth", "toggle-search"}
ChangesList == {"exclude", "exclude-multi", "change-header-lines"}
ChangesTrack == {"toggle-track", "toggle-track-current", "track-current", "untrack-current"}

\* The actions that set fields of the control state, or ask the coordinator for a search
LEMMA ControlFieldGood ==
  ASSUME NEW s, NEW c0, Good(s, c0), NEW a, a.t \in ChangesField
  PROVE  Good(Control(s, a), c0)
  <1>0. DOMAIN s = {"q", "l", "c", "x"}
    BY DEF Good
  <1>1. \A f \in Changeable : \A v : Good([s EXCEPT !.c = [s.c EXCEPT ![f] = v]], c0)
    BY GoodField
  <1>2. ASSUME NEW f \in Changeable, NEW v
        PROVE  Good(Changed([s EXCEPT !.c = [s.c EXCEPT ![f] = v]]), c0)
    <2>1. PICK t : t = [s EXCEPT !.c = [s.c EXCEPT ![f] = v]]
      OBVIOUS
    <2>2. Good(t, c0)
      BY <1>1, <2>1
    <2> QED
      BY <2>1, <2>2, EndGood
  <1>3. CASE a.t \in {"print", "disable-search", "paste-begin", "jump", "jump-accept", "unbind",
                      "rebind", "toggle-bind", "bg-transform", "bg-cancel"}
    <2>1. PICK f \in Changeable : \E v : Control(s, a) = [s EXCEPT !.c = [s.c EXCEPT ![f] = v]]
      BY <1>3, ZenonT(60) DEF Control, Changeable
    <2>2. PICK v : Control(s, a) = [s EXCEPT !.c = [s.c EXCEPT ![f] = v]]
      BY <2>1
    <2> QED
      BY <2>2, <1>1
  <1>4. CASE a.t \in {"enable-search", "search", "change-nth", "change-with-nth"}
    <2>1. PICK f \in Changeable : \E v : Control(s, a) \in {s, Changed([s EXCEPT !.c = [s.c EXCEPT ![f] = v]])}
      BY <1>4, ZenonT(60) DEF Control, Changeable
    <2>2. PICK v : Control(s, a) \in {s, Changed([s EXCEPT !.c = [s.c EXCEPT ![f] = v]])}
      BY <2>1
    <2> QED
      BY <2>2, <1>2
  <1>5. CASE a.t = "toggle-search"
    <2>1. /\ DOMAIN Control(s, a) = {"q", "l", "c", "x"} /\ Control(s, a).l = s.l
          /\ Control(s, a).c = [s.c EXCEPT !["paused"] = ~s.c.paused]
          /\ Control(s, a).x = [s.x EXCEPT !.changed = s.c.paused]
      BY <1>0, <1>5 DEF Control
    <2>2. Like([s.c EXCEPT !["paused"] = ~s.c.paused], c0)
      BY LikeField DEF Good, Changeable
    <2>3. Asks(Control(s, a).x)
      BY <2>1 DEF Good, Asks
    <2> QED
      BY <2>1, <2>2, <2>3, GoodIs
  <1>6. CASE a.t = "paste-end"
    <2>1. \/ Control(s, a) = s
          \/ /\ DOMAIN Control(s, a) = {"q", "l", "c", "x"} /\ Control(s, a).l = s.l
             /\ Control(s, a).c = [s.c EXCEPT !["pasting"] = <<>>]
             /\ Control(s, a).x = [s.x EXCEPT !.queryChanged = Text(s.q) # s.c.pasting[1]]
      BY <1>0, <1>6 DEF Control
    <2>2. Like([s.c EXCEPT !["pasting"] = <<>>], c0)
      BY LikeField DEF Good, Changeable
    <2>3. Control(s, a) = s \/ Asks(Control(s, a).x)
      BY <2>1 DEF Good, Asks
    <2> QED
      BY <2>1, <2>2, <2>3, GoodIs
  <1> QED
    BY <1>3, <1>4, <1>5, <1>6 DEF ChangesField

\* The actions that clear or reduce the selection as they ask for another list
LEMMA ControlListGood ==
  ASSUME NEW s, NEW c0, Good(s, c0), NEW a, a.t \in ChangesList
  PROVE  Good(Control(s, a), c0)
  <1> DEFINE M == c0.revision[1]
             any == c0.idNth
  <1>0. DOMAIN s = {"q", "l", "c", "x"} /\ SoundList(s.l, M, any)
    BY DEF Good
  <1>1. CASE a.t = "exclude"
    <2>1. PICK t, items : /\ t = [s EXCEPT !.l = DeselectItem(s.l, CurrentItem(s.l))]
                          /\ Control(s, a) \in {s, Excluding(t, items)}
      BY <1>1 DEF Control
    <2>2. Good(t, c0)
      BY <1>0, <2>1, DeselectItemSound, GoodL
    <2> QED
      BY <2>1, <2>2, EndGood
  <1>2. CASE a.t = "exclude-multi"
    <2>1. PICK n : n = [s.l EXCEPT !.selected = <<>>]
      OBVIOUS
    <2>2. SoundList([n EXCEPT !.touched = TRUE], M, any)
      BY <1>0, <2>1, KeepSound, TouchedSound
    <2>3. PICK t, items : /\ t = s \/ t = [s EXCEPT !.l = [n EXCEPT !.touched = TRUE]]
                          /\ Control(s, a) = Excluding(t, items)
      BY <1>0, <1>2, <2>1 DEF Control
    <2>4. Good([s EXCEPT !.l = [n EXCEPT !.touched = TRUE]], c0)
      BY <2>2, GoodL
    <2>5. Good(t, c0)
      BY <2>3, <2>4
    <2> QED
      BY <2>3, <2>5, EndGood
  <1>3. CASE a.t = "change-header-lines"
    <2>1. PICK I, v, w : Control(s, a) \in
            {s, Changed([[[s EXCEPT !.c = [s.c EXCEPT !.headerLines = v]]
                            EXCEPT !.c.target = w] EXCEPT !.l = Keep(s.l, I)])}
      BY <1>0, <1>3 DEF Control
    <2>2. PICK t : t = [s EXCEPT !.c = [s.c EXCEPT !.headerLines = v]]
      OBVIOUS
    <2>3. PICK u : u = [t EXCEPT !.c.target = w]
      OBVIOUS
    <2>4. PICK n : n = Keep(s.l, I)
      OBVIOUS
    <2>5. Good(t, c0)
      BY <2>2, GoodField DEF Changeable
    <2>6. Good(u, c0)
      BY <2>3, <2>5, GoodField DEF Changeable
    <2>7. Good([u EXCEPT !.l = n], c0)
      BY <1>0, <2>4, <2>6, KeepSound, GoodL
    <2>8. Control(s, a) \in {s, Changed([u EXCEPT !.l = n])}
      BY <2>1, <2>2, <2>3, <2>4
    <2> QED
      BY <2>7, <2>8, EndGood
  <1> QED
    BY <1>1, <1>2, <1>3 DEF ChangesList

\* The actions on tracking
LEMMA ControlTrackGood ==
  ASSUME NEW s, NEW c0, Good(s, c0), NEW a, a.t \in ChangesTrack
  PROVE  Good(Control(s, a), c0)
  <1>1. CASE a.t \in {"toggle-track", "untrack-current"}
    <2>1. PICK v, t : /\ t = [s EXCEPT !.c = UnblockTrack([s.c EXCEPT !.track = v])]
                      /\ Control(s, a) = t
      BY <1>1 DEF Control
    <2>2. Good([s EXCEPT !.c = UnblockTrack([s.c EXCEPT !.track = v])], c0)
      BY GoodTrack
    <2> QED
      BY <2>1, <2>2
  <1>2. CASE a.t = "toggle-track-current"
    <2>1. PICK t : /\ t = (CASE s.c.track = "current" -> [s EXCEPT !.c.track = "off"]
                             [] s.c.track = "off" -> TrackCurrent(s)
                             [] OTHER -> s)
                   /\ Control(s, a) = [t EXCEPT !.c = UnblockTrack(t.c)]
      BY <1>2 DEF Control
    <2>2. Good([s EXCEPT !.c.track = "off"], c0) /\ Good(TrackCurrent(s), c0)
      BY GoodField, GoodTrack DEF Changeable
    <2>3. Good(t, c0)
      BY <2>1, <2>2
    <2> QED
      BY <2>1, <2>3, GoodTrack
  <1>3. CASE a.t = "track-current"
    BY <1>3, GoodTrack DEF Control
  <1> QED
    BY <1>1, <1>2, <1>3 DEF ChangesTrack

\* Every action of doAction that is neither the query's nor the list's
LEMMA ControlGood ==
  ASSUME NEW s, NEW c0, Good(s, c0), NEW a
  PROVE  Good(Control(s, a), c0)
  <1> DEFINE Ends == {"accept", "accept-non-empty", "accept-or-print-query", "print-query", "abort",
                      "cancel", "toggle-sort"}
             Edits == {"delete-char/eof", "backward-delete-char/eof", "toggle-input"}
             Reloads == {"reload", "reload-sync"}
  <1>1. CASE a.t \in Ends
    <2>1. \A how : Good(End(s, how), c0)
      BY EndGood
    <2> QED
      BY <1>1, <2>1, EndGood DEF Control
  <1>2. CASE a.t \in Edits
    <2>1. PICK v, t : t = [s EXCEPT !.q = v] /\ (Control(s, a) = s \/ Control(s, a) = End(s, "quit") \/ Control(s, a) = t)
      BY <1>2 DEF Control
    <2>2. Good(t, c0) /\ Good(End(s, "quit"), c0)
      BY <2>1, GoodQ, EndGood
    <2> QED
      BY <2>1, <2>2
  <1>3. CASE a.t \in Reloads
    BY <1>3, ReloadGood DEF Control
  <1>4. CASE a.t \notin Ends \cup Edits \cup Reloads \cup ChangesField \cup ChangesList \cup ChangesTrack
    BY <1>4 DEF Control, ChangesField, ChangesList, ChangesTrack
  <1> QED
    BY <1>1, <1>2, <1>3, <1>4, ControlFieldGood, ControlListGood, ControlTrackGood

\* What one action does, besides running other actions, keeps the state good.
LEMMA EffectGood ==
  ASSUME NEW s, NEW c0, Good(s, c0), NEW a
  PROVE  Good(Effect(s, a), c0)
  <1>0. SoundList(s.l, c0.revision[1], c0.idNth) /\ DOMAIN s = {"q", "l", "c", "x"}
    BY DEF Good
  <1>5. /\ \A n \in EditNames : n \notin RuboutNames /\ n \notin ListNames
        /\ \A n \in RuboutNames : n \notin ListNames
    BY DEF EditNames, RuboutNames, ListNames
  <1>1. CASE a.t \in EditNames
    <2>1. Effect(s, a) = [s EXCEPT !.q = Edit(s, a)]
      BY <1>1, <1>5 DEF Effect
    <2>2. Good([s EXCEPT !.q = Edit(s, a)], c0)
      BY GoodQ
    <2> QED
      BY <2>1, <2>2
  <1>2. CASE a.t \in RuboutNames /\ a.t \notin EditNames
    <2>1. PICK v : /\ DOMAIN Effect(s, a) = {"q", "l", "c", "x"}
                   /\ Effect(s, a).l = s.l /\ Effect(s, a).c = s.c
                   /\ Effect(s, a).x = [s.x EXCEPT !.beof = v]
      BY <1>0, <1>2, <1>5 DEF Effect
    <2>2. Asks(Effect(s, a).x)
      BY <2>1 DEF Good, Asks
    <2> QED
      BY <2>1, <2>2, GoodIs
  <1>3. CASE a.t \in ListNames /\ a.t \notin EditNames /\ a.t \notin RuboutNames
    BY <1>0, <1>3, BrowseSound, GoodL DEF Effect
  <1>4. CASE a.t \notin EditNames /\ a.t \notin RuboutNames /\ a.t \notin ListNames
    BY <1>4, ControlGood DEF Effect
  <1> QED
    BY <1>1, <1>2, <1>3, <1>4
----------------------------------------------------------------------------
(* Lists of actions, run one in the other *)

\* An action that the switch refuses to run keeps the state good.
LEMMA RefuseGood ==
  ASSUME NEW s, NEW c0, Good(s, c0), NEW a
  PROVE  Good(Refuse(s, a), c0)
  BY WaitGood, GoodTrack DEF Refuse

\* What follows the switch of doAction for the last of a round keeps the state good.
LEMMA DoneGood ==
  ASSUME NEW s, NEW c0, Good(s, c0), NEW p
  PROVE  Good(Done(p, s), c0)
  <1>0. DOMAIN s = {"q", "l", "c", "x"}
    BY DEF Good
  <1>1. Good([s EXCEPT !.c.override = None], c0)
    BY GoodField DEF Changeable
  <1>2. CASE s.q.inputless
    <2>1. /\ DOMAIN Done(p, s) = {"q", "l", "c", "x"}
          /\ Done(p, s).l = s.l /\ Done(p, s).c = s.c
          /\ Done(p, s).x = [s.x EXCEPT !.beof = FALSE]
      BY <1>0, <1>2 DEF Done
    <2>2. Asks(Done(p, s).x)
      BY <2>1 DEF Good, Asks
    <2> QED
      BY <2>1, <2>2, GoodIs
  <1>3. CASE ~s.q.inputless
    <2>1. Done(p, s) = IF Text(s.q) # Text(p) THEN [s EXCEPT !.c.override = None] ELSE s
      BY <1>3 DEF Done
    <2> QED
      BY <2>1, <1>1
  <1> QED
    BY <1>2, <1>3

\* A call leaves the state alone, and a click on the list only moves the cursor.
LEMMA NestGood ==
  ASSUME NEW s, NEW c0, Good(s, c0), NEW a, a.t \in Nesting, NEW calls
  PROVE  Good(Nest(s, a, calls).s, c0)
  <1>0. DOMAIN s = {"q", "l", "c", "x"} /\ SoundList(s.l, c0.revision[1], c0.idNth)
    BY DEF Good
  <1>1. CASE a.t = "click"
    <2>1. PICK n : Nest(s, a, calls).s = [s EXCEPT !.l = Vset(s.l, n)]
      BY <1>1 DEF Nest, Call, Machine
    <2>2. SoundList(Vset(s.l, n), c0.revision[1], c0.idNth)
      <3>1. SameItems(s.l, Vset(s.l, n))
        BY <1>0, VsetSame DEF SoundList
      <3> QED
        BY <1>0, <3>1, SameItemsSound
    <2>3. Good([s EXCEPT !.l = Vset(s.l, n)], c0)
      BY <2>2, GoodL
    <2> QED
      BY <2>1, <2>3
  <1>2. CASE a.t \in {"transform", "trigger"}
    <2>1. Nest(s, a, calls).s = s
      BY <1>2 DEF Nest, Call, Machine
    <2> QED
      BY <2>1
  <1>3. CASE a.t = "async"
    <2>1. /\ DOMAIN Nest(s, a, calls).s = {"q", "l", "c", "x"}
          /\ Nest(s, a, calls).s.l = s.l /\ Nest(s, a, calls).s.c = s.c
          /\ Nest(s, a, calls).s.x = [s.x EXCEPT !.inBg = TRUE]
      BY <1>0, <1>3 DEF Nest, Machine
    <2>2. Asks(Nest(s, a, calls).s.x)
      BY <2>1 DEF Good, Asks
    <2> QED
      BY <2>1, <2>2, GoodIs
  <1> QED
    BY <1>1, <1>2, <1>3 DEF Nesting

\* A step of the machine, doAction on one action, keeps the state good.
LEMMA DoActionGood ==
  ASSUME NEW s, NEW c0, Good(s, c0), NEW a, NEW calls
  PROVE  Good(DoAction(s, a, calls).s, c0)
  <1>1. CASE Refused(s, a)
    BY <1>1, RefuseGood DEF DoAction, Machine
  <1>2. CASE ~Refused(s, a) /\ a.t \in Nesting
    <2>1. PICK rest : DoAction(s, a, calls) = Nest(s, a, rest)
      BY <1>2 DEF DoAction
    <2> QED
      BY <1>2, <2>1, NestGood
  <1>3. CASE ~Refused(s, a) /\ a.t \notin Nesting
    <2>1. DoAction(s, a, calls).s = Done(s.q, Effect(s, a))
      BY <1>3 DEF DoAction, Machine
    <2>2. Good(Effect(s, a), c0)
      BY EffectGood
    <2> QED
      BY <2>1, <2>2, DoneGood
  <1> QED
    BY <1>1, <1>2, <1>3

\* One step of the machine: the rest of a list of actions
LEMMA RunListGood ==
  ASSUME NEW s, NEW c0, Good(s, c0), NEW g, NEW calls
  PROVE  Good(RunList(s, g, calls).s, c0)
  <1>0. \A actions : /\ Good(BlockWait(s, actions), c0)
                     /\ s.c.wait.blocked => Good(DeferActions(s, actions), c0)
    BY WaitGood
  <1>1. Good(EndRound(s, g, calls).s, c0)
    <2>1. Good(Focused(s), c0)
      BY GoodField DEF Focused, Changeable
    <2>2. EndRound(s, g, calls).s \in {s, Focused(s)}
      BY DEF EndRound, Machine
    <2> QED
      BY <2>1, <2>2
  <1>2. ASSUME NEW rest PROVE Good(Wait(s, rest, calls).s, c0)
    <2>1. \/ Wait(s, rest, calls).s \in {s, BlockWait(s, rest.actions)}
          \/ s.c.wait.blocked /\ Wait(s, rest, calls).s = DeferActions(s, rest.actions)
      BY DEF Wait, Machine
    <2> QED
      BY <2>1, <1>0
  <1>3. \A a, rest : Good(DoAction(s, a, rest).s, c0)
    BY DoActionGood
  <1>4. PICK actions, rest, a, more :
          \/ RunList(s, g, calls) \in {EndRound(s, g, calls), Wait(s, rest, calls), DoAction(s, a, more)}
          \/ s.c.wait.blocked /\ RunList(s, g, calls) = Machine(DeferActions(s, actions), calls)
    BY DEF RunList, Armed
  <1>5. s.c.wait.blocked => Good(Machine(DeferActions(s, actions), calls).s, c0)
    BY <1>0 DEF Machine
  <1> QED
    BY <1>1, <1>2, <1>3, <1>4, <1>5

\* One step of the machine: the rest of the keys of a trigger
LEMMA RunKeysGood ==
  ASSUME NEW s, NEW c0, Good(s, c0), NEW g, NEW calls
  PROVE  Good(RunKeys(s, g, calls).s, c0)
  <1>0. DOMAIN s = {"q", "l", "c", "x"}
    BY DEF Good
  <1>1. PICK t : t = [s EXCEPT !.x.triggering = g.triggering]
    OBVIOUS
  <1>2. PICK u : u = [t EXCEPT !.x.triggering = @ \cup {Head(g.keys)}]
    OBVIOUS
  <1>3. Good(t, c0)
    BY <1>1, GoodQ
  <1>4. Good(u, c0)
    BY <1>2, <1>3, GoodQ
  <1>5. \A actions : t.c.wait.blocked => Good(DeferActions(t, actions), c0)
    BY <1>3, WaitGood
  <1>6. PICK actions : \/ RunKeys(s, g, calls).s \in {t, u}
                       \/ t.c.wait.blocked /\ RunKeys(s, g, calls).s = DeferActions(t, actions)
    BY <1>1, <1>2 DEF RunKeys, Armed, Call, Machine
  <1> QED
    BY <1>3, <1>4, <1>5, <1>6

\* One step of the machine: the rest of the callbacks of background commands
LEMMA RunJobsGood ==
  ASSUME NEW s, NEW c0, Good(s, c0), NEW g, NEW calls
  PROVE  Good(RunJobs(s, g, calls).s, c0)
  <1>1. Good([s EXCEPT !.x.inBg = FALSE], c0)
    BY GoodQ
  <1>2. RunJobs(s, g, calls).s = s \/ RunJobs(s, g, calls).s = [s EXCEPT !.x.inBg = FALSE]
    BY DEF RunJobs, Call, Machine
  <1> QED
    BY <1>1, <1>2

\* One step of the machine, whatever its frames are
LEMMA ContinueGood ==
  ASSUME NEW s, NEW c0, Good(s, c0), NEW g, NEW calls
  PROVE  Good(Continue(s, g, calls).s, c0)
  <1>1. Good(RunList(s, g, calls).s, c0) /\ Good(RunKeys(s, g, calls).s, c0) /\ Good(RunJobs(s, g, calls).s, c0)
    BY RunListGood, RunKeysGood, RunJobsGood
  <1>2. Good(Machine(Done(g.q, s), calls).s, c0)
    BY DoneGood DEF Machine
  <1> QED
    BY <1>1, <1>2 DEF Continue

\* The steps of the machine are the values of a recursive function, which exists.
LEMMA RunDef ==
  ASSUME NEW m
  PROVE  \E r : /\ r = [n \in 0 .. MaxSteps |->
                          IF n = 0 THEN m
                          ELSE IF r[n - 1].calls = <<>> THEN r[n - 1]
                          ELSE Continue(r[n - 1].s, Head(r[n - 1].calls), Tail(r[n - 1].calls))]
                /\ Run(m) = r[MaxSteps]
  <1> DEFINE Next1(so) == IF so.calls = <<>> THEN so ELSE Continue(so.s, Head(so.calls), Tail(so.calls))
             Step(r, n) == IF n = 0 THEN m ELSE Next1(r[n - 1])
             Fits(r, N) == r = [n \in 0 .. N |-> Step(r, n)]
             Bad == {N \in 0 .. MaxSteps : ~\E r : Fits(r, N)}
             r0 == CHOOSE r : Fits(r, MaxSteps)
  <1>0. MaxSteps \in Nat
    BY TerminalAssumption
  <1>1. Bad = {}
    <2> SUFFICES ASSUME Bad # {} PROVE FALSE
      OBVIOUS
    <2>1. PICK N \in Bad : \A n \in Bad : N <= n
      <3>1. Bad \in SUBSET Nat
        BY <1>0
      <3> HIDE DEF Bad
      <3> QED
        BY <3>1, LeastNat
    <2>2. N \in 0 .. MaxSteps /\ ~\E r : Fits(r, N)
      OBVIOUS
    <2> HIDE DEF Next1
    <2>3. Fits([n \in 0 .. 0 |-> m], 0)
      OBVIOUS
    <2> HIDE DEF Fits
    <2>4. N # 0
      BY <2>2, <2>3
    <2>5. N - 1 \in 0 .. MaxSteps /\ N \in Nat /\ ~(N <= N - 1)
      BY <2>2, <2>4, <1>0
    <2>6. PICK r : Fits(r, N - 1)
      BY <2>1, <2>5
    <2> USE DEF Fits
    <2> DEFINE k == [n \in 0 .. N |-> IF n = N THEN Next1(r[N - 1]) ELSE r[n]]
    <2>7. ASSUME NEW n \in 0 .. N PROVE k[n] = Step(k, n)
      <3>1. CASE n = N
        BY <3>1, <2>4, <2>5
      <3>2. CASE n = 0
        BY <3>2, <2>4, <2>5, <2>6
      <3>3. CASE n # N /\ n # 0
        <4>1. n \in 0 .. N - 1 /\ n - 1 \in 0 .. N /\ n - 1 # N
          BY <3>3, <2>5
        <4>2. r[n] = Step(r, n)
          BY <4>1, <2>6
        <4> QED
          BY <4>1, <4>2, <3>3
      <3> QED
        BY <3>1, <3>2, <3>3
    <2>8. Fits(k, N)
      BY <2>7
    <2> QED
      BY <2>2, <2>8
  <1>2. \E r : Fits(r, MaxSteps)
    <2> HIDE DEF Fits
    <2>1. MaxSteps \in 0 .. MaxSteps
      BY <1>0
    <2> QED
      BY <2>1, <1>1
  <1>3. Fits(r0, MaxSteps)
    BY <1>2
  <1>4. Run(m) = r0[MaxSteps]
    BY DEF Run
  <1> QED
    BY <1>3, <1>4

\* Any number of steps of the machine keep the state good, up to the bound on its steps.
LEMMA RunGood ==
  ASSUME NEW m, NEW c0, Good(m.s, c0)
  PROVE  Good(Run(m).s, c0)
  <1>1. PICK r : /\ r = [n \in 0 .. MaxSteps |->
                          IF n = 0 THEN m
                          ELSE IF r[n - 1].calls = <<>> THEN r[n - 1]
                          ELSE Continue(r[n - 1].s, Head(r[n - 1].calls), Tail(r[n - 1].calls))]
                 /\ Run(m) = r[MaxSteps]
    BY RunDef
  <1>2. MaxSteps \in Nat
    BY TerminalAssumption
  <1>3. /\ r[0] = m
        /\ \A n \in 1 .. MaxSteps :
             \/ r[n] = r[n - 1]
             \/ r[n] = Continue(r[n - 1].s, Head(r[n - 1].calls), Tail(r[n - 1].calls))
    <2>1. \A n \in 0 .. MaxSteps :
            r[n] = IF n = 0 THEN m
                   ELSE IF r[n - 1].calls = <<>> THEN r[n - 1]
                   ELSE Continue(r[n - 1].s, Head(r[n - 1].calls), Tail(r[n - 1].calls))
      BY <1>1
    <2>2. 0 \in 0 .. MaxSteps /\ \A n \in 1 .. MaxSteps : n \in 0 .. MaxSteps /\ n # 0
      BY <1>2
    <2> QED
      BY <2>1, <2>2
  <1> DEFINE Bad == {n \in 0 .. MaxSteps : ~Good(r[n].s, c0)}
  <1>4. Bad = {}
    <2> SUFFICES ASSUME Bad # {} PROVE FALSE
      OBVIOUS
    <2>1. PICK n \in Bad : \A k \in Bad : n <= k
      <3>1. Bad \in SUBSET Nat
        BY <1>2
      <3> HIDE DEF Bad
      <3> QED
        BY <3>1, LeastNat
    <2>2. n \in 0 .. MaxSteps /\ ~Good(r[n].s, c0)
      OBVIOUS
    <2>3. n # 0
      BY <2>2, <1>3
    <2>4. n \in 1 .. MaxSteps /\ n - 1 \in 0 .. MaxSteps /\ ~(n <= n - 1)
      BY <2>2, <2>3, <1>2
    <2>5. Good(r[n - 1].s, c0)
      BY <2>1, <2>4
    <2> QED
      BY <2>2, <2>4, <2>5, <1>3, ContinueGood
  <1>5. MaxSteps \in 0 .. MaxSteps
    BY <1>2
  <1> QED
    BY <1>1, <1>4, <1>5

\* doActions, whatever the actions are
LEMMA DoActionsGood ==
  ASSUME NEW s, NEW c0, Good(s, c0), NEW actions
  PROVE  Good(DoActions(s, actions), c0)
  <1>1. PICK m : m = Run(Call(s, actions, <<>>))
    OBVIOUS
  <1>2. Call(s, actions, <<>>).s = s
    BY DEF Call, Machine
  <1>3. Good(m.s, c0)
    BY <1>1, <1>2, RunGood
  <1>4. Good([m.s EXCEPT !.x.stuck = @ \/ m.calls # <<>>], c0)
    BY <1>3, GoodQ
  <1> QED
    BY <1>1, <1>4 DEF DoActions, Outcome

\* A key event with no binding does nothing, and one with a binding runs its actions.
LEMMA FireGood ==
  ASSUME NEW s, NEW c0, Good(s, c0), NEW key
  PROVE  Good(Fire(s, key), c0)
  BY DoActionsGood DEF Fire
----------------------------------------------------------------------------
(* An iteration of Loop *)

\* Between two iterations: a sound list of the revision that the terminal shows, and without
\* --id-nth no selection to be restored.
SelectionInv ==
  /\ SoundList(l, c.revision[1], c.idNth)
  /\ ControlFields \subseteq DOMAIN c
  /\ c.idNth \/ c.pendingSelections = {}
  /\ DOMAIN c.wait = WaitFields

\* An iteration is in a good state once the actions put off by a wait that is over have run.
LEMMA DeferredGood ==
  ASSUME SelectionInv, NEW callbacks
  PROVE  Good(Deferred(Begin(callbacks)), c)
  <1>1. PICK s, c1, bg : s = Begin(callbacks) /\ c1 = s.c /\ c1 = [c EXCEPT !.bg = bg]
    <2>1. PICK bg : Begin(callbacks).c = [c EXCEPT !.bg = bg]
      BY DEF Begin
    <2> QED
      BY <2>1
  <1>2. SoundList(s.l, c.revision[1], c.idNth)
    <2>1. s.l = [l EXCEPT !.touched = FALSE]
      BY <1>1 DEF Begin
    <2>2. SoundList([l EXCEPT !.touched = FALSE], c.revision[1], c.idNth)
      BY TouchedSound DEF SelectionInv
    <2> QED
      BY <2>1, <2>2
  <1>3. DOMAIN s = {"q", "l", "c", "x"} /\ Asks(s.x)
    BY <1>1 DEF Begin, Asks
  <1>4. /\ ControlFields \subseteq DOMAIN c1 /\ c1.wait = c.wait /\ DOMAIN c.wait = WaitFields
        /\ c1.revision = c.revision /\ c1.idNth = c.idNth /\ c1.pendingSelections = c.pendingSelections
    BY <1>1 DEF SelectionInv, ControlFields
  <1>5. CASE c1.wait.pending # <<>> /\ ~c1.wait.blocked
    <2>1. PICK w : w = [c1.wait EXCEPT !.pending = <<>>]
      OBVIOUS
    <2>2. PICK c2 : c2 = [c1 EXCEPT !.wait = w]
      OBVIOUS
    <2>3. Waits(w, c.wait)
      BY <2>1, <1>4 DEF Waits, WaitFields
    <2>4. Like(c2, c)
      BY <2>2, <2>3, <1>4 DEF Like, ControlFields
    <2>5. PICK t : t = [s EXCEPT !.c = c2]
      OBVIOUS
    <2>6. Good(t, c)
      BY <2>4, <2>5, <1>2, <1>3 DEF Good
    <2>7. t = [s EXCEPT !.c.wait.pending = <<>>]
      BY <2>1, <2>2, <2>5, <1>1
    <2>8. Deferred(s) = DoActions(t, s.c.wait.pending)
      BY <2>7, <1>1, <1>5 DEF Deferred
    <2> QED
      BY <2>6, <2>8, <1>1, DoActionsGood
  <1>6. CASE c1.wait.pending = <<>> \/ c1.wait.blocked
    <2>1. Waits(c1.wait, c.wait)
      BY <1>4, <1>6 DEF Waits
    <2>2. Good(s, c)
      BY <2>1, <1>1, <1>2, <1>3, <1>4 DEF Good, Like
    <2>3. Deferred(s) = s
      BY <1>1, <1>6 DEF Deferred
    <2> QED
      BY <2>2, <2>3, <1>1
  <1> QED
    BY <1>5, <1>6

\* The event's own actions, and leaving the jump mode
LEMMA ActGood ==
  ASSUME NEW s, NEW c0, Good(s, c0), NEW event, NEW actions
  PROVE  Good(LeaveJump(s), c0) /\ Good(Act(s, event, actions), c0)
  <1>1. PICK t : t = [s EXCEPT !.c.jumping = "off"]
    OBVIOUS
  <1>2. Good(t, c0)
    BY <1>1, GoodField DEF Changeable
  <1>3. Good(LeaveJump(s), c0)
    BY <1>1, <1>2, FireGood DEF LeaveJump
  <1>4. \A acts, a : Good(DoActions(s, acts), c0) /\ Good(DoAction(s, a, <<>>).s, c0)
    BY DoActionsGood, DoActionGood
  <1>5. Good(Act(s, event, actions), c0)
    BY <1>4 DEF Act
  <1> QED
    BY <1>3, <1>5

\* The events that follow the actions, each fired in the state the one before left
LEMMA FireEachGood ==
  ASSUME NEW s, NEW c0, Good(s, c0)
  PROVE  Good(FireEach(Noticed(Truncated(s))), c0)
  <1>1. \A t, key : Good(t, c0) => Good(FireIf(t, key), c0)
    BY FireGood DEF FireIf
  <1>2. Good(Truncated(s), c0)
    BY GoodQ DEF Truncated
  <1>3. PICK t : t = Truncated(s)
    OBVIOUS
  <1>4. Good(Noticed(t), c0)
    <2>1. DOMAIN t = {"q", "l", "c", "x"} /\ Good(t, c0)
      BY <1>2, <1>3 DEF Good
    <2>2. /\ DOMAIN Noticed(t) = {"q", "l", "c", "x"}
          /\ Noticed(t).l = t.l /\ Noticed(t).c = t.c
      BY <2>1 DEF Noticed
    <2>3. Asks(Noticed(t).x)
      BY <2>1 DEF Noticed, Good, Asks
    <2> QED
      BY <2>1, <2>2, <2>3, GoodIs
  <1> QED
    BY <1>1, <1>3, <1>4 DEF FireEach

\* In jump mode the cursor moves, fzf may end, and `jump` or `jump-cancel` is triggered.
LEMMA JumpGood ==
  ASSUME NEW s, NEW c0, Good(s, c0), NEW label
  PROVE  Good(Jump(s, label), c0)
  <1>0. DOMAIN s = {"q", "l", "c", "x"} /\ SoundList(s.l, c0.revision[1], c0.idNth)
    BY DEF Good
  <1>1. ASSUME NEW n PROVE Good([s EXCEPT !.l.cy = n], c0)
    <2>1. SoundList([s.l EXCEPT !.cy = n], c0.revision[1], c0.idNth)
      BY <1>0 DEF SoundList, ListFields, Window
    <2> QED
      BY <2>1, GoodL
  <1>2. PICK n, t, u, key :
          /\ t = s \/ t = [s EXCEPT !.l.cy = n]
          /\ u = t \/ u = End(t, "accept")
          /\ Jump(s, label) = Fire([u EXCEPT !.c.jumping = "off"], key)
    BY DEF Jump
  <1>3. Good(t, c0)
    BY <1>1, <1>2
  <1>4. Good(u, c0)
    BY <1>2, <1>3, EndGood
  <1>5. Good([u EXCEPT !.c.jumping = "off"], c0)
    BY <1>4, GoodField DEF Changeable
  <1> QED
    BY <1>2, <1>5, FireGood

\* An iteration of Loop, from its callbacks to the requests it makes
LEMMA IterationGood ==
  ASSUME SelectionInv, NEW event, NEW actions, NEW callbacks
  PROVE  Good(Iteration(event, actions, callbacks), c)
  <1>1. PICK s : s = Deferred(Begin(callbacks))
    OBVIOUS
  <1>2. Good(s, c)
    BY <1>1, DeferredGood
  <1>3. Good(Jump(s, event.label), c)
    BY <1>2, JumpGood
  <1>4. Good(FireEach(Noticed(Truncated(Act(LeaveJump(s), event, actions)))), c)
    <2>1. PICK t : t = LeaveJump(s)
      OBVIOUS
    <2>2. PICK u : u = Act(t, event, actions)
      OBVIOUS
    <2>3. Good(t, c)
      BY <1>2, <2>1, ActGood
    <2>4. Good(u, c)
      BY <2>2, <2>3, ActGood
    <2> QED
      BY <2>1, <2>2, <2>4, FireEachGood
  <1> QED
    BY <1>1, <1>3, <1>4 DEF Iteration, Handled
----------------------------------------------------------------------------
(* A new list *)

\* The selection after a new list of results has items of that list only.
LEMMA ReselectedSound ==
  ASSUME SelectionInv, NEW r, r.result \in ListOf(r.major), r.pass \in ListOf(r.major)
  PROVE  SoundList(Reselected(Shown(r), r), r.major, c.idNth)
  <1>1. PICK m : m = Shown(r)
    OBVIOUS
  <1>2. /\ DOMAIN m = ListFields /\ m.shown \in ListOf(r.major)
        /\ m.result \in ListOf(r.major) /\ m.pass \in ListOf(r.major)
        /\ m.selected = l.selected /\ m.multi = l.multi /\ Window(m)
    BY <1>1 DEF Shown, SelectionInv, SoundList, ListFields, Window
  <1>3. l.selected \in ListOf(c.revision[1]) /\ l.multi \in Nat /\ (c.idNth \/ Len(l.selected) <= l.multi)
    BY DEF SelectionInv, SoundList
  <1>4. CASE c.revision[1] = r.major
    <2>1. SoundList(m, r.major, c.idNth)
      BY <1>2, <1>3, <1>4 DEF SoundList
    <2>2. PICK n : n = Keep(m, Indices(r.pass))
      OBVIOUS
    <2>3. SoundList(n, r.major, c.idNth)
      BY <2>1, <2>2, KeepSound
    <2>4. SoundList(Keep(n, Indices(r.result)), r.major, c.idNth)
      BY <2>3, KeepSound
    <2>5. Reselected(m, r) \in {m, n, Keep(n, Indices(r.result))}
      BY <1>4, <2>2 DEF Reselected
    <2> QED
      BY <1>1, <2>1, <2>3, <2>4, <2>5
  <1>5. CASE c.revision[1] # r.major
    <2>1. Reselected(m, r) = [m EXCEPT !.selected = <<>>]
      BY <1>5 DEF Reselected
    <2>2. <<>> \in ListOf(r.major) /\ Len(<<>>) = 0
      BY DEF ListOf, Distinct
    <2>3. SoundList([m EXCEPT !.selected = <<>>], r.major, c.idNth)
      BY <1>2, <1>3, <2>2 DEF SoundList, ListFields, Window
    <2> QED
      BY <1>1, <2>1, <2>3
  <1> QED
    BY <1>4, <1>5

\* With --id-nth, the items of a new list with the remembered keys are selected once each.
LEMMA RestoreSound ==
  ASSUME NEW m, NEW M, NEW any, SoundList(m, M, any), NEW keys, any \/ keys = {}
  PROVE  SoundList(Restore(m, keys), M, any)
  <1>1. PICK new : /\ Restore(m, keys) = [Keep(m, SelectedIndices(m) \ new) EXCEPT !.selected = @ \o Only(m.shown, new)]
                   /\ keys = {} => new = {}
    BY DEF Restore
  <1>2. PICK n, o : n = Keep(m, SelectedIndices(m) \ new) /\ o = Only(m.shown, new)
    OBVIOUS
  <1>3. SoundList(n, M, any)
    BY <1>2, KeepSound
  <1>4. m.shown \in ListOf(M) /\ m.selected \in ListOf(M) /\ DOMAIN m = ListFields
    BY DEF SoundList
  <1>5. o \in ListOf(M) /\ Indices(o) \subseteq new
    BY <1>2, <1>4, OnlyList
  <1>6. n.selected = Only(m.selected, SelectedIndices(m) \ new)
    BY <1>2, <1>4 DEF Keep, ListFields
  <1>7. Indices(n.selected) \cap Indices(o) = {}
    BY <1>4, <1>5, <1>6, OnlyList
  <1>8. /\ n.selected \in ListOf(M) /\ n.multi \in Nat /\ DOMAIN n = ListFields
        /\ any \/ Len(n.selected) <= n.multi
    BY <1>3 DEF SoundList
  <1>9. PICK s : s = n.selected \o o
    OBVIOUS
  <1>10. s \in ListOf(M) /\ Len(s) = Len(n.selected) + Len(o)
    BY <1>5, <1>7, <1>8, <1>9, ConcatList
  <1>11. any \/ Len(s) <= n.multi
    <2>1. keys = {} => Len(o) = 0
      <3>1. SUFFICES ASSUME keys = {} PROVE Len(o) = 0
        OBVIOUS
      <3>2. Indices(o) = {}
        BY <1>1, <1>5, <3>1
      <3>3. DOMAIN o = 1 .. Len(o) /\ Len(o) \in Nat
        BY <1>5 DEF ListOf
      <3>4. 1 \notin DOMAIN o
        BY <3>2 DEF Indices
      <3> QED
        BY <3>3, <3>4
    <2>2. Len(n.selected) \in Nat
      BY <1>8 DEF ListOf
    <2> QED
      BY <1>8, <1>10, <2>1, <2>2
  <1>12. SoundList([n EXCEPT !.selected = s], M, any)
    BY <1>3, <1>10, <1>11 DEF SoundList, ListFields, Window
  <1>13. Restore(m, keys) = [n EXCEPT !.selected = s]
    BY <1>1, <1>2, <1>9
  <1> QED
    BY <1>12, <1>13

\* UpdateList places the cursor and keeps the items.
LEMMA PointedSame ==
  ASSUME NEW m, DOMAIN m = ListFields, NEW r
  PROVE  SameItems(m, Pointed(m, r))
  <1>1. PICK cy, offset :
          \/ Pointed(m, r) = m
          \/ Pointed(m, r) = [m EXCEPT !.cy = cy]
          \/ Pointed(m, r) = [m EXCEPT !.cy = cy, !.offset = offset]
    BY DEF Pointed, Recursored
  <1>2. /\ SameItems(m, m) /\ SameItems(m, [m EXCEPT !.cy = cy])
        /\ SameItems(m, [m EXCEPT !.cy = cy, !.offset = offset])
    BY DEF SameItems, ListFields, SameWindow
  <1> QED
    BY <1>1, <1>2

\* What UpdateList makes of a sound list is sound for the revision of the result.
LEMMA ListAfterSound ==
  ASSUME SelectionInv, NEW r, r.result \in ListOf(r.major), r.pass \in ListOf(r.major)
  PROVE  SoundList(ListAfter(r), r.major, c.idNth)
  <1>1. PICK m, n : m = Reselected(Shown(r), r) /\ n = Pointed(m, r)
    OBVIOUS
  <1>2. SoundList(m, r.major, c.idNth)
    BY <1>1, ReselectedSound
  <1>3. SoundList(n, r.major, c.idNth)
    <2>1. SameItems(m, n)
      BY <1>1, <1>2, PointedSame DEF SoundList
    <2> QED
      BY <1>2, <2>1, SameItemsSound
  <1>4. c.idNth \/ Remembered(r) = {}
    BY DEF Remembered, SelectionInv
  <1>5. SoundList(Restore(n, Remembered(r)), r.major, c.idNth)
    BY <1>3, <1>4, RestoreSound
  <1> QED
    BY <1>1, <1>3, <1>5 DEF ListAfter, Restored

\* What UpdateList makes of the control state
LEMMA ControlAfterDef ==
  ASSUME ControlFields \subseteq DOMAIN c, NEW r
  PROVE  /\ ControlFields \subseteq DOMAIN ControlAfter(r)
         /\ ControlAfter(r).revision = <<r.major, r.minor>> /\ ControlAfter(r).idNth = c.idNth
         /\ ControlAfter(r).pendingSelections = IF c.reading THEN Remembered(r) ELSE {}
         /\ ControlAfter(r).wait = IF r.final THEN [c.wait EXCEPT !.searching = FALSE, !.blocked = FALSE]
                                  ELSE c.wait
  <1> DEFINE m == Shown(r)
             same == c.revision = <<r.major, r.minor>>
             lost == ~ByKey /\ KeptIndex(r) >= 0 /\ Place(m.shown, KeptIndex(r)) = -1 /\ c.track = "current"
             tracks == ByKey /\ Hits(m) # {}
             after == IF r.final THEN [c.wait EXCEPT !.searching = FALSE, !.blocked = FALSE] ELSE c.wait
             c2 == [c EXCEPT !.revision = <<r.major, r.minor>>, !.target = NoIndex,
                      !.filterSelection = @ /\ same,
                      !.triggerLoad = FALSE,
                      !.pendingSelections = IF c.reading THEN Remembered(r) ELSE {},
                      !.track = IF lost THEN "off" ELSE @,
                      !.trackIndex = IF tracks /\ c.track = "current" THEN Index(m.shown[Hit(m)]) ELSE @,
                      !.wait = after]
  <1>0. ControlAfter(r) = IF tracks \/ (ByKey /\ ~c.reading) THEN UnblockTrack(c2) ELSE c2
    BY DEF ControlAfter
  <1>5. /\ ControlFields \subseteq DOMAIN c2
        /\ c2.revision = <<r.major, r.minor>> /\ c2.idNth = c.idNth
        /\ c2.pendingSelections = IF c.reading THEN Remembered(r) ELSE {}
        /\ c2.wait = after
    BY DEF ControlFields
  <1> HIDE DEF c2
  <1>1. PICK c1 : c1 = c2 /\ ControlAfter(r) \in {c1, UnblockTrack(c1)}
    BY <1>0
  <1>2. /\ ControlFields \subseteq DOMAIN c1
        /\ c1.revision = <<r.major, r.minor>> /\ c1.idNth = c.idNth
        /\ c1.pendingSelections = IF c.reading THEN Remembered(r) ELSE {}
        /\ c1.wait = after
    BY <1>1, <1>5
  <1> HIDE DEF after
  <1>3. PICK c3 : c3 = UnblockTrack(c1)
    OBVIOUS
  <1>4. /\ ControlFields \subseteq DOMAIN c3 /\ c3.revision = c1.revision /\ c3.idNth = c1.idNth
        /\ c3.pendingSelections = c1.pendingSelections /\ c3.wait = c1.wait
    BY <1>2, <1>3 DEF UnblockTrack, ControlFields
  <1>6. /\ ControlFields \subseteq DOMAIN ControlAfter(r)
        /\ ControlAfter(r).revision = <<r.major, r.minor>> /\ ControlAfter(r).idNth = c.idNth
        /\ ControlAfter(r).pendingSelections = IF c.reading THEN Remembered(r) ELSE {}
        /\ ControlAfter(r).wait = after
    BY <1>1, <1>2, <1>3, <1>4
  <1> QED
    BY <1>6 DEF after
----------------------------------------------------------------------------
(* The selection *)

\* At first nothing is selected.
LEMMA SelectionInit ==
  ASSUME Init
  PROVE  SelectionInv
  <1>1. PICK scene \in Scenes : l = scene.l /\ c = scene.c
    BY DEF Init
  <1>2. /\ DOMAIN l = ListFields /\ ControlFields \subseteq DOMAIN c
        /\ l.shown \in ListOf(0) /\ l.result \in ListOf(0) /\ l.pass \in ListOf(0)
        /\ l.selected = <<>> /\ l.multi \in Nat /\ Window(l)
        /\ c.revision = <<0, 0>> /\ c.pendingSelections = {}
        /\ DOMAIN c.wait = WaitFields
    BY <1>1, TerminalAssumption DEF WaitFields, Window
  <1>3. <<>> \in ListOf(0) /\ Len(<<>>) = 0 /\ c.revision[1] = 0
    BY <1>2 DEF ListOf, Distinct
  <1> QED
    BY <1>2, <1>3 DEF SelectionInv, SoundList

\* An iteration of Loop keeps the selection sound.
LEMMA LoopSelection ==
  ASSUME SelectionInv, NEW kind, NEW arg, Loop(kind, arg)
  PROVE  SelectionInv'
  <1>1. PICK callbacks, s : /\ s = Iteration(Event(kind, arg), ActionsGiven(kind, arg), callbacks)
                            /\ l' = [s.l EXCEPT !.touched = FALSE]
                            /\ c' = [s.c EXCEPT !.wait.searching = @ \/ Sends(s)]
    BY DEF Loop
  <1>2. Good(s, c)
    BY <1>1, IterationGood
  <1>3. PICK v : c' = [s.c EXCEPT !.wait = v] /\ v = [s.c.wait EXCEPT !.searching = @ \/ Sends(s)]
    BY <1>1
  <1>4. /\ ControlFields \subseteq DOMAIN c' /\ DOMAIN c'.wait = WaitFields
        /\ c'.revision = c.revision /\ c'.idNth = c.idNth /\ c'.pendingSelections = c.pendingSelections
    BY <1>2, <1>3 DEF Good, Like, Waits, ControlFields
  <1>5. SoundList(l', c.revision[1], c.idNth)
    <2>1. SoundList([s.l EXCEPT !.touched = FALSE], c.revision[1], c.idNth)
      BY <1>2, TouchedSound DEF Good
    <2> QED
      BY <1>1, <2>1
  <1> QED
    BY <1>4, <1>5 DEF SelectionInv, SoundList

\* A redraw constrains the cursor only.
LEMMA RenderSelection ==
  ASSUME SelectionInv, Render
  PROVE  SelectionInv'
  <1>1. PICK m : m = ConstrainList(l) /\ Draw(m)
    BY DEF Render
  <1>2. SoundList(m, c.revision[1], c.idNth)
    <2>1. DOMAIN l = ListFields
      BY DEF SelectionInv, SoundList
    <2>2. SameItems(l, m)
      BY <1>1, <2>1, ConstrainSame
    <2> QED
      BY <2>2, SameItemsSound DEF SelectionInv
  <1>3. /\ l' = m /\ ControlFields \subseteq DOMAIN c'
        /\ c'.revision = c.revision /\ c'.idNth = c.idNth /\ c'.pendingSelections = c.pendingSelections
        /\ c'.wait = c.wait
    BY <1>1 DEF Draw, SelectionInv, ControlFields
  <1> QED
    BY <1>2, <1>3 DEF SelectionInv, SoundList

\* The items that the coordinator delivers are of one list, each once.
LEMMA ItemsList ==
  ASSUME NEW M, NEW indices \in Seq(Nat),
         \A i, j \in DOMAIN indices : indices[i] = indices[j] => i = j
  PROVE  Items(M, indices) \in ListOf(M)
  <1>1. \A i \in DOMAIN indices : Items(M, indices)[i] = <<M, indices[i]>> /\ indices[i] \in Nat
    BY DEF Items
  <1>2. Items(M, indices) \in Seq({M} \X Nat) /\ DOMAIN Items(M, indices) = DOMAIN indices
    BY DEF Items
  <1>3. Distinct(Items(M, indices))
    BY <1>1, <1>2 DEF Distinct, Index
  <1> QED
    BY <1>2, <1>3 DEF ListOf

\* A result as UpdateList gets it
IsResult(r) == r.result \in ListOf(r.major) /\ r.pass \in ListOf(r.major)

\* The terminal takes a result by one call of UpdateList.
LEMMA DeliverResult ==
  ASSUME NEW indices \in Lists, Deliver(indices)
  PROVE  \E r : /\ IsResult(r) /\ l' = ListAfter(r) /\ c' = ControlAfter(r)
                /\ e' = [e EXCEPT !.searches = Tail(@), !.events = @ \o Told(r), !.wake = @ \/ Wakes(r)]
  <1> DEFINE job == Head(e.searches)
             result == Items(job.major, indices)
             pass == IF job.final THEN Items(job.major, <<0, 1, 2>>) ELSE result
             r == [result |-> result, pass |-> pass,
                   major |-> job.major, minor |-> job.minor, final |-> job.final]
  <1>1. result \in ListOf(job.major)
    <2>1. indices \in Seq(Nat) /\ \A i, j \in DOMAIN indices : indices[i] = indices[j] => i = j
      BY TerminalAssumption
    <2> QED
      BY <2>1, ItemsList
  <1>2. Items(job.major, <<0, 1, 2>>) \in ListOf(job.major)
    <2>1. PICK all : all = <<0, 1, 2>>
      OBVIOUS
    <2>2. all \in Seq(Nat) /\ \A i, j \in DOMAIN all : all[i] = all[j] => i = j
      BY <2>1
    <2> QED
      BY <2>1, <2>2, ItemsList
  <1>3. IsResult(r)
    BY <1>1, <1>2 DEF IsResult
  <1>4. /\ l' = ListAfter(r) /\ c' = ControlAfter(r)
        /\ e' = [e EXCEPT !.searches = Tail(@), !.events = @ \o Told(r), !.wake = @ \/ Wakes(r)]
    BY DEF Deliver
  <1> HIDE DEF r
  <1> QED
    BY <1>3, <1>4

\* A result keeps the selection, or clears it when it is of another list.
LEMMA DeliverSelection ==
  ASSUME SelectionInv, NEW indices \in Lists, Deliver(indices)
  PROVE  SelectionInv'
  <1>1. PICK r : IsResult(r) /\ l' = ListAfter(r) /\ c' = ControlAfter(r)
    BY DeliverResult
  <1>2. SoundList(l', r.major, c.idNth)
    BY <1>1, ListAfterSound DEF IsResult
  <1>3. /\ ControlFields \subseteq DOMAIN c'
        /\ c'.revision = <<r.major, r.minor>> /\ c'.idNth = c.idNth
        /\ c'.pendingSelections = IF c.reading THEN Remembered(r) ELSE {}
        /\ DOMAIN c'.wait = DOMAIN c.wait
    BY <1>1, ControlAfterDef DEF SelectionInv
  <1>4. c.idNth \/ Remembered(r) = {}
    BY DEF Remembered, SelectionInv
  <1>5. c'.revision[1] = r.major
    BY <1>3
  <1> QED
    BY <1>2, <1>3, <1>4, <1>5 DEF SelectionInv, SoundList

\* Every step keeps the invariant of the selection.
LEMMA SelectionStep ==
  ASSUME SelectionInv, [Next]_vars
  PROVE  SelectionInv'
  <1>1. CASE \E kind \in Kinds : \E arg \in Given(kind) : Loop(kind, arg)
    BY <1>1, LoopSelection
  <1>2. CASE Render
    BY <1>2, RenderSelection
  <1>3. CASE Results
    BY <1>3, DeliverSelection DEF Results
  <1>4. CASE Exit
    BY <1>4 DEF Exit, SelectionInv, SoundList, ControlFields
  <1>5. CASE TakeRequest \/ \E x \in 0 .. MaxPattern : ClickOnPrompt(x)
    BY <1>5 DEF TakeRequest, ClickOnPrompt, SelectionInv, SoundList
  <1>6. CASE ReadMore \/ ReadEnd
    BY <1>6 DEF ReadMore, ReadEnd, UpdateCount, SelectionInv, SoundList, ControlFields
  <1>7. CASE UNCHANGED vars
    BY <1>7 DEF vars, SelectionInv, SoundList
  <1> QED
    BY <1>1, <1>2, <1>3, <1>4, <1>5, <1>6, <1>7 DEF Next

\* A sound list has the soundness the runs check, by the number of its distinct indices.
LEMMA SelectionOfInv ==
  ASSUME SelectionInv
  PROVE  SelectionSound
  <1>1. /\ l.selected \in ListOf(c.revision[1]) /\ l.multi \in Nat
        /\ c.idNth \/ Len(l.selected) <= l.multi
    BY DEF SelectionInv, SoundList
  <1>2. /\ l.selected \in Seq({c.revision[1]} \X Nat) /\ Distinct(l.selected)
        /\ Len(l.selected) \in Nat /\ DOMAIN l.selected = 1 .. Len(l.selected)
    BY <1>1 DEF ListOf
  <1>3. \A i \in DOMAIN l.selected : l.selected[i][1] = c.revision[1]
    <2>1. \A i \in 1 .. Len(l.selected) : l.selected[i] \in {c.revision[1]} \X Nat
      BY <1>2, ElementOfSeq
    <2> QED
      BY <1>2, <2>1
  <1>4. Cardinality(SelectedIndices(l)) = Len(l.selected)
    <2>1. PICK f : f = [i \in 1 .. Len(l.selected) |-> Index(l.selected[i])]
      OBVIOUS
    <2>2. PICK n, S : n = Len(l.selected) /\ S = SelectedIndices(l)
      OBVIOUS
    <2>3. /\ n \in Nat /\ \A i \in 1 .. n : f[i] \in S
          /\ \A i, j \in 1 .. n : f[i] = f[j] => i = j
          /\ \A x \in S : \E i \in 1 .. n : f[i] = x
      BY <1>2, <2>1, <2>2 DEF SelectedIndices, Indices, Distinct
    <2>4. Cardinality(S) = n
      BY <2>3, CountedBy
    <2> QED
      BY <2>2, <2>4
  <1> QED
    BY <1>1, <1>3, <1>4 DEF SelectionSound

\* Whatever actions run, one in the other, and whatever lists arrive: what is selected are items of
\* the list the terminal shows, each once, and no more than the limit unless --id-nth restored them.
THEOREM SelectionIsSound == Spec => []SelectionSound
  <1>1. Init => SelectionInv
    BY SelectionInit
  <1>2. SelectionInv /\ [Next]_vars => SelectionInv'
    BY SelectionStep
  <1>3. SelectionInv => SelectionSound
    BY SelectionOfInv
  <1> QED
    BY <1>1, <1>2, <1>3, PTL DEF Spec
----------------------------------------------------------------------------
(* Searches and revisions *)

\* The searches, and the coordinator's fields
Jobs == [major : Nat, minor : Nat, final : BOOLEAN, cancel : BOOLEAN]
CoordFields == {"major", "minor", "reading", "sync", "request", "searches", "lost", "events", "wake",
                "quiet", "requests"}

\* Revision b is a, or a later one.
NotBefore(a, b) == a[1] < b[1] \/ (a[1] = b[1] /\ a[2] <= b[2])
RevisionOf(job) == <<job.major, job.minor>>

\* The coordinator's part of the state: its searches are for revisions in order, none before that
\* the terminal shows and none after its own.
CoordInv ==
  /\ DOMAIN e = CoordFields
  /\ e.major \in Nat /\ e.minor \in Nat /\ e.reading \in BOOLEAN /\ e.sync \in BOOLEAN
  /\ e.searches \in Seq(Jobs) /\ Len(e.searches) <= 2
  /\ c.revision \in Nat \X Nat
  /\ NotBefore(c.revision, RevisionOf(e))
  /\ \A i \in 1 .. Len(e.searches) : /\ NotBefore(c.revision, RevisionOf(e.searches[i]))
                                     /\ NotBefore(RevisionOf(e.searches[i]), RevisionOf(e))
  /\ Len(e.searches) = 2 => NotBefore(RevisionOf(e.searches[1]), RevisionOf(e.searches[2]))

\* The searches after a new one, from the coordinator's state e0 on
LEMMA SearchesInOrder ==
  ASSUME CoordInv, Len(e.searches) < 2, NEW e0, DOMAIN e0 = CoordFields,
         e0.major \in Nat, e0.minor \in Nat, e0.reading \in BOOLEAN,
         e0.searches = e.searches, NotBefore(RevisionOf(e), RevisionOf(e0)),
         NEW cancel \in BOOLEAN, NEW ss \in Searches(e0, Search(e0, cancel))
  PROVE  /\ ss \in Seq(Jobs) /\ Len(ss) \in 1 .. 2
         /\ \A i \in 1 .. Len(ss) : /\ NotBefore(c.revision, RevisionOf(ss[i]))
                                    /\ NotBefore(RevisionOf(ss[i]), RevisionOf(e0))
         /\ Len(ss) = 2 => NotBefore(RevisionOf(ss[1]), RevisionOf(ss[2]))
         /\ Len(ss) = 2 => Len(e.searches) = 1 /\ ss[1] = e.searches[1]
  <1>1. PICK job : job = Search(e0, cancel)
    OBVIOUS
  <1>2. job \in Jobs /\ RevisionOf(job) = RevisionOf(e0)
    BY <1>1 DEF Search, Jobs, RevisionOf
  <1>3. NotBefore(c.revision, RevisionOf(e0)) /\ NotBefore(RevisionOf(e0), RevisionOf(e0))
    BY DEF CoordInv, NotBefore, RevisionOf
  <1>4. PICK was : was = e.searches
    OBVIOUS
  <1>5. /\ was \in Seq(Jobs) /\ (Len(was) = 0 \/ Len(was) = 1)
        /\ ss = <<job>> \/ ss = Append(was, job) \/ (ss = was /\ was # <<>>)
    <2>1. was \in Seq(Jobs) /\ Len(was) < 2
      BY <1>4 DEF CoordInv
    <2>2. Len(was) \in Nat
      BY <2>1, LenProperties
    <2>3. ss = <<job>> \/ ss = Append(was, job) \/ (ss = was /\ was # <<>>)
      BY <1>1, <1>4 DEF Searches, Dropping
    <2>4. Len(was) = 0 \/ Len(was) = 1
      <3>1. PICK n \in Nat : n = Len(was) /\ n < 2
        BY <2>1, <2>2
      <3> QED
        BY <3>1
    <2> QED
      BY <2>1, <2>3, <2>4
  <1>6. CASE ss = <<job>> \/ (ss = Append(was, job) /\ Len(was) = 0)
    <2>1. CASE ss = <<job>>
      BY <2>1, <1>2, <1>3
    <2>2. CASE ss = Append(was, job) /\ Len(was) = 0
      <3>1. ss \in Seq(Jobs) /\ Len(ss) = 1 /\ ss[1] = job
        BY <2>2, <1>2, <1>5, AppendProperties
      <3> QED
        BY <3>1, <1>2, <1>3
    <2> QED
      BY <1>5, <1>6, <2>1, <2>2
  <1>7. CASE ss = Append(was, job) /\ Len(was) = 1
    <2>1. ss \in Seq(Jobs) /\ Len(ss) = 2 /\ ss[1] = was[1] /\ ss[2] = job /\ was[1] \in Jobs
      <3>1. /\ Append(was, job) \in Seq(Jobs) /\ Len(Append(was, job)) = Len(was) + 1
            /\ \A i \in 1 .. Len(was) : Append(was, job)[i] = was[i]
            /\ Append(was, job)[Len(was) + 1] = job
        BY <1>2, <1>5, AppendProperties
      <3>2. was[1] \in Jobs
        BY <1>5, <1>7, ElementOfSeq
      <3>3. 1 \in 1 .. Len(was) /\ Len(was) + 1 = 2
        BY <1>7
      <3> QED
        BY <3>1, <3>2, <3>3, <1>7
    <2>2. NotBefore(c.revision, RevisionOf(was[1])) /\ NotBefore(RevisionOf(was[1]), RevisionOf(e))
      BY <1>4, <1>7 DEF CoordInv
    <2>3. NotBefore(RevisionOf(was[1]), RevisionOf(e0))
      BY <2>1, <2>2 DEF NotBefore, RevisionOf, Jobs, CoordInv
    <2> QED
      BY <2>1, <2>2, <2>3, <1>2, <1>3, <1>4, <1>7
  <1>8. CASE ss = was /\ was # <<>>
    <2>1. Len(was) = 1 /\ was[1] \in Jobs /\ 1 \in 1 .. Len(was)
      <3>1. Len(was) = 1
        BY <1>5, <1>8, EmptySeq
      <3>2. 1 \in 1 .. Len(was)
        BY <3>1
      <3> QED
        BY <3>1, <3>2, <1>5, ElementOfSeq
    <2>2. NotBefore(c.revision, RevisionOf(was[1])) /\ NotBefore(RevisionOf(was[1]), RevisionOf(e))
      BY <1>4, <2>1 DEF CoordInv
    <2>3. NotBefore(RevisionOf(was[1]), RevisionOf(e0))
      BY <2>1, <2>2 DEF NotBefore, RevisionOf, Jobs, CoordInv
    <2>4. \A i \in 1 .. Len(was) : i = 1
      BY <2>1
    <2>5. ss \in Seq(Jobs) /\ Len(ss) \in 1 .. 2 /\ Len(ss) # 2
      BY <2>1, <1>5, <1>8
    <2> QED
      BY <2>2, <2>3, <2>4, <2>5, <1>8
  <1> QED
    BY <1>5, <1>6, <1>7, <1>8

\* A step to the coordinator's state e1, with the searches ss and the terminal's revision rev
LEMMA CoordAfter ==
  ASSUME NEW e1, NEW ss, NEW rev,
         e1.major \in Nat, e1.minor \in Nat, e1.reading \in BOOLEAN, e1.sync \in BOOLEAN,
         ss \in Seq(Jobs), Len(ss) <= 2, rev \in Nat \X Nat, NotBefore(rev, RevisionOf(e1)),
         \A i \in 1 .. Len(ss) : /\ NotBefore(rev, RevisionOf(ss[i]))
                                 /\ NotBefore(RevisionOf(ss[i]), RevisionOf(e1)),
         Len(ss) = 2 => NotBefore(RevisionOf(ss[1]), RevisionOf(ss[2])),
         c'.revision = rev, DOMAIN e' = CoordFields, e'.searches = ss, e'.major = e1.major,
         e'.minor = e1.minor, e'.reading = e1.reading, e'.sync = e1.sync
  PROVE  CoordInv'
  <1>1. RevisionOf(e)' = RevisionOf(e1)
    BY DEF RevisionOf
  <1> QED
    BY <1>1 DEF CoordInv

\* Of one search under way nothing is left, and of none none is taken.
LEMMA TailOfOne ==
  ASSUME NEW s \in Seq(Jobs), s # <<>>
  PROVE  /\ Len(s) < 2 => Len(Tail(s)) = 0
         /\ s # Tail(s) /\ Len(Tail(s)) = Len(s) - 1 /\ Tail(s) \in Seq(Jobs)
         /\ Head(s) = s[1] /\ Head(s) \in Jobs /\ Len(s) \in Nat \ {0}
         /\ \A i \in 1 .. Len(Tail(s)) : Tail(s)[i] = s[i + 1]
  <1>1. Len(s) \in Nat /\ Len(s) # 0
    BY EmptySeq
  <1>2. /\ Head(s) \in Jobs /\ Tail(s) \in Seq(Jobs) /\ Len(Tail(s)) = Len(s) - 1
        /\ \A i \in 1 .. Len(Tail(s)) : Tail(s)[i] = s[i + 1]
    BY HeadTailProperties
  <1>3. s # Tail(s)
    <2> SUFFICES ASSUME s = Tail(s) PROVE FALSE
      OBVIOUS
    <2>1. Len(s) = Len(s) - 1
      BY <1>2
    <2> QED
      BY <2>1, <1>1
  <1>4. Head(s) = s[1]
    OBVIOUS
  <1>5. Len(s) < 2 => Len(Tail(s)) = 0
    BY <1>1, <1>2
  <1> QED
    BY <1>1, <1>2, <1>3, <1>4, <1>5

\* The coordinator begins with no search.
LEMMA CoordInit ==
  ASSUME Init
  PROVE  CoordInv
  <1>1. PICK scene \in Scenes :
          /\ c = scene.c
          /\ e = [major |-> 0, minor |-> 0, reading |-> scene.c.reading, sync |-> FALSE, request |-> NoRequest,
                  searches |-> <<>>, lost |-> FALSE, events |-> <<>>, wake |-> FALSE,
                  quiet |-> scene.requests = 0, requests |-> scene.requests]
    BY DEF Init
  <1>2. c.revision = <<0, 0>> /\ c.reading \in BOOLEAN
    BY <1>1, TerminalAssumption
  <1> QED
    BY <1>1, <1>2 DEF CoordInv, CoordFields, NotBefore, RevisionOf

\* A step that changes nothing of what CoordInv is about
LEMMA CoordSame ==
  ASSUME CoordInv, c'.revision = c.revision, DOMAIN e' = CoordFields, e'.searches = e.searches,
         e'.major = e.major, e'.minor = e.minor, e'.reading = e.reading, e'.sync = e.sync
  PROVE  CoordInv'
  BY DEF CoordInv, RevisionOf

\* A request of the terminal: its reload or its change of revision makes the next search a later one.
LEMMA TakeRequestCoord ==
  ASSUME CoordInv, TakeRequest
  PROVE  /\ CoordInv'
         /\ e.searches # <<>> => e'.searches # Tail(e.searches)
         /\ c'.revision = c.revision
  <1> DEFINE r == e.request
             e1 == [e EXCEPT !.request = NoRequest]
  <1>1. PICK e2, ss :
          /\ e2 = CASE r.command = "plain" ->
                         [e1 EXCEPT !.major = @ + 1, !.minor = 0, !.reading = TRUE, !.sync = FALSE]
                    [] r.command = "sync" -> [e1 EXCEPT !.reading = TRUE, !.sync = TRUE]
                    [] r.command \notin {"plain", "sync"} /\ r.bump /\ ~e.sync -> [e1 EXCEPT !.minor = @ + 1]
                    [] OTHER -> e1
          /\ Len(e.searches) < 2
          /\ ss \in Searches(e2, Search(e2, TRUE))
          /\ e' = IF r.changed THEN Ask(e2, Search(e2, TRUE), ss) ELSE e2
          /\ UNCHANGED c
    BY DEF TakeRequest
  <1>2. /\ DOMAIN e = CoordFields /\ e.major \in Nat /\ e.minor \in Nat
        /\ e.reading \in BOOLEAN /\ e.sync \in BOOLEAN
    BY DEF CoordInv
  <1>3. /\ DOMAIN e2 = CoordFields /\ e2.major \in Nat /\ e2.minor \in Nat
        /\ e2.reading \in BOOLEAN /\ e2.sync \in BOOLEAN /\ e2.searches = e.searches
        /\ NotBefore(RevisionOf(e), RevisionOf(e2))
    <2>1. /\ DOMAIN e1 = CoordFields /\ e1.major = e.major /\ e1.minor = e.minor
          /\ e1.reading = e.reading /\ e1.sync = e.sync /\ e1.searches = e.searches
      BY <1>2 DEF CoordFields
    <2> HIDE DEF e1
    <2>3. \/ e2 = [e1 EXCEPT !.major = @ + 1, !.minor = 0, !.reading = TRUE, !.sync = FALSE]
          \/ e2 = [e1 EXCEPT !.reading = TRUE, !.sync = TRUE]
          \/ e2 = [e1 EXCEPT !.minor = @ + 1]
          \/ e2 = e1
      BY <1>1
    <2>4. /\ DOMAIN e2 = CoordFields /\ e2.searches = e1.searches
          /\ e2.reading \in BOOLEAN /\ e2.sync \in BOOLEAN
          /\ \/ e2.major = e1.major + 1 /\ e2.minor = 0
             \/ e2.major = e1.major /\ e2.minor \in {e1.minor, e1.minor + 1}
      BY <1>2, <2>1, <2>3 DEF CoordFields
    <2> QED
      BY <1>2, <2>1, <2>4 DEF NotBefore, RevisionOf
  <1>4. /\ ss \in Seq(Jobs) /\ Len(ss) \in 1 .. 2
        /\ \A i \in 1 .. Len(ss) : /\ NotBefore(c.revision, RevisionOf(ss[i]))
                                   /\ NotBefore(RevisionOf(ss[i]), RevisionOf(e2))
        /\ Len(ss) = 2 => NotBefore(RevisionOf(ss[1]), RevisionOf(ss[2]))
        /\ Len(ss) = 2 => Len(e.searches) = 1 /\ ss[1] = e.searches[1]
    BY <1>1, <1>3, SearchesInOrder
  <1>5. NotBefore(c.revision, RevisionOf(e2))
    BY <1>2, <1>3 DEF CoordInv, NotBefore, RevisionOf
  <1>6. CASE r.changed
    <2>1. /\ DOMAIN e' = CoordFields /\ e'.searches = ss /\ e'.major = e2.major /\ e'.minor = e2.minor
          /\ e'.reading = e2.reading /\ e'.sync = e2.sync
      <3>1. PICK lost : e' = [e2 EXCEPT !.searches = ss, !.lost = lost]
        BY <1>1, <1>6 DEF Ask
      <3> QED
        BY <3>1, <1>3 DEF CoordFields
    <2>2. CoordInv'
      <3>1. PICK rev : rev = c.revision
        OBVIOUS
      <3>2. rev \in Nat \X Nat /\ c'.revision = rev
        BY <1>1, <3>1 DEF CoordInv
      <3> QED
        BY <2>1, <3>1, <3>2, <1>3, <1>4, <1>5, CoordAfter
    <2>3. e.searches # <<>> => e'.searches # Tail(e.searches)
      <3>1. e.searches # <<>> => Len(Tail(e.searches)) = 0
        BY <1>1, TailOfOne DEF CoordInv
      <3> QED
        BY <2>1, <3>1, <1>4
    <2> QED
      BY <2>2, <2>3, <1>1
  <1>7. CASE ~r.changed
    <2>1. e' = e2
      BY <1>1, <1>7
    <2>2. \A i \in 1 .. Len(e.searches) : NotBefore(RevisionOf(e.searches[i]), RevisionOf(e2))
      <3>1. \A i \in 1 .. Len(e.searches) : e.searches[i] \in Jobs
        BY ElementOfSeq DEF CoordInv
      <3> QED
        <4> SUFFICES ASSUME NEW i \in 1 .. Len(e.searches)
                     PROVE  NotBefore(RevisionOf(e.searches[i]), RevisionOf(e2))
          OBVIOUS
        <4>1. PICK job \in Jobs : job = e.searches[i]
          BY <3>1
        <4>2. NotBefore(RevisionOf(job), RevisionOf(e))
          BY <4>1 DEF CoordInv
        <4>3. NotBefore(RevisionOf(job), RevisionOf(e2))
          BY <4>2, <1>2, <1>3 DEF NotBefore, RevisionOf, Jobs
        <4> QED
          BY <4>1, <4>3
    <2>3. CoordInv'
      <3>1. PICK rev, was : rev = c.revision /\ was = e.searches
        OBVIOUS
      <3>2. /\ rev \in Nat \X Nat /\ c'.revision = rev /\ was \in Seq(Jobs) /\ Len(was) <= 2
            /\ \A i \in 1 .. Len(was) : NotBefore(rev, RevisionOf(was[i]))
            /\ Len(was) = 2 => NotBefore(RevisionOf(was[1]), RevisionOf(was[2]))
        BY <1>1, <3>1 DEF CoordInv
      <3> QED
        BY <2>1, <2>2, <3>1, <3>2, <1>3, <1>5, CoordAfter
    <2>4. e.searches # <<>> => e.searches # Tail(e.searches)
      BY TailOfOne DEF CoordInv
    <2> QED
      BY <2>1, <2>3, <2>4, <1>1, <1>3
  <1> QED
    BY <1>6, <1>7

\* More items read start a search for the same revision.
LEMMA ReadMoreCoord ==
  ASSUME CoordInv, ControlFields \subseteq DOMAIN c, ReadMore
  PROVE  CoordInv' /\ e.searches = <<>> /\ c'.revision = c.revision
  <1>1. PICK ss, lost : /\ ss = <<Search(e, FALSE)>> /\ e.searches = <<>>
                        /\ e' = [e EXCEPT !.searches = ss, !.lost = lost]
    BY DEF ReadMore, Ask
  <1>2. ss \in Searches(e, Search(e, FALSE)) /\ Len(e.searches) < 2
    BY <1>1 DEF Searches
  <1>3. NotBefore(RevisionOf(e), RevisionOf(e))
    BY DEF CoordInv, NotBefore, RevisionOf
  <1>4. /\ ss \in Seq(Jobs) /\ Len(ss) \in 1 .. 2
        /\ \A i \in 1 .. Len(ss) : /\ NotBefore(c.revision, RevisionOf(ss[i]))
                                   /\ NotBefore(RevisionOf(ss[i]), RevisionOf(e))
        /\ Len(ss) = 2 => NotBefore(RevisionOf(ss[1]), RevisionOf(ss[2]))
    BY <1>2, <1>3, SearchesInOrder DEF CoordInv
  <1>5. c'.revision = c.revision
    BY DEF ReadMore, UpdateCount, ControlFields
  <1>6. /\ DOMAIN e' = CoordFields /\ e'.searches = ss /\ e'.major = e.major /\ e'.minor = e.minor
        /\ e'.reading = e.reading /\ e'.sync = e.sync
    BY <1>1 DEF CoordInv, CoordFields
  <1>7. CoordInv'
    <2>1. PICK rev, e1 : rev = c.revision /\ e1 = e
      OBVIOUS
    <2>2. /\ rev \in Nat \X Nat /\ NotBefore(rev, RevisionOf(e1))
          /\ e1.major \in Nat /\ e1.minor \in Nat /\ e1.reading \in BOOLEAN /\ e1.sync \in BOOLEAN
      BY <2>1 DEF CoordInv
    <2> QED
      BY <2>1, <2>2, <1>4, <1>5, <1>6, CoordAfter
  <1> QED
    BY <1>1, <1>5, <1>7

\* So does the end of the input.
LEMMA ReadEndCoord ==
  ASSUME CoordInv, ControlFields \subseteq DOMAIN c, ReadEnd
  PROVE  /\ CoordInv' /\ c'.revision = c.revision
         /\ e.searches # <<>> => e'.searches # Tail(e.searches)
  <1>1. PICK e1, ss :
          /\ e1 = [e EXCEPT !.reading = FALSE, !.sync = FALSE,
                      !.major = IF e.sync THEN @ + 1 ELSE @, !.minor = IF e.sync THEN 0 ELSE @]
          /\ Len(e.searches) < 2
          /\ ss \in Searches(e1, Search(e1, FALSE)) /\ e' = Ask(e1, Search(e1, FALSE), ss)
    BY DEF ReadEnd
  <1>0. PICK lost : e' = [e1 EXCEPT !.searches = ss, !.lost = lost]
    BY <1>1 DEF Ask
  <1>2. /\ DOMAIN e1 = CoordFields /\ e1.major \in Nat /\ e1.minor \in Nat
        /\ e1.reading \in BOOLEAN /\ e1.sync \in BOOLEAN /\ e1.searches = e.searches
        /\ NotBefore(RevisionOf(e), RevisionOf(e1))
    BY <1>1 DEF CoordInv, CoordFields, NotBefore, RevisionOf
  <1>3. /\ ss \in Seq(Jobs) /\ Len(ss) \in 1 .. 2
        /\ \A i \in 1 .. Len(ss) : /\ NotBefore(c.revision, RevisionOf(ss[i]))
                                   /\ NotBefore(RevisionOf(ss[i]), RevisionOf(e1))
        /\ Len(ss) = 2 => NotBefore(RevisionOf(ss[1]), RevisionOf(ss[2]))
    BY <1>1, <1>2, SearchesInOrder
  <1>4. NotBefore(c.revision, RevisionOf(e1))
    BY <1>2 DEF CoordInv, NotBefore, RevisionOf
  <1>5. c'.revision = c.revision
    BY DEF ReadEnd, UpdateCount, ControlFields
  <1>6. /\ DOMAIN e' = CoordFields /\ e'.searches = ss /\ e'.major = e1.major /\ e'.minor = e1.minor
        /\ e'.reading = e1.reading /\ e'.sync = e1.sync
    BY <1>0, <1>2 DEF CoordFields
  <1>7. CoordInv'
    <2>1. PICK rev : rev = c.revision /\ rev \in Nat \X Nat
      BY DEF CoordInv
    <2> QED
      BY <2>1, <1>2, <1>3, <1>4, <1>5, <1>6, CoordAfter
  <1>8. e.searches # <<>> => e'.searches # Tail(e.searches)
    <2>1. e.searches # <<>> => Len(Tail(e.searches)) = 0
      BY <1>1, TailOfOne DEF CoordInv
    <2> QED
      BY <2>1, <1>3, <1>6
  <1> QED
    BY <1>5, <1>7, <1>8

\* The first search ends: the terminal takes its revision, which is not before its own.
LEMMA DeliverCoord ==
  ASSUME CoordInv, ControlFields \subseteq DOMAIN c, NEW indices \in Lists, Deliver(indices)
  PROVE  CoordInv' /\ NotBefore(c.revision, c'.revision)
  <1>1. PICK job, was : job = Head(e.searches) /\ was = e.searches
    OBVIOUS
  <1>2. /\ was # <<>> /\ was \in Seq(Jobs) /\ Len(was) <= 2
    BY <1>1 DEF Deliver, CoordInv
  <1>3. job \in Jobs /\ job = was[1] /\ (Len(was) = 1 \/ Len(was) = 2) /\ 1 \in 1 .. Len(was)
    <2>1. job \in Jobs /\ job = was[1] /\ Len(was) \in Nat \ {0}
      BY <1>1, <1>2, TailOfOne
    <2>2. Len(was) = 1 \/ Len(was) = 2
      <3>1. PICK n \in Nat : n = Len(was) /\ n <= 2 /\ n # 0
        BY <2>1, <1>2
      <3> QED
        BY <3>1
    <2>3. 1 \in 1 .. Len(was)
      BY <2>1
    <2> QED
      BY <2>1, <2>2, <2>3
  <1>4. PICK r : r.major = job.major /\ r.minor = job.minor /\ c' = ControlAfter(r)
    BY <1>1 DEF Deliver
  <1>5. c'.revision = RevisionOf(job)
    BY <1>4, ControlAfterDef DEF RevisionOf
  <1>6. /\ DOMAIN e' = CoordFields /\ e'.searches = Tail(was) /\ e'.major = e.major
        /\ e'.minor = e.minor /\ e'.reading = e.reading /\ e'.sync = e.sync
    <2>1. PICK ev, wake : e' = [e EXCEPT !.searches = Tail(was), !.events = ev, !.wake = wake]
      BY <1>1 DEF Deliver
    <2> QED
      BY <2>1 DEF CoordInv, CoordFields
  <1>7. NotBefore(c.revision, RevisionOf(job)) /\ NotBefore(RevisionOf(job), RevisionOf(e))
    BY <1>1, <1>3 DEF CoordInv
  <1>8. Tail(was) \in Seq(Jobs) /\ Len(Tail(was)) = Len(was) - 1
    BY <1>2, TailOfOne
  <1>9. ASSUME NEW i \in 1 .. Len(Tail(was))
        PROVE  /\ NotBefore(RevisionOf(job), RevisionOf(Tail(was)[i]))
               /\ NotBefore(RevisionOf(Tail(was)[i]), RevisionOf(e))
    <2>1. i = 1 /\ Len(was) = 2 /\ Tail(was)[i] = was[2] /\ 2 \in 1 .. Len(was)
      <3>1. i = 1 /\ Len(was) = 2
        BY <1>3, <1>8
      <3>2. Tail(was)[i] = was[i + 1]
        BY <1>2, TailOfOne
      <3> QED
        BY <3>1, <3>2
    <2> QED
      BY <2>1, <1>1, <1>3 DEF CoordInv
  <1>10. RevisionOf(job) \in Nat \X Nat
    BY <1>3 DEF RevisionOf, Jobs
  <1>11. Len(Tail(was)) <= 1 /\ Len(Tail(was)) \in Nat
    BY <1>2, <1>3, <1>8
  <1>12. CoordInv'
    <2>1. PICK rev, ss, e1 : rev = RevisionOf(job) /\ ss = Tail(was) /\ e1 = e
      OBVIOUS
    <2>2. /\ NotBefore(rev, RevisionOf(e1)) /\ rev \in Nat \X Nat
          /\ e1.major \in Nat /\ e1.minor \in Nat /\ e1.reading \in BOOLEAN /\ e1.sync \in BOOLEAN
      BY <2>1, <1>7, <1>10 DEF CoordInv
    <2>3. /\ ss \in Seq(Jobs) /\ Len(ss) <= 2 /\ Len(ss) # 2
          /\ \A i \in 1 .. Len(ss) : /\ NotBefore(rev, RevisionOf(ss[i]))
                                     /\ NotBefore(RevisionOf(ss[i]), RevisionOf(e1))
      <3>1. Len(ss) <= 2 /\ Len(ss) # 2
        BY <2>1, <1>11
      <3> QED
        BY <2>1, <3>1, <1>8, <1>9
    <2> QED
      BY <2>1, <2>2, <2>3, <1>5, <1>6, CoordAfter
  <1> QED
    BY <1>5, <1>7, <1>12

\* A step that takes no search from the head of the queue
TakesNone == e.searches # <<>> => e'.searches # Tail(e.searches)

\* An iteration of Loop leaves a request at most.
LEMMA LoopCoord ==
  ASSUME SelectionInv, CoordInv, NEW kind, NEW arg, Loop(kind, arg)
  PROVE  CoordInv' /\ c'.revision = c.revision /\ TakesNone
  <1>1. PICK callbacks, s :
          /\ s = Iteration(Event(kind, arg), ActionsGiven(kind, arg), callbacks)
          /\ c' = [s.c EXCEPT !.wait.searching = @ \/ Sends(s)]
          /\ e' = IF Sends(s)
                  THEN [Taken(kind) EXCEPT !.request = Request(s), !.requests = IF e.quiet THEN 0 ELSE @ - 1]
                  ELSE Taken(kind)
    BY DEF Loop
  <1>2. Good(s, c)
    BY <1>1, IterationGood
  <1>3. c'.revision = c.revision
    BY <1>1, <1>2 DEF Good, Like, ControlFields
  <1>4. DOMAIN e = CoordFields
    BY DEF CoordInv
  <1>5. PICK t : /\ t = Taken(kind) /\ DOMAIN t = CoordFields /\ t.searches = e.searches
                 /\ t.major = e.major /\ t.minor = e.minor /\ t.reading = e.reading /\ t.sync = e.sync
    <2>1. PICK t : t = Taken(kind)
      OBVIOUS
    <2>2. t = [e EXCEPT !.events = <<>>] \/ t = [e EXCEPT !.wake = FALSE] \/ t = e
      BY <2>1 DEF Taken
    <2> QED
      BY <1>4, <2>1, <2>2 DEF CoordFields
  <1>6. /\ DOMAIN e' = CoordFields /\ e'.searches = e.searches
        /\ e'.major = e.major /\ e'.minor = e.minor /\ e'.reading = e.reading /\ e'.sync = e.sync
    BY <1>1, <1>5 DEF CoordFields
  <1>7. TakesNone
    BY <1>6, TailOfOne DEF TakesNone, CoordInv
  <1> QED
    BY <1>3, <1>6, <1>7, CoordSame

\* A redraw leaves the coordinator alone.
LEMMA RenderCoord ==
  ASSUME SelectionInv, CoordInv, Render
  PROVE  CoordInv' /\ c'.revision = c.revision /\ TakesNone
  <1>1. PICK m : Draw(m)
    BY DEF Render
  <1>2. c'.revision = c.revision
    BY <1>1 DEF Draw, SelectionInv, ControlFields
  <1>3. /\ DOMAIN e' = CoordFields /\ e'.searches = e.searches
        /\ e'.major = e.major /\ e'.minor = e.minor /\ e'.reading = e.reading /\ e'.sync = e.sync
    <2>1. e' = [e EXCEPT !.events = Append(@, "focus")] \/ e' = e
      BY <1>1 DEF Draw
    <2> QED
      BY <2>1 DEF CoordInv, CoordFields
  <1>4. TakesNone
    BY <1>3, TailOfOne DEF TakesNone, CoordInv
  <1> QED
    BY <1>2, <1>3, <1>4, CoordSame

\* Every step keeps the order of the searches, and takes one only with its result.
LEMMA CoordStep ==
  ASSUME SelectionInv, CoordInv, [Next]_vars
  PROVE  CoordInv' /\ NotBefore(c.revision, c'.revision) /\ (Results \/ TakesNone)
  <1>0. c.revision \in Nat \X Nat /\ ControlFields \subseteq DOMAIN c
    BY DEF CoordInv, SelectionInv
  <1>1. c'.revision = c.revision => NotBefore(c.revision, c'.revision)
    BY <1>0 DEF NotBefore
  <1>2. CASE \E kind \in Kinds : \E arg \in Given(kind) : Loop(kind, arg)
    BY <1>1, <1>2, LoopCoord
  <1>3. CASE Render
    BY <1>1, <1>3, RenderCoord
  <1>4. CASE Results
    BY <1>0, <1>4, DeliverCoord DEF Results
  <1>5. CASE TakeRequest
    BY <1>1, <1>5, TakeRequestCoord DEF TakesNone
  <1>6. CASE ReadMore
    BY <1>0, <1>1, <1>6, ReadMoreCoord DEF TakesNone
  <1>7. CASE ReadEnd
    BY <1>0, <1>1, <1>7, ReadEndCoord DEF TakesNone
  <1>8. CASE Exit \/ (\E x \in 0 .. MaxPattern : ClickOnPrompt(x)) \/ UNCHANGED vars
    <2>1. e' = e /\ c'.revision = c.revision
      BY <1>0, <1>8 DEF Exit, ClickOnPrompt, vars, ControlFields
    <2>2. CoordInv'
      BY <2>1, CoordSame DEF CoordInv
    <2>3. TakesNone
      BY <2>1, TailOfOne DEF TakesNone, CoordInv
    <2> QED
      BY <1>1, <2>1, <2>2, <2>3
  <1> QED
    BY <1>2, <1>3, <1>4, <1>5, <1>6, <1>7, <1>8 DEF Next

\* The terminal never goes back to a list of before a reload, nor to one of before a change of the
\* denylist, --nth or the header lines, whichever searches the coordinator cancels or lets end.
ListsInOrder == [][NotBefore(c.revision, c'.revision)]_vars
\* For all readers, searches and reloads: the terminal goes through the revisions in order.
THEOREM ListsComeInOrder == Spec => ListsInOrder
  <1>1. Init => SelectionInv /\ CoordInv
    BY SelectionInit, CoordInit
  <1>2. SelectionInv /\ CoordInv /\ [Next]_vars => SelectionInv' /\ CoordInv'
    BY SelectionStep, CoordStep
  <1>3. SelectionInv /\ CoordInv /\ [Next]_vars => [NotBefore(c.revision, c'.revision)]_vars
    BY CoordStep
  <1> QED
    BY <1>1, <1>2, <1>3, PTL DEF Spec, ListsInOrder
----------------------------------------------------------------------------
(* Tracking *)

\* FindIndex finds the first item with the index.
LEMMA PlaceFinds ==
  ASSUME NEW M, NEW s \in ListOf(M), NEW idx, Place(s, idx) >= 0
  PROVE  Place(s, idx) \in 0 .. Len(s) - 1 /\ Index(s[Place(s, idx) + 1]) = idx
  <1> DEFINE at == {i \in 1 .. Len(s) : Index(s[i]) = idx}
  <1>1. Len(s) \in Nat
    BY DEF ListOf
  <1>2. CASE at = {}
    <2>1. FindIndex(s, idx) = -1
      BY <1>2 DEF FindIndex
    <2> QED
      BY <2>1 DEF Place
  <1>3. CASE at # {}
    <2>1. at \in SUBSET Nat
      BY <1>1
    <2>2. \E x \in at : \A y \in at : x <= y
      <3> HIDE DEF at
      <3> QED
        BY <1>3, <2>1, LeastNat
    <2>3. FindIndex(s, idx) = CHOOSE i \in at : \A j \in at : i <= j
      BY <1>3 DEF FindIndex
    <2>4. PICK f : f = FindIndex(s, idx) /\ f \in at
      BY <2>2, <2>3
    <2>5. f \in 1 .. Len(s) /\ Index(s[f]) = idx /\ f \in Nat /\ f # -1
      BY <1>1, <2>4
    <2>6. Place(s, idx) = f - 1 /\ (f - 1) + 1 = f /\ f - 1 \in 0 .. Len(s) - 1
      BY <1>1, <2>4, <2>5 DEF Place
    <2> QED
      BY <2>5, <2>6
  <1> QED
    BY <1>2, <1>3

\* The hit that UpdateList finds is an item with the tracked key, when there is one.
LEMMA HitIsHit ==
  ASSUME NEW M, NEW m, m.shown \in ListOf(M), Hits(m) # {}
  PROVE  Hit(m) \in Hits(m) /\ Hit(m) \in 1 .. Len(m.shown)
  <1>1. DOMAIN m.shown = 1 .. Len(m.shown) /\ Len(m.shown) \in Nat
    BY DEF ListOf
  <1>2. Hits(m) \in SUBSET Nat /\ \A i \in Hits(m) : i \in 1 .. Len(m.shown)
    BY <1>1 DEF Hits
  <1>3. \E x \in Hits(m) : \A y \in Hits(m) : x <= y
    BY <1>2, LeastNat
  <1>4. Hit(m) \in Hits(m)
    BY <1>3 DEF Hit
  <1> QED
    BY <1>2, <1>4

\* The last part of UpdateList restores a selection and leaves the cursor where it is.
LEMMA RestoredSame ==
  ASSUME NEW m, DOMAIN m = ListFields, NEW r
  PROVE  Restored(m, r).shown = m.shown /\ Restored(m, r).cy = m.cy
  <1>1. PICK a, b : \/ Restored(m, r) = m
                    \/ Restored(m, r) = [[m EXCEPT !.selected = a] EXCEPT !.selected = b]
    BY DEF Restored, Restore, Keep
  <1> QED
    BY <1>1 DEF ListFields

\* A new result r, with the cursor put right, where m is the list before that
LEMMA ResultFor ==
  ASSUME SelectionInv, NEW r, IsResult(r), NEW m, m = Reselected(Shown(r), r)
  PROVE  /\ DOMAIN m = ListFields /\ m.shown \in ListOf(r.major)
         /\ ListAfter(r).shown = m.shown /\ ListAfter(r).cy = Pointed(m, r).cy
  <1>1. SoundList(m, r.major, c.idNth)
    BY ReselectedSound DEF IsResult
  <1>2. PICK n : n = Pointed(m, r)
    OBVIOUS
  <1>3. SameItems(m, n)
    BY <1>1, <1>2, PointedSame DEF SoundList
  <1>4. Restored(n, r).shown = n.shown /\ Restored(n, r).cy = n.cy
    BY <1>3, RestoredSame DEF SameItems, SameWindow
  <1> QED
    BY <1>1, <1>2, <1>3, <1>4 DEF ListAfter, SoundList, SameItems, SameWindow, Window

\* The cursor is on item idx of a list if that is where it is found.
LEMMA CursorOn ==
  ASSUME NEW M, NEW m, m.shown \in ListOf(M), m.cy \in 0 .. Len(m.shown) - 1
  PROVE  HasCurrent(m) /\ CurrentItem(m) = m.shown[m.cy + 1] /\ CurrentIndex(m) = Index(m.shown[m.cy + 1])
  BY DEF HasCurrent, Count, CurrentItem, ItemAt, CurrentIndex

\* A result of the same list leaves the cursor on its item.
LEMMA TracksItem ==
  ASSUME SelectionInv, NEW r, IsResult(r), c.track # "off", c.trackKey = NoIndex,
         c.target = NoIndex, HasCurrent(l), r.major = c.revision[1],
         Place(ListAfter(r).shown, CurrentIndex(l)) >= 0
  PROVE  CurrentIndex(ListAfter(r)) = CurrentIndex(l)
  <1>1. PICK m, n, at : m = Reselected(Shown(r), r) /\ n = ListAfter(r) /\ at = CurrentIndex(l)
    OBVIOUS
  <1>2. /\ DOMAIN m = ListFields /\ m.shown \in ListOf(r.major)
        /\ n.shown = m.shown /\ n.cy = Pointed(m, r).cy
    BY <1>1, ResultFor
  <1>3. at \in Nat
    BY <1>1, CurrentItemOf DEF SelectionInv
  <1>4. Place(m.shown, at) \in 0 .. Len(m.shown) - 1 /\ Index(m.shown[Place(m.shown, at) + 1]) = at
    BY <1>1, <1>2, PlaceFinds
  <1>5. KeptIndex(r) = at
    <2>1. Count(l) > 0
      <3>1. l.shown \in ListOf(c.revision[1])
        BY DEF SelectionInv, SoundList
      <3>2. Len(l.shown) \in Nat
        BY <3>1 DEF ListOf
      <3> QED
        BY <3>2 DEF HasCurrent, Count
    <2> QED
      BY <1>1, <2>1 DEF KeptIndex
  <1>6. Pointed(m, r) = Recursored(m, at)
    BY <1>5 DEF Pointed, ByKey
  <1>7. Recursored(m, at).cy = Place(m.shown, at)
    <2>1. ~(at < 0) /\ Place(m.shown, at) >= 0
      BY <1>3, <1>4
    <2> QED
      BY <1>2, <2>1 DEF Recursored, ListFields
  <1>8. n.cy \in 0 .. Len(n.shown) - 1 /\ Index(n.shown[n.cy + 1]) = at
    BY <1>2, <1>4, <1>6, <1>7
  <1> QED
    BY <1>1, <1>2, <1>8, CursorOn

\* The wait for a reloaded list ends with the cursor on an item with the tracked key.
LEMMA TracksKey ==
  ASSUME SelectionInv, NEW r, IsResult(r), c.trackBlocked, ~ControlAfter(r).trackBlocked,
         \E i \in DOMAIN ListAfter(r).shown : Key(ListAfter(r).shown[i]) = c.trackKey
  PROVE  HasCurrent(ListAfter(r)) /\ Key(CurrentItem(ListAfter(r))) = c.trackKey
  <1>1. PICK m, n : m = Reselected(Shown(r), r) /\ n = ListAfter(r)
    OBVIOUS
  <1>2. /\ DOMAIN m = ListFields /\ m.shown \in ListOf(r.major)
        /\ n.shown = m.shown /\ n.cy = Pointed(m, r).cy
    BY <1>1, ResultFor
  <1>3. ByKey
    <2> SUFFICES ASSUME ~ByKey PROVE FALSE
      OBVIOUS
    <2>1. ControlAfter(r).trackBlocked = c.trackBlocked
      BY DEF ControlAfter, SelectionInv, ControlFields
    <2> QED
      BY <2>1
  <1>4. Hits(m) # {}
    BY <1>1, <1>2 DEF Hits
  <1>5. Hit(m) \in Hits(m) /\ Hit(m) \in 1 .. Len(m.shown)
    BY <1>2, <1>4, HitIsHit
  <1>6. Pointed(m, r).cy = Hit(m) - 1
    BY <1>2, <1>3, <1>4 DEF Pointed, ListFields
  <1>7. PICK h : h = Hit(m) /\ h \in 1 .. Len(m.shown) /\ Key(m.shown[h]) = c.trackKey
    BY <1>5 DEF Hits
  <1>8. Len(m.shown) \in Nat
    BY <1>2 DEF ListOf
  <1>9. n.cy = h - 1 /\ n.cy \in 0 .. Len(n.shown) - 1 /\ n.cy + 1 = h
    BY <1>2, <1>6, <1>7, <1>8
  <1>10. HasCurrent(n) /\ CurrentItem(n) = n.shown[n.cy + 1]
    BY <1>2, <1>9, CursorOn
  <1> QED
    BY <1>1, <1>2, <1>7, <1>9, <1>10

\* What TrackKeepsItem says of a step
TrackStep ==
  e.searches # <<>> /\ e'.searches = Tail(e.searches) =>
    /\ c.track # "off" /\ c.trackKey = NoIndex /\ c.target = NoIndex /\ HasCurrent(l)
         /\ c'.revision[1] = c.revision[1] /\ Place(l'.shown, CurrentIndex(l)) >= 0
       => CurrentIndex(l') = CurrentIndex(l)
    /\ c.trackBlocked /\ ~c'.trackBlocked /\ (\E i \in DOMAIN l'.shown : Key(l'.shown[i]) = c.trackKey)
       => HasCurrent(l') /\ Key(CurrentItem(l')) = c.trackKey

\* Every step keeps the tracked item under the cursor.
LEMMA TrackStepHolds ==
  ASSUME SelectionInv, CoordInv, [Next]_vars
  PROVE  TrackStep
  <1>1. CASE TakesNone
    BY <1>1 DEF TakesNone, TrackStep
  <1>2. CASE Results
    <2>1. PICK r : IsResult(r) /\ l' = ListAfter(r) /\ c' = ControlAfter(r)
      BY <1>2, DeliverResult DEF Results
    <2>2. c'.revision[1] = r.major
      BY <2>1, ControlAfterDef DEF SelectionInv
    <2>3. /\ c.track # "off" /\ c.trackKey = NoIndex /\ c.target = NoIndex /\ HasCurrent(l)
               /\ c'.revision[1] = c.revision[1] /\ Place(l'.shown, CurrentIndex(l)) >= 0
             => CurrentIndex(l') = CurrentIndex(l)
      BY <2>1, <2>2, TracksItem
    <2>4. c.trackBlocked /\ ~c'.trackBlocked /\ (\E i \in DOMAIN l'.shown : Key(l'.shown[i]) = c.trackKey)
             => HasCurrent(l') /\ Key(CurrentItem(l')) = c.trackKey
      BY <2>1, TracksKey
    <2> QED
      BY <2>3, <2>4 DEF TrackStep
  <1> QED
    BY <1>1, <1>2, CoordStep

\* For all lists of results and all bindings: a new result of the same list leaves the cursor on its
\* item, and the wait for a reloaded list ends on an item with the tracked key.
THEOREM TrackingKeepsItem == Spec => TrackKeepsItem
  <1>1. Init => SelectionInv /\ CoordInv
    BY SelectionInit, CoordInit
  <1>2. SelectionInv /\ CoordInv /\ [Next]_vars => SelectionInv' /\ CoordInv'
    BY SelectionStep, CoordStep
  <1>3. SelectionInv /\ CoordInv /\ [Next]_vars => [TrackStep]_vars
    BY TrackStepHolds
  <1>4. [][TrackStep]_vars => TrackKeepsItem
    BY DEF TrackStep, TrackKeepsItem
  <1> QED
    BY <1>1, <1>2, <1>3, <1>4, PTL DEF Spec
----------------------------------------------------------------------------
(* Waiting for a search *)

\* With it, that each request asks for a search or a reload: one that asks for neither would be taken
\* without an answer.
WaitInv ==
  /\ WaitsAnswered
  /\ c.wait.searching \in BOOLEAN
  /\ e.request # NoRequest => e.request.changed \/ e.request.command \in {"plain", "sync"}

\* The terminal begins with no action put off, and waits for a search only while input is read.
LEMMA WaitInit ==
  ASSUME Init
  PROVE  WaitInv
  <1>1. PICK scene \in Scenes :
          /\ c = scene.c
          /\ e = [major |-> 0, minor |-> 0, reading |-> scene.c.reading, sync |-> FALSE, request |-> NoRequest,
                  searches |-> <<>>, lost |-> FALSE, events |-> <<>>, wake |-> FALSE,
                  quiet |-> scene.requests = 0, requests |-> scene.requests]
    BY DEF Init
  <1>2. /\ c.wait \in [blocked : {FALSE}, pending : {<<>>}, searching : BOOLEAN]
        /\ c.wait.searching => c.reading
    BY <1>1, TerminalAssumption
  <1>3. e.request = NoRequest /\ e.reading = c.reading
    BY <1>1
  <1> QED
    BY <1>2, <1>3 DEF WaitInv, WaitsAnswered, Answers

\* A step that leaves the waits as they are, the coordinator's answers to come, and the request
LEMMA WaitSame ==
  ASSUME WaitInv, c'.wait = c.wait, e'.wake = e.wake, e'.request = e.request,
         e'.reading = e.reading, e'.searches = e.searches, e'.lost = e.lost
  PROVE  WaitInv'
  BY DEF WaitInv, WaitsAnswered, Answers

\* The request of an iteration that sends one
LEMMA RequestAsks ==
  ASSUME NEW s, Asks(s.x), Sends(s)
  PROVE  /\ Request(s) # NoRequest
         /\ Request(s).changed \/ Request(s).command \in {"plain", "sync"}
  <1>1. PICK r, bump : r = Request(s) /\ r = [changed |-> s.x.changed, command |-> s.x.command, bump |-> bump]
    BY DEF Request
  <1>2. NoRequest.changed = FALSE /\ NoRequest.command = None
    BY DEF NoRequest
  <1>3. r # NoRequest
    BY <1>1, <1>2 DEF Sends
  <1> QED
    BY <1>1, <1>3 DEF Asks, Sends

\* An iteration leaves put off only what waits, and a search it waits for is requested with it.
LEMMA LoopWait ==
  ASSUME SelectionInv, CoordInv, WaitInv, NEW kind, NEW arg, Loop(kind, arg)
  PROVE  WaitInv'
  <1>1. PICK callbacks, s :
          /\ s = Iteration(Event(kind, arg), ActionsGiven(kind, arg), callbacks)
          /\ c' = [s.c EXCEPT !.wait.searching = @ \/ Sends(s)]
          /\ e' = IF Sends(s)
                  THEN [Taken(kind) EXCEPT !.request = Request(s), !.requests = IF e.quiet THEN 0 ELSE @ - 1]
                  ELSE Taken(kind)
    BY DEF Loop
  <1>2. Like(s.c, c) /\ Asks(s.x)
    <2>1. Good(s, c)
      BY <1>1, IterationGood
    <2> QED
      BY <2>1 DEF Good
  <1>3. PICK v, w : v = s.c.wait /\ w = [v EXCEPT !.searching = @ \/ Sends(s)] /\ c' = [s.c EXCEPT !.wait = w]
    BY <1>1
  <1>4. /\ c'.wait = w /\ (w.pending # <<>> => w.blocked)
        /\ w.searching = (c.wait.searching \/ Sends(s))
    BY <1>2, <1>3 DEF Like, Waits, WaitFields, ControlFields
  <1>5. PICK t : /\ t = Taken(kind) /\ DOMAIN t = CoordFields /\ t.searches = e.searches
                 /\ t.reading = e.reading /\ t.request = e.request /\ t.lost = e.lost
    <2>1. PICK t : t = Taken(kind)
      OBVIOUS
    <2>2. t = [e EXCEPT !.events = <<>>] \/ t = [e EXCEPT !.wake = FALSE] \/ t = e
      BY <2>1 DEF Taken
    <2> QED
      BY <2>1, <2>2 DEF CoordFields, CoordInv
  <1>6. CASE Sends(s)
    <2>1. e'.request = Request(s)
      BY <1>1, <1>5, <1>6 DEF CoordFields
    <2>2. /\ e'.request # NoRequest
          /\ e'.request.changed \/ e'.request.command \in {"plain", "sync"}
      BY <1>2, <1>6, <2>1, RequestAsks
    <2> QED
      BY <1>4, <2>2 DEF WaitInv, WaitsAnswered, Answers
  <1>7. CASE ~Sends(s)
    <2>1. /\ e'.request = e.request /\ e'.searches = e.searches /\ e'.reading = e.reading
          /\ e'.lost = e.lost
      BY <1>1, <1>5, <1>7
    <2>2. w.searching = c.wait.searching
      BY <1>4, <1>7 DEF WaitInv
    <2> QED
      BY <1>4, <2>1, <2>2 DEF WaitInv, WaitsAnswered, Answers
  <1> QED
    BY <1>6, <1>7

\* A redraw ends no wait.
LEMMA RenderWait ==
  ASSUME SelectionInv, CoordInv, WaitInv, Render
  PROVE  WaitInv'
  <1>1. PICK m : Draw(m)
    BY DEF Render
  <1>2. c'.wait = c.wait
    BY <1>1 DEF Draw, SelectionInv, ControlFields
  <1>3. /\ e'.wake = e.wake /\ e'.request = e.request /\ e'.reading = e.reading
        /\ e'.searches = e.searches /\ e'.lost = e.lost
    <2>1. e' = [e EXCEPT !.events = Append(@, "focus")] \/ e' = e
      BY <1>1 DEF Draw
    <2> QED
      BY <2>1 DEF CoordInv, CoordFields
  <1> QED
    BY <1>2, <1>3, WaitSame

\* The result of the whole list ends the wait and wakes the loop; any other leaves it to a later one.
LEMMA DeliverWait ==
  ASSUME SelectionInv, CoordInv, WaitInv, NEW indices \in Lists, Deliver(indices)
  PROVE  WaitInv'
  <1>1. PICK r : /\ r.final = Head(e.searches).final /\ c' = ControlAfter(r)
                 /\ e' = [e EXCEPT !.searches = Tail(@), !.events = @ \o Told(r), !.wake = @ \/ Wakes(r)]
    BY DEF Deliver
  <1>2. PICK was : was = e.searches /\ was # <<>> /\ was \in Seq(Jobs)
    BY DEF Deliver, CoordInv
  <1>3. c'.wait = IF r.final THEN [c.wait EXCEPT !.searching = FALSE, !.blocked = FALSE] ELSE c.wait
    BY <1>1, ControlAfterDef DEF SelectionInv
  <1>4. /\ e'.searches = Tail(was) /\ e'.wake = (e.wake \/ Wakes(r)) /\ e'.request = e.request
        /\ e'.reading = e.reading /\ e'.lost = e.lost
    BY <1>1, <1>2 DEF CoordInv, CoordFields
  <1>5. CASE r.final
    <2>1. /\ c'.wait.searching = FALSE /\ c'.wait.blocked = FALSE
          /\ c'.wait.pending = c.wait.pending
      BY <1>3, <1>5 DEF SelectionInv, WaitFields
    <2>2. c.wait.pending # <<>> => e'.wake
      BY <1>4, <1>5 DEF WaitInv, WaitsAnswered, Wakes
    <2> QED
      BY <1>4, <2>1, <2>2 DEF WaitInv, WaitsAnswered
  <1>6. CASE ~r.final
    <2>1. c'.wait = c.wait
      BY <1>3, <1>6
    <2>2. ASSUME NEW i \in DOMAIN was, was[i].final
          PROVE  \E j \in DOMAIN Tail(was) : Tail(was)[j].final
      <3>1. /\ Head(was) = was[1] /\ Len(was) \in Nat \ {0} /\ Len(Tail(was)) = Len(was) - 1
            /\ Tail(was) \in Seq(Jobs) /\ \A j \in 1 .. Len(Tail(was)) : Tail(was)[j] = was[j + 1]
        BY <1>2, TailOfOne
      <3>2. i # 1
        BY <1>1, <1>2, <1>6, <2>2, <3>1
      <3>3. PICK j : j = i - 1 /\ j \in 1 .. Len(Tail(was)) /\ j + 1 = i
        BY <1>2, <3>1, <3>2
      <3> QED
        BY <2>2, <3>1, <3>3
    <2>3. Answers(e) => Answers(e')
      BY <1>2, <1>4, <2>2 DEF Answers
    <2> QED
      BY <1>4, <2>1, <2>3 DEF WaitInv, WaitsAnswered
  <1> QED
    BY <1>5, <1>6

\* A new search is under way, or lost.
LEMMA NewSearch ==
  ASSUME NEW new, NEW ss, NEW lost, lost = (\A i \in DOMAIN ss : ss[i] # new)
  PROVE  lost \/ \E i \in DOMAIN ss : ss[i] = new
  OBVIOUS

\* A request that is taken starts a search, which is final or followed by the end of the input, or a
\* reload, whose end of input starts one.
LEMMA TakeRequestWait ==
  ASSUME CoordInv, WaitInv, TakeRequest
  PROVE  WaitInv'
  <1> DEFINE r == e.request
             e1 == [e EXCEPT !.request = NoRequest]
  <1>1. PICK e2, ss :
          /\ e2 = CASE r.command = "plain" ->
                         [e1 EXCEPT !.major = @ + 1, !.minor = 0, !.reading = TRUE, !.sync = FALSE]
                    [] r.command = "sync" -> [e1 EXCEPT !.reading = TRUE, !.sync = TRUE]
                    [] r.command \notin {"plain", "sync"} /\ r.bump /\ ~e.sync -> [e1 EXCEPT !.minor = @ + 1]
                    [] OTHER -> e1
          /\ e' = IF r.changed THEN Ask(e2, Search(e2, TRUE), ss) ELSE e2
          /\ UNCHANGED c /\ r # NoRequest
    BY DEF TakeRequest
  <1>2. /\ DOMAIN e1 = CoordFields /\ e1.major \in Nat /\ e1.minor \in Nat /\ e1.reading \in BOOLEAN
        /\ e1.searches = e.searches /\ e1.request = NoRequest /\ e1.wake = e.wake
    BY DEF CoordInv, CoordFields
  <1> HIDE DEF e1
  <1>3. \/ e2 = [e1 EXCEPT !.major = @ + 1, !.minor = 0, !.reading = TRUE, !.sync = FALSE]
        \/ e2 = [e1 EXCEPT !.reading = TRUE, !.sync = TRUE]
        \/ r.command \notin {"plain", "sync"} /\ e2 = [e1 EXCEPT !.minor = @ + 1]
        \/ r.command \notin {"plain", "sync"} /\ e2 = e1
    BY <1>1
  <1>4. /\ DOMAIN e2 = CoordFields /\ e2.major \in Nat /\ e2.minor \in Nat /\ e2.reading \in BOOLEAN
        /\ e2.searches = e.searches /\ e2.request = NoRequest /\ e2.wake = e.wake
        /\ r.command \in {"plain", "sync"} => e2.reading
    <2>1. PICK a : a = r.command
      OBVIOUS
    <2>2. \/ e2 = [e1 EXCEPT !.major = @ + 1, !.minor = 0, !.reading = TRUE, !.sync = FALSE]
          \/ e2 = [e1 EXCEPT !.reading = TRUE, !.sync = TRUE]
          \/ a \notin {"plain", "sync"} /\ e2 = [e1 EXCEPT !.minor = @ + 1]
          \/ a \notin {"plain", "sync"} /\ e2 = e1
      BY <1>3, <2>1
    <2> HIDE DEF r
    <2>3. /\ DOMAIN e2 = CoordFields /\ e2.major \in Nat /\ e2.minor \in Nat /\ e2.reading \in BOOLEAN
          /\ e2.searches = e.searches /\ e2.request = NoRequest /\ e2.wake = e.wake
      <3>1. CASE e2 = [e1 EXCEPT !.major = @ + 1, !.minor = 0, !.reading = TRUE, !.sync = FALSE]
        BY <1>2, <3>1 DEF CoordFields
      <3>2. CASE e2 = [e1 EXCEPT !.reading = TRUE, !.sync = TRUE]
        BY <1>2, <3>2 DEF CoordFields
      <3>3. CASE e2 = [e1 EXCEPT !.minor = @ + 1] \/ e2 = e1
        BY <1>2, <3>3 DEF CoordFields
      <3> QED
        BY <2>2, <3>1, <3>2, <3>3
    <2>4. a \in {"plain", "sync"} => e2.reading
      BY <1>2, <2>2 DEF CoordFields
    <2> QED
      BY <2>1, <2>3, <2>4
  <1>5. e'.request = NoRequest /\ e'.wake = e.wake /\ e'.reading = e2.reading
    BY <1>1, <1>4 DEF CoordFields, Ask
  <1>6. Answers(e') \/ e'.lost
    <2>1. CASE e2.reading
      BY <1>5, <2>1 DEF Answers
    <2>2. CASE ~e2.reading
      <3>1. PICK new : new = Search(e2, TRUE)
        OBVIOUS
      <3>2. new.final
        BY <3>1, <2>2 DEF Search
      <3>3. PICK lost : lost = (\A i \in DOMAIN ss : ss[i] # new)
        OBVIOUS
      <3>4. r.changed /\ e'.searches = ss /\ e'.lost = lost
        BY <1>1, <1>4, <2>2, <3>1, <3>3 DEF WaitInv, CoordFields, Ask
      <3> QED
        BY <3>2, <3>3, <3>4, NewSearch DEF Answers
    <2> QED
      BY <2>1, <2>2
  <1> QED
    BY <1>1, <1>5, <1>6 DEF WaitInv, WaitsAnswered

\* More input keeps the wait, and its end is followed by a search of the whole list.
LEMMA ReadWait ==
  ASSUME SelectionInv, CoordInv, WaitInv, ReadMore \/ ReadEnd
  PROVE  WaitInv'
  <1>1. c'.wait = c.wait
    BY DEF ReadMore, ReadEnd, UpdateCount, SelectionInv, ControlFields
  <1>2. (Answers(e') \/ e'.lost) /\ e'.wake = e.wake /\ e'.request = e.request
    <2>1. CASE ReadMore
      <3>1. PICK ss, lost : e' = [e EXCEPT !.searches = ss, !.lost = lost] /\ e.reading
        BY <2>1 DEF ReadMore, Ask
      <3> QED
        BY <3>1 DEF Answers, CoordInv, CoordFields
    <2>2. CASE ReadEnd
      <3>1. PICK e1, ss :
              /\ e1 = [e EXCEPT !.reading = FALSE, !.sync = FALSE,
                          !.major = IF e.sync THEN @ + 1 ELSE @, !.minor = IF e.sync THEN 0 ELSE @]
              /\ e' = Ask(e1, Search(e1, FALSE), ss)
        BY <2>2 DEF ReadEnd
      <3>2. /\ DOMAIN e1 = CoordFields /\ e1.major \in Nat /\ e1.minor \in Nat /\ e1.reading = FALSE
            /\ e1.searches = e.searches /\ e1.request = e.request /\ e1.wake = e.wake
        BY <3>1 DEF CoordInv, CoordFields
      <3>3. PICK new : new = Search(e1, FALSE)
        OBVIOUS
      <3>4. new.final
        BY <3>2, <3>3 DEF Search
      <3>5. PICK lost : lost = (\A i \in DOMAIN ss : ss[i] # new)
        OBVIOUS
      <3>6. /\ e'.searches = ss /\ e'.lost = lost /\ e'.wake = e.wake /\ e'.request = e.request
        BY <3>1, <3>2, <3>3, <3>5 DEF CoordFields, Ask
      <3> QED
        BY <3>4, <3>5, <3>6, NewSearch DEF Answers
    <2> QED
      BY <2>1, <2>2
  <1> QED
    BY <1>1, <1>2 DEF WaitInv, WaitsAnswered

\* Every step keeps it.
LEMMA WaitStep ==
  ASSUME SelectionInv, CoordInv, WaitInv, [Next]_vars
  PROVE  WaitInv'
  <1>1. CASE \E kind \in Kinds : \E arg \in Given(kind) : Loop(kind, arg)
    BY <1>1, LoopWait
  <1>2. CASE Render
    BY <1>2, RenderWait
  <1>3. CASE Results
    BY <1>3, DeliverWait DEF Results
  <1>4. CASE TakeRequest
    BY <1>4, TakeRequestWait
  <1>5. CASE ReadMore \/ ReadEnd
    BY <1>5, ReadWait
  <1>6. CASE Exit \/ (\E x \in 0 .. MaxPattern : ClickOnPrompt(x)) \/ UNCHANGED vars
    <2>1. e' = e /\ c'.wait = c.wait
      BY <1>6 DEF Exit, ClickOnPrompt, vars, SelectionInv, ControlFields
    <2> QED
      BY <2>1, WaitSame
  <1> QED
    BY <1>1, <1>2, <1>3, <1>4, <1>5, <1>6 DEF Next

\* Whatever is waited for, in whichever nesting of triggers and background commands: what was put off
\* is never left behind, and while a search is awaited the coordinator has one to make, or the matcher
\* has dropped the last one.
THEOREM WaitsAreAnswered == Spec => []WaitsAnswered
  <1>1. Init => SelectionInv /\ CoordInv /\ WaitInv
    BY SelectionInit, CoordInit, WaitInit
  <1>2. SelectionInv /\ CoordInv /\ WaitInv /\ [Next]_vars => SelectionInv' /\ CoordInv' /\ WaitInv'
    BY SelectionStep, CoordStep, WaitStep
  <1>3. WaitInv => WaitsAnswered
    BY DEF WaitInv
  <1> QED
    BY <1>1, <1>2, <1>3, PTL DEF Spec
----------------------------------------------------------------------------
(* The cursor on the screen *)

\* A list whose lines can be counted, and the same wherever the cursor and the offset are
Measured(m) == Window(m) /\ Len(m.shown) \in Nat
SameLines(m, n) == SameWindow(m, n) /\ n.shown = m.shown

\* Every item has a line, besides the gap.
LEMMA LinesOfItem ==
  ASSUME NEW m, Measured(m), NEW i
  PROVE  ItemLines(m, i) \in Nat /\ ItemLines(m, i) >= 1 + m.gap
  <1>1. PICK item : item = ItemAt(m, i)
    OBVIOUS
  <1>2. OwnLines(m, item) \in Nat \ {0} /\ m.gap \in Nat
    BY DEF OwnLines, Measured, Window
  <1> QED
    BY <1>1, <1>2 DEF ItemLines

\* Lines are cut off only if they are too many.
LEMMA CutOffLines ==
  ASSUME NEW m, Measured(m), NEW i, NEW atMost \in Int, NEW cut, cut = LinesUpTo(m, i, atMost)
  PROVE  /\ cut.n \in Int /\ cut.n <= ItemLines(m, i)
         /\ cut.over <=> ItemLines(m, i) > atMost
         /\ cut.n = ItemLines(m, i) \/ (cut.n = atMost + m.gap /\ ItemLines(m, i) > atMost + m.gap)
  <1>1. PICK t : t = ItemLines(m, i) /\ t \in Nat /\ t >= 1 + m.gap
    BY LinesOfItem
  <1>2. cut = CutOff(m, t, atMost) /\ m.gap \in Nat
    BY <1>1 DEF LinesUpTo, Measured, Window
  <1>3. CASE m.multiLine /\ t > 1 + m.gap /\ t > atMost + m.gap
    <2>1. cut = [n |-> atMost + m.gap, over |-> TRUE]
      BY <1>2, <1>3 DEF CutOff
    <2> QED
      BY <2>1, <1>1, <1>2, <1>3
  <1>4. CASE ~(m.multiLine /\ t > 1 + m.gap /\ t > atMost + m.gap)
    <2>1. PICK over : over = (t > atMost)
      OBVIOUS
    <2>2. cut = [n |-> t, over |-> over]
      BY <1>2, <1>4, <2>1 DEF CutOff
    <2>3. cut.n = t /\ cut.over = over
      BY <2>2
    <2>4. cut.n \in Int /\ cut.n <= t
      BY <1>1, <2>3
    <2>5. over <=> t > atMost
      BY <2>1
    <2> QED
      BY <1>1, <2>3, <2>4, <2>5
  <1> QED
    BY <1>3, <1>4
\* The lines of the item at i when the window begins with it, and before it when it begins with the
\* first item
Own(m, i) == LinesUpTo(m, i, m.height).n
Rows(m, P) ==
  /\ P \in [0 .. Count(m) -> Nat] /\ P[0] = 0
  /\ \A i \in 1 .. Count(m) : P[i] = P[i - 1] + Own(m, i - 1)

\* In a window every item has a line or more.
LEMMA OwnLinesOf ==
  ASSUME NEW m, Measured(m), m.height > 0, NEW i
  PROVE  Own(m, i) \in Nat /\ Own(m, i) >= 1 /\ Own(m, i) <= ItemLines(m, i)
  <1>1. PICK cut : cut = LinesUpTo(m, i, m.height)
    OBVIOUS
  <1>2. m.height \in Int /\ m.gap \in Nat
    BY DEF Measured, Window
  <1>3. PICK t : t = ItemLines(m, i) /\ t \in Nat /\ t >= 1 + m.gap
    BY LinesOfItem
  <1>4. cut.n \in Int /\ cut.n <= t /\ (cut.n = t \/ cut.n = m.height + m.gap)
    BY <1>1, <1>2, <1>3, CutOffLines
  <1> QED
    BY <1>1, <1>2, <1>3, <1>4 DEF Own

LEMMA RowsExist ==
  ASSUME NEW m, Measured(m), m.height > 0
  PROVE  \E P : Rows(m, P)
  <1> DEFINE N == Count(m)
  <1>1. N \in Nat
    BY DEF Measured, Count, Window
  <1>2. PICK len : len = [i \in 1 .. N |-> Own(m, i - 1)]
    OBVIOUS
  <1>3. len \in [1 .. N -> Nat]
    BY <1>2, OwnLinesOf
  <1>4. PICK P \in [0 .. N -> Nat] : P[0] = 0 /\ \A i \in 1 .. N : P[i] = P[i - 1] + len[i]
    BY <1>1, <1>3, PrefixSums
  <1> QED
    BY <1>2, <1>4 DEF Rows

LEMMA RowsGrow ==
  ASSUME NEW m, Measured(m), m.height > 0, NEW P, Rows(m, P),
         NEW a \in 0 .. Count(m), NEW b \in 0 .. Count(m), a <= b
  PROVE  P[a] + (b - a) <= P[b]
  <1> DEFINE N == Count(m)
             S(n) == {x \in Nat : P[a] + (n - a) <= x}
  <1>1. N \in Nat /\ P \in [0 .. N -> Nat] /\ \A i \in 1 .. N : P[i] = P[i - 1] + Own(m, i - 1)
    BY DEF Measured, Count, Rows, Window
  <1>2. PICK T : T = [n \in a .. b |-> S(n)]
    OBVIOUS
  <1>3. P[a] \in T[a]
    BY <1>1, <1>2
  <1>4. ASSUME NEW n \in a + 1 .. b, P[n - 1] \in T[n - 1] PROVE P[n] \in T[n]
    <2>1. n \in 1 .. N /\ n - 1 \in 0 .. N /\ n - 1 \in a .. b /\ n \in a .. b
      BY <1>1
    <2>2. PICK x : x = Own(m, n - 1) /\ x \in Nat /\ x >= 1
      BY OwnLinesOf
    <2>3. P[n] = P[n - 1] + x /\ P[n - 1] \in Nat /\ P[a] \in Nat
      BY <1>1, <2>1, <2>2
    <2>4. P[a] + ((n - 1) - a) <= P[n - 1]
      BY <1>2, <1>4, <2>1
    <2>5. P[a] + (n - a) <= P[n]
      BY <2>2, <2>3, <2>4
    <2> QED
      BY <1>1, <1>2, <2>1, <2>5
  <1> HIDE DEF S
  <1>5. \A n \in a .. b : P[n] \in T[n]
    <2>1. a \in Int /\ b \in Int
      OBVIOUS
    <2> QED
      BY ONLY <2>1, a <= b, <1>3, <1>4, ThroughoutFrom
  <1>6. b \in a .. b
    BY <1>1
  <1> QED
    BY <1>2, <1>5, <1>6 DEF S

\* The lines above the item at i, in a window that begins with the item at a
LEMMA AboveIs ==
  ASSUME NEW m, Measured(m), m.height > 0, NEW P, Rows(m, P),
         NEW a \in 0 .. Count(m), NEW b \in 0 .. Count(m), a <= b,
         NEW above, above[a] = 0, \A i \in a + 1 .. b : above[i] = above[i - 1] + Own(m, i - 1)
  PROVE  above[b] = P[b] - P[a]
  <1> DEFINE N == Count(m)
  <1>1. N \in Nat /\ P \in [0 .. N -> Nat] /\ \A i \in 1 .. N : P[i] = P[i - 1] + Own(m, i - 1)
    BY DEF Measured, Count, Rows, Window
  <1>2. PICK T : T = [n \in a .. b |-> {P[n] - P[a]}]
    OBVIOUS
  <1>3. above[a] = 0 /\ \A n \in a + 1 .. b : above[n] = above[n - 1] + Own(m, n - 1)
    OBVIOUS
  <1>4. above[a] \in T[a]
    BY <1>1, <1>2, <1>3
  <1>5. ASSUME NEW n \in a + 1 .. b, above[n - 1] \in T[n - 1] PROVE above[n] \in T[n]
    <2>1. n \in 1 .. N /\ n - 1 \in 0 .. N /\ n - 1 \in a .. b /\ n \in a .. b
      BY <1>1
    <2>2. PICK x : x = Own(m, n - 1) /\ x \in Nat
      BY OwnLinesOf
    <2>3. P[n] = P[n - 1] + x /\ P[n - 1] \in Nat /\ P[a] \in Nat
      BY <1>1, <2>1, <2>2
    <2>4. above[n - 1] = P[n - 1] - P[a]
      BY <1>2, <1>5, <2>1
    <2>5. above[n] = P[n] - P[a]
      BY <1>3, <2>2, <2>3, <2>4
    <2> QED
      BY <1>2, <2>1, <2>5
  <1>6. \A n \in a .. b : above[n] \in T[n]
    <2>1. a \in Int /\ b \in Int
      OBVIOUS
    <2> QED
      BY ONLY <2>1, a <= b, <1>4, <1>5, ThroughoutFrom
  <1>7. b \in a .. b
    BY <1>1
  <1> QED
    BY <1>2, <1>6, <1>7

\* The function exists.
LEMMA AboveExists ==
  ASSUME NEW m, Measured(m), m.height > 0, NEW P, Rows(m, P),
         NEW a \in 0 .. Count(m), NEW b \in 0 .. Count(m), a <= b
  PROVE  \E above : above = [i \in a .. b |-> IF i = a THEN 0 ELSE above[i - 1] + Own(m, i - 1)]
  <1> DEFINE N == Count(m)
  <1>1. N \in Nat /\ P \in [0 .. N -> Nat] /\ \A i \in 1 .. N : P[i] = P[i - 1] + Own(m, i - 1)
    BY DEF Measured, Count, Rows, Window
  <1>2. PICK f : f = [i \in a .. b |-> P[i] - P[a]]
    OBVIOUS
  <1>3. ASSUME NEW i \in a .. b PROVE f[i] = IF i = a THEN 0 ELSE f[i - 1] + Own(m, i - 1)
    <2>1. CASE i = a
      BY <1>1, <1>2, <2>1
    <2>2. CASE i # a
      <3>1. i \in 1 .. N /\ i - 1 \in 0 .. N /\ i - 1 \in a .. b
        BY <1>1, <2>2
      <3>2. PICK x : x = Own(m, i - 1) /\ x \in Nat
        BY OwnLinesOf
      <3>3. P[i] = P[i - 1] + x /\ P[i - 1] \in Nat /\ P[a] \in Nat
        BY <1>1, <3>1, <3>2
      <3>4. f[i] = P[i] - P[a] /\ f[i - 1] = P[i - 1] - P[a]
        BY <1>2, <3>1
      <3> QED
        BY <2>2, <3>2, <3>3, <3>4
    <2> QED
      BY <2>1, <2>2
  <1>4. f = [i \in a .. b |-> f[i]]
    BY <1>2
  <1> QED
    BY <1>3, <1>4

\* Whether the item at the cursor is visible in a window that begins with the item at f
Seen(m, P, f) == P[m.cy] - P[f] < m.height

\* How many items a window takes: those from f on, if there are enough; if not, those at the end
Fit(m, P, f, fit) ==
  /\ fit \in 1 .. m.height
  /\ \/ f + fit <= Count(m) /\ P[f + fit - 1] - P[f] < m.height
     \/ /\ f + fit >= Count(m) /\ P[Count(m)] - P[f] < m.height
        /\ P[Count(m) - 1] - P[Larger(Count(m) - fit, 0)] < m.height

\* What an item adds, when it is counted
Counts == [sum : Nat, full : BOOLEAN, items : Nat]

LEMMA AddItemCounts ==
  ASSUME NEW m, Measured(m), m.height > 0, NEW acc \in Counts, ~acc.full, acc.sum < m.height,
         NEW i, NEW k, SameLines(m, k), NEW next, next = AddItem(k, acc, i)
  PROVE  /\ next \in Counts
         /\ \/ next.items = acc.items + 1
            \/ next.full /\ next.items = acc.items /\ acc.items # 0
         /\ ~next.full => /\ next.items = acc.items + 1 /\ next.sum < m.height
                          /\ next.sum >= acc.sum + Own(m, i)
         /\ next.items = acc.items + 1 /\ acc.items # 0 => acc.sum + Own(m, i) <= m.height
  <1>1. PICK h \in Nat : h = m.height
    BY DEF Measured, Window
  <1>2. PICK was \in Nat : was = acc.sum /\ was < h
    BY <1>1 DEF Counts
  <1>3. PICK count \in Nat : count = acc.items
    BY DEF Counts
  <1>4. m.gap \in Nat
    BY DEF Measured, Window
  <1>5. PICK left \in Int : left = h - was
    BY <1>1, <1>2
  <1>6. PICK got : got = LinesUpTo(k, i, left)
    OBVIOUS
  <1>7. PICK t \in Nat : t = ItemLines(m, i)
    BY LinesOfItem
  <1>8. got = LinesUpTo(m, i, left) /\ k.height = h
    BY <1>1, <1>6 DEF SameLines, LinesUpTo, CutOff, ItemLines, OwnLines, ItemAt, SameWindow
  <1>9. PICK x \in Int : x = got.n /\ (x = t \/ x = left + m.gap)
    BY <1>4, <1>7, <1>8, CutOffLines
  <1>10. got.over <=> t > left
    BY <1>7, <1>8, CutOffLines
  <1>11. PICK own \in Nat : own = Own(m, i) /\ own <= t
    BY <1>7, OwnLinesOf
  <1>12. PICK sum \in Nat : sum = was + x
    <2>1. was + x \in Nat
      BY <1>4, <1>5, <1>9
    <2> QED
      BY <2>1
  <1>13. PICK full \in BOOLEAN : full = (sum >= h) /\ (full <=> sum >= h)
    <2>1. PICK b : b = IF sum >= h THEN TRUE ELSE FALSE
      OBVIOUS
    <2>2. b \in BOOLEAN /\ (b <=> sum >= h)
      BY <2>1
    <2>3. b = (sum >= h)
      BY <2>2
    <2> QED
      BY <2>2, <2>3
  <1>14. PICK items : items = IF ~full \/ count = 0 \/ ~got.over THEN count + 1 ELSE count
    OBVIOUS
  <1>15. next = [sum |-> sum, full |-> full, items |-> items]
    BY <1>2, <1>3, <1>5, <1>6, <1>8, <1>9, <1>12, <1>13, <1>14 DEF AddItem, AddLines
  <1>16. items \in Nat /\ next.items = items /\ next.full = full /\ next.sum = sum
    BY <1>14, <1>15
  <1>17. next \in Counts
    BY <1>15, <1>16 DEF Counts
  <1>18. items = count + 1 \/ (full /\ items = count /\ count # 0)
    BY <1>14
  <1>19. ~full => x = t /\ sum < h /\ items = count + 1
    BY <1>4, <1>5, <1>9, <1>12, <1>13, <1>14
  <1>20. ~full => sum >= was + own
    BY <1>11, <1>12, <1>19
  <1>21. items = count + 1 /\ count # 0 => was + own <= h
    <2>1. CASE ~full
      BY <1>11, <1>12, <1>19, <1>20, <2>1
    <2>2. CASE full /\ items = count + 1 /\ count # 0
      <3>1. ~got.over
        BY <1>14, <2>2
      <3> QED
        BY <1>5, <1>10, <1>11, <3>1
    <2> QED
      BY <2>1, <2>2
  <1> QED
    BY <1>1, <1>2, <1>3, <1>11, <1>16, <1>17, <1>18, <1>19, <1>20, <1>21

\* What is counted of the items f .. n - 1
Down(m, P, f, n) ==
  {acc \in Counts :
     IF acc.full
     THEN acc.items \in 1 .. n - f /\ P[f + acc.items - 1] - P[f] < m.height
     ELSE acc.items = n - f /\ acc.sum < m.height /\ acc.sum >= P[n] - P[f]}

LEMMA DownStep ==
  ASSUME NEW m, Measured(m), m.height > 0, NEW P, Rows(m, P),
         NEW f \in 0 .. Count(m), NEW n \in f + 1 .. Count(m), NEW acc \in Down(m, P, f, n - 1),
         NEW k, SameLines(m, k)
  PROVE  AddItem(k, acc, n - 1) \in Down(m, P, f, n)
  <1>0. PICK N \in Nat, h \in Nat : N = Count(m) /\ h = m.height
    BY DEF Measured, Count, Window
  <1>1. P \in [0 .. N -> Nat] /\ n \in 1 .. N /\ n - 1 \in 0 .. N /\ f \in 0 .. N
    BY <1>0 DEF Rows
  <1>2. PICK own \in Nat : own = Own(m, n - 1) /\ P[n] = P[n - 1] + own
    BY <1>0, <1>1, OwnLinesOf DEF Rows
  <1>3. P[n] \in Nat /\ P[n - 1] \in Nat /\ P[f] \in Nat
    BY <1>1
  <1>4. PICK next : next = AddItem(k, acc, n - 1)
    OBVIOUS
  <1>5. acc \in Counts
    BY DEF Down
  <1>6. CASE acc.full
    <2>1. next = acc
      BY <1>4, <1>6 DEF AddItem
    <2>2. acc.items \in 1 .. n - f /\ P[f + acc.items - 1] - P[f] < h
      BY <1>0, <1>1, <1>6 DEF Down
    <2> QED
      BY <1>0, <1>4, <2>1, <2>2, <1>5, <1>6 DEF Down
  <1>7. CASE ~acc.full
    <2>1. acc.items = n - 1 - f /\ acc.sum < h /\ acc.sum >= P[n - 1] - P[f]
      BY <1>0, <1>5, <1>7 DEF Down
    <2>2. /\ next \in Counts
          /\ next.items = acc.items + 1 \/ (next.full /\ next.items = acc.items /\ acc.items # 0)
          /\ ~next.full => next.items = acc.items + 1 /\ next.sum < h /\ next.sum >= acc.sum + own
      BY <1>0, <1>2, <1>4, <1>5, <1>7, <2>1, AddItemCounts
    <2>3. PICK items \in Nat, sum \in Nat, was \in Nat :
            items = next.items /\ sum = next.sum /\ was = acc.sum
      BY <2>2, <1>5 DEF Counts
    <2>4. was < h /\ was >= P[n - 1] - P[f]
      BY <2>1, <2>3
    <2>5. items = n - f \/ (next.full /\ items = n - 1 - f /\ items # 0)
      BY <1>1, <2>1, <2>2, <2>3
    <2>6. items \in 1 .. n - f
      BY <1>1, <2>5
    <2>7. CASE next.full
      <3>1. PICK at : at = f + items - 1
        OBVIOUS
      <3>2. at \in 0 .. N /\ at <= n - 1 /\ at \in Int /\ n \in Int
        BY <1>1, <2>6, <3>1
      <3>3. P[at] + (n - 1 - at) <= P[n - 1] /\ P[at] \in Nat
        BY <1>0, <1>1, <3>2, RowsGrow
      <3>4. P[at] <= P[n - 1]
        BY <1>3, <3>2, <3>3
      <3>5. P[at] - P[f] < h
        BY <1>3, <2>4, <3>3, <3>4
      <3> QED
        BY <1>0, <1>4, <2>2, <2>3, <2>6, <2>7, <3>1, <3>5 DEF Down
    <2>8. CASE ~next.full
      <3>1. sum < h /\ sum >= was + own /\ items = n - f
        BY <2>2, <2>3, <2>5, <2>8
      <3>2. sum >= P[n] - P[f]
        BY <1>2, <1>3, <2>4, <3>1
      <3> QED
        BY <1>0, <1>4, <2>2, <2>3, <2>8, <3>1, <3>2 DEF Down
    <2> QED
      BY <2>7, <2>8
  <1> QED
    BY <1>6, <1>7

\* What is counted of the items f - k .. N - 1, if all those from f on were
Up(m, P, f, k) ==
  {acc \in Counts :
     IF acc.full
     THEN /\ acc.items \in 1 .. Count(m) - f + k /\ acc.items >= Count(m) - f
          /\ P[Count(m) - 1] - P[Count(m) - acc.items] < m.height
     ELSE /\ acc.items = Count(m) - f + k /\ acc.sum < m.height
          /\ acc.sum >= P[Count(m)] - P[f - k]}

LEMMA UpStep ==
  ASSUME NEW m, Measured(m), m.height > 0, NEW P, Rows(m, P), Count(m) > 0,
         NEW f \in 0 .. Count(m), NEW n \in 1 .. f, NEW acc \in Up(m, P, f, n - 1),
         NEW k, SameLines(m, k)
  PROVE  AddItem(k, acc, f - n) \in Up(m, P, f, n)
  <1>0. PICK N \in Nat, h \in Nat : N = Count(m) /\ h = m.height
    BY DEF Measured, Count, Window
  <1>1. /\ P \in [0 .. N -> Nat] /\ n \in 1 .. N /\ f \in 1 .. N /\ N - 1 \in 0 .. N /\ N \in 1 .. N
        /\ f - n \in 0 .. N /\ f - n + 1 \in 1 .. N /\ f - (n - 1) = f - n + 1 /\ f - n + 1 \in 0 .. N
    BY <1>0 DEF Rows
  <1>2. PICK own \in Nat : own = Own(m, f - n) /\ P[f - n + 1] = P[f - n] + own
    <2>1. P[f - n + 1] = P[f - n + 1 - 1] + Own(m, f - n + 1 - 1) /\ f - n + 1 - 1 = f - n
      BY <1>0, <1>1 DEF Rows
    <2> QED
      BY <2>1, OwnLinesOf
  <1>3. PICK last \in Nat : last = Own(m, N - 1) /\ last >= 1 /\ P[N] = P[N - 1] + last
    BY <1>0, <1>1, OwnLinesOf DEF Rows
  <1>4. P[f - n] \in Nat /\ P[f - n + 1] \in Nat /\ P[N] \in Nat /\ P[N - 1] \in Nat
    BY <1>1
  <1>5. PICK next : next = AddItem(k, acc, f - n)
    OBVIOUS
  <1>6. acc \in Counts
    BY DEF Up
  <1>7. CASE acc.full
    <2>1. next = acc
      BY <1>5, <1>7 DEF AddItem
    <2>2. acc.items \in 1 .. N - f + (n - 1) /\ acc.items >= N - f /\ P[N - 1] - P[N - acc.items] < h
      BY <1>0, <1>1, <1>7 DEF Up
    <2>3. acc.items \in 1 .. N - f + n
      BY ONLY <1>1, <2>2, N \in Nat, SMTT(30)
    <2> QED
      BY <1>0, <1>5, <2>1, <2>2, <2>3, <1>6, <1>7 DEF Up
  <1>8. CASE ~acc.full
    <2>1. acc.items = N - f + (n - 1) /\ acc.sum < h /\ acc.sum >= P[N] - P[f - n + 1]
      BY <1>0, <1>1, <1>6, <1>8 DEF Up
    <2>2. /\ next \in Counts
          /\ next.items = acc.items + 1 \/ (next.full /\ next.items = acc.items /\ acc.items # 0)
          /\ ~next.full => next.items = acc.items + 1 /\ next.sum < h /\ next.sum >= acc.sum + own
          /\ next.items = acc.items + 1 /\ acc.items # 0 => acc.sum + own <= h
      BY <1>0, <1>2, <1>5, <1>6, <1>8, <2>1, AddItemCounts
    <2>3. PICK items \in Nat, sum \in Nat, was \in Nat :
            items = next.items /\ sum = next.sum /\ was = acc.sum
      BY <2>2, <1>6 DEF Counts
    <2>4. was < h /\ was >= P[N] - P[f - n + 1]
      BY <2>1, <2>3
    <2>5. /\ items = N - f + n \/ (next.full /\ items = N - f + n - 1 /\ items # 0)
          /\ items = N - f + n /\ N - f + n # 1 => was + own <= h
      BY <1>1, <2>1, <2>2, <2>3
    <2>6. items \in 1 .. N - f + n /\ items >= N - f
      BY <1>1, <2>5
    <2>7. CASE next.full
      <3>1. P[N - 1] - P[N - items] < h
        <4>1. CASE items = N - f + n - 1 /\ items # 0
          <5>1. N - items = f - n + 1
            BY <1>1, <4>1
          <5> QED
            BY <1>3, <1>4, <2>4, <5>1
        <4>2. CASE items = N - f + n /\ N - f + n # 1
          <5>1. N - items = f - n /\ was + own <= h
            BY <1>1, <2>5, <4>2
          <5> QED
            BY <1>2, <1>3, <1>4, <2>4, <5>1
        <4>3. CASE items = N - f + n /\ N - f + n = 1
          <5>1. N - items = N - 1
            BY <4>3
          <5>2. h > 0
            BY <1>0
          <5> QED
            BY <1>4, <5>1, <5>2
        <4> QED
          BY <2>5, <4>1, <4>2, <4>3
      <3> QED
        BY <1>0, <1>5, <2>2, <2>3, <2>6, <2>7, <3>1 DEF Up
    <2>8. CASE ~next.full
      <3>1. sum < h /\ sum >= was + own /\ items = N - f + n
        BY <2>2, <2>3, <2>5, <2>8
      <3>2. sum >= P[N] - P[f - n]
        BY <1>2, <1>4, <2>4, <3>1
      <3> QED
        BY <1>0, <1>5, <2>2, <2>3, <2>8, <3>1, <3>2 DEF Up
    <2> QED
      BY <2>7, <2>8
  <1> QED
    BY <1>7, <1>8

----------------------------------------------------------------------------
\* What is counted of the items from the offset on, in Fitting
LEMMA DownIs ==
  ASSUME NEW m, Measured(m), m.height > 0, NEW P, Rows(m, P),
         NEW f \in 0 .. Count(m), NEW k, SameLines(m, k),
         NEW down,
         down = CHOOSE d : d = [i \in f .. Count(m) |->
                  IF i = f THEN [sum |-> 0, full |-> FALSE, items |-> 0] ELSE AddItem(k, d[i - 1], i - 1)]
  PROVE  down[Count(m)] \in Down(m, P, f, Count(m))
  <1>0. PICK N \in Nat : N = Count(m)
    BY DEF Measured, Count, Window
  <1>1. f \in Int /\ N \in Int /\ f <= N
    BY <1>0
  <1>2. PICK none : none = [sum |-> 0, full |-> FALSE, items |-> 0]
    OBVIOUS
  <1> DEFINE Made(d) == d = [i \in f .. N |-> IF i = f THEN none ELSE AddItem(k, d[i - 1], i - 1)]
  <1>3. PICK S : S = [n \in f .. N |-> Down(m, P, f, n)]
    OBVIOUS
  <1>4. none \in S[f]
    <2>1. P[f] - P[f] = 0 /\ P[f] \in Nat
      BY <1>0 DEF Rows
    <2>2. none \in Counts /\ ~none.full /\ none.items = 0 /\ none.sum = 0
      BY <1>2 DEF Counts
    <2>3. none \in Down(m, P, f, f)
      BY <1>0, <2>1, <2>2 DEF Down, Measured, Window
    <2> QED
      BY <1>1, <1>3, <2>3
  <1>5. \A n \in f + 1 .. N : n - 1 \in f .. N /\ n \in f .. N /\ S[n - 1] = Down(m, P, f, n - 1) /\ S[n] = Down(m, P, f, n)
    BY <1>1, <1>3
  <1>6. ASSUME NEW n \in f + 1 .. N, NEW acc \in S[n - 1] PROVE AddItem(k, acc, n - 1) \in S[n]
    BY <1>0, <1>5, DownStep
  <1>7. \E d : Made(d)
    <2>1. PICK G : G = [n \in f + 1 .. N |-> [x \in S[n - 1] |-> AddItem(k, x, n - 1)]]
      OBVIOUS
    <2>2. \A n \in f + 1 .. N : \A x \in S[n - 1] : G[n][x] = AddItem(k, x, n - 1)
      BY <2>1
    <2>3. \A n \in f + 1 .. N : \A x \in S[n - 1] : G[n][x] \in S[n]
      BY <1>6, <2>2
    <2>4. PICK d : Recursive(d, f, N, none, G, S)
      BY ONLY <1>1, <1>4, <2>3, RecursionFrom
    <2>5. ASSUME NEW n \in f .. N PROVE d[n] = IF n = f THEN none ELSE AddItem(k, d[n - 1], n - 1)
      <3>1. CASE n = f
        BY <2>4, <3>1 DEF Recursive
      <3>2. CASE n # f
        <4>1. n \in f + 1 .. N
          BY <1>1, <3>2
        <4>2. d[n] = G[n][d[n - 1]] /\ d[n - 1] \in S[n - 1]
          BY <1>5, <2>4, <4>1 DEF Recursive
        <4> QED
          BY <2>2, <3>2, <4>1, <4>2
      <3> QED
        BY <3>1, <3>2
    <2>6. d = [n \in f .. N |-> d[n]]
      BY <2>4 DEF Recursive
    <2> QED
      BY <2>5, <2>6
  <1>8. Made(down)
    <2>1. down = CHOOSE d : Made(d)
      BY <1>0, <1>2
    <2> HIDE DEF Made
    <2> QED
      BY <1>7, <2>1
  <1>9. down[f] = none /\ \A n \in f + 1 .. N : down[n] = AddItem(k, down[n - 1], n - 1)
    <2>1. PICK d : d = down
      OBVIOUS
    <2>2. d = [i \in f .. N |-> IF i = f THEN none ELSE AddItem(k, d[i - 1], i - 1)]
      BY <1>8, <2>1
    <2>3. d[f] = none /\ \A n \in f + 1 .. N : d[n] = AddItem(k, d[n - 1], n - 1)
      BY ONLY <2>2, <1>1
    <2> QED
      BY <2>1, <2>3
  <1> HIDE DEF Made
  <1>10. down[f] \in S[f] /\ \A n \in f + 1 .. N : down[n - 1] \in S[n - 1] => down[n] \in S[n]
    BY <1>4, <1>6, <1>9
  <1>11. \A n \in f .. N : down[n] \in S[n]
    BY ONLY <1>1, <1>10, ThroughoutFrom
  <1>12. N \in f .. N
    BY <1>1
  <1> QED
    BY <1>0, <1>3, <1>11, <1>12

\* What is counted of the items before the offset, after those from it on
LEMMA UpIs ==
  ASSUME NEW m, Measured(m), m.height > 0, NEW P, Rows(m, P), Count(m) > 0,
         NEW f \in 0 .. Count(m), NEW k, SameLines(m, k), NEW first \in Up(m, P, f, 0),
         NEW up,
         up = CHOOSE u : u = [n \in 0 .. f |-> IF n = 0 THEN first ELSE AddItem(k, u[n - 1], f - n)]
  PROVE  up[f] \in Up(m, P, f, f)
  <1>1. f \in Nat
    BY DEF Measured, Count, Window
  <1> DEFINE Made(u) == u = [n \in 0 .. f |-> IF n = 0 THEN first ELSE AddItem(k, u[n - 1], f - n)]
  <1>3. PICK S : S = [n \in 0 .. f |-> Up(m, P, f, n)]
    OBVIOUS
  <1>4. first \in S[0]
    BY <1>1, <1>3
  <1>5. \A n \in 1 .. f : n - 1 \in 0 .. f /\ n \in 0 .. f /\ S[n - 1] = Up(m, P, f, n - 1) /\ S[n] = Up(m, P, f, n)
    BY <1>1, <1>3
  <1>6. ASSUME NEW n \in 1 .. f, NEW acc \in S[n - 1] PROVE AddItem(k, acc, f - n) \in S[n]
    BY <1>5, UpStep
  <1>7. \E u : Made(u)
    <2>1. PICK G : G = [n \in 1 .. f |-> [x \in S[n - 1] |-> AddItem(k, x, f - n)]]
      OBVIOUS
    <2>2. \A n \in 1 .. f : \A x \in S[n - 1] : G[n][x] = AddItem(k, x, f - n)
      BY <2>1
    <2>3. \A n \in 1 .. f : \A x \in S[n - 1] : G[n][x] \in S[n]
      BY <1>6, <2>2
    <2>4. PICK u : Recursive(u, 0, f, first, G, S)
      BY ONLY <1>1, <1>4, <2>3, Recursion
    <2>5. ASSUME NEW n \in 0 .. f PROVE u[n] = IF n = 0 THEN first ELSE AddItem(k, u[n - 1], f - n)
      <3>1. CASE n = 0
        BY <2>4, <3>1 DEF Recursive
      <3>2. CASE n # 0
        <4>1. n \in 1 .. f /\ n \in 0 + 1 .. f
          BY <1>1, <3>2
        <4>2. u[n] = G[n][u[n - 1]] /\ u[n - 1] \in S[n - 1]
          BY <1>5, <2>4, <4>1 DEF Recursive
        <4> QED
          BY <2>2, <3>2, <4>1, <4>2
      <3> QED
        BY <3>1, <3>2
    <2>6. u = [n \in 0 .. f |-> u[n]]
      BY <2>4 DEF Recursive
    <2> QED
      BY <2>5, <2>6
  <1>8. Made(up)
    <2>1. up = CHOOSE u : Made(u)
      OBVIOUS
    <2> HIDE DEF Made
    <2> QED
      BY <1>7, <2>1
  <1>9. up[0] = first /\ \A n \in 1 .. f : up[n] = AddItem(k, up[n - 1], f - n)
    <2>1. PICK u : u = up
      OBVIOUS
    <2>2. u = [n \in 0 .. f |-> IF n = 0 THEN first ELSE AddItem(k, u[n - 1], f - n)]
      BY <1>8, <2>1
    <2>3. u[0] = first /\ \A n \in 1 .. f : u[n] = AddItem(k, u[n - 1], f - n)
      BY ONLY <2>2, <1>1
    <2> QED
      BY <2>1, <2>3
  <1> HIDE DEF Made
  <1>10. up[0] \in S[0] /\ \A n \in 1 .. f : up[n - 1] \in S[n - 1] => up[n] \in S[n]
    BY <1>4, <1>6, <1>9
  <1>11. \A n \in 0 .. f : up[n] \in S[n]
    BY ONLY <1>1, <1>10, Throughout
  <1>12. f \in 0 .. f
    BY <1>1
  <1> QED
    BY <1>3, <1>11, <1>12

\* Where each item takes one line, the lines before an item are as many as the items before it.
LEMMA RowsSingle ==
  ASSUME NEW m, Measured(m), m.height > 0, NEW P, Rows(m, P), ~SpansLines(m), NEW a \in 0 .. Count(m)
  PROVE  P[a] = a
  <1>0. PICK N \in Nat : N = Count(m)
    BY DEF Measured, Count, Window
  <1>1. P \in [0 .. N -> Nat] /\ P[0] = 0 /\ \A i \in 1 .. N : P[i] = P[i - 1] + Own(m, i - 1)
    BY <1>0 DEF Rows
  <1>2. ASSUME NEW i PROVE Own(m, i) = 1
    <2>1. ~m.multiLine /\ m.gap = 0 /\ m.gap \in Nat
      BY DEF SpansLines, Measured, Window
    <2>2. ItemLines(m, i) = 1
      BY <2>1 DEF ItemLines, OwnLines
    <2> QED
      BY <2>1, <2>2 DEF Own, LinesUpTo, CutOff
  <1>3. PICK T : T = [n \in 0 .. N |-> {n}]
    OBVIOUS
  <1>4. P[0] \in T[0]
    BY <1>1, <1>3
  <1>5. ASSUME NEW n \in 1 .. N, P[n - 1] \in T[n - 1] PROVE P[n] \in T[n]
    <2>1. n \in 0 .. N /\ n - 1 \in 0 .. N /\ n \in Int
      OBVIOUS
    <2>2. P[n - 1] = n - 1
      BY <1>3, <1>5, <2>1
    <2>3. P[n] = n
      BY <1>1, <1>2, <2>1, <2>2
    <2> QED
      BY <1>3, <2>1, <2>3
  <1>6. \A n \in 0 .. N : P[n] \in T[n]
    BY ONLY <1>0, <1>4, <1>5, Throughout
  <1> QED
    BY <1>0, <1>3, <1>6

\* What Fitting is, whatever the offset
LEMMA FittingIs ==
  ASSUME NEW m, Measured(m), m.height > 0, NEW P, Rows(m, P), Count(m) > 0,
         NEW f \in 0 .. Count(m), NEW k, SameLines(m, k), k.offset = f
  PROVE  Fit(m, P, f, Fitting(k))
  <1>0. PICK N \in Nat, h \in Nat : N = Count(m) /\ h = m.height /\ N > 0 /\ h > 0
    BY DEF Measured, Count, Window
  <1>1. Count(k) = N /\ k.height = h /\ (SpansLines(k) <=> SpansLines(m))
    BY <1>0 DEF SameLines, Count, SpansLines, SameWindow
  <1>2. P \in [0 .. N -> Nat] /\ f \in 0 .. N /\ N - 1 \in 0 .. N
    BY <1>0 DEF Rows
  <1>3. PICK fit : fit = Fitting(k)
    OBVIOUS
  <1>4. CASE ~SpansLines(k)
    <2>1. fit = h
      BY <1>1, <1>3, <1>4 DEF Fitting
    <2>2. \A a \in 0 .. N : P[a] = a
      BY <1>0, <1>1, <1>4, RowsSingle
    <2>3. CASE f + h <= N
      <3>1. f + h - 1 \in 0 .. N
        BY <1>0, <1>2, <2>3
      <3>2. P[f + h - 1] - P[f] < h
        BY <1>2, <2>2, <3>1
      <3> QED
        BY <1>0, <1>3, <2>1, <2>3, <3>2 DEF Fit
    <2>4. CASE ~(f + h <= N)
      <3>1. PICK at \in 0 .. N : at = Larger(N - h, 0) /\ at >= N - h
        <4>1. Larger(N - h, 0) \in 0 .. N /\ Larger(N - h, 0) >= N - h
          BY <1>0 DEF Larger
        <4> QED
          BY <4>1
      <3>2. P[N] = N /\ P[f] = f /\ P[N - 1] = N - 1 /\ P[at] = at
        BY <1>2, <2>2, <1>0
      <3>3. P[N] - P[f] < h /\ P[N - 1] - P[at] < h /\ f + h >= N
        BY <1>0, <1>2, <2>4, <3>1, <3>2
      <3> QED
        BY <1>0, <1>3, <2>1, <3>1, <3>3 DEF Fit
    <2> QED
      BY <2>3, <2>4
  <1>5. CASE SpansLines(k)
    <2> DEFINE none == [sum |-> 0, full |-> FALSE, items |-> 0]
    <2>1. PICK down : down = CHOOSE d : d = [i \in f .. N |-> IF i = f THEN none ELSE AddItem(k, d[i - 1], i - 1)]
      OBVIOUS
    <2>2. PICK up : up = CHOOSE u : u = [n \in 0 .. f |-> IF n = 0 THEN down[N] ELSE AddItem(k, u[n - 1], f - n)]
      OBVIOUS
    <2>3. fit = up[f].items
      BY <1>0, <1>1, <1>3, <1>5, <2>1, <2>2 DEF Fitting
    <2>4. down[N] \in Down(m, P, f, N)
      BY <1>0, <2>1, DownIs
    <2>5. PICK first : first = down[N]
      OBVIOUS
    <2>6. CASE first.full
      <3>1. first \in Counts /\ first.items \in 1 .. N - f /\ P[f + first.items - 1] - P[f] < h
        BY <1>0, <2>4, <2>5, <2>6 DEF Down
      <3>2. up[f] = first
        <4> DEFINE Made(u) == u = [n \in 0 .. f |-> IF n = 0 THEN first ELSE AddItem(k, u[n - 1], f - n)]
        <4>1. Made([n \in 0 .. f |-> first])
          <5>1. PICK u : u = [n \in 0 .. f |-> first]
            OBVIOUS
          <5>2. ASSUME NEW n \in 0 .. f PROVE u[n] = IF n = 0 THEN first ELSE AddItem(k, u[n - 1], f - n)
            <6>1. u[n] = first /\ (n # 0 => u[n - 1] = first)
              BY <1>2, <5>1
            <6> QED
              BY <2>6, <6>1 DEF AddItem
          <5>3. u = [n \in 0 .. f |-> u[n]]
            BY <5>1
          <5>4. Made(u)
            BY <5>2, <5>3
          <5> QED
            BY <5>1, <5>4
        <4>2. Made(up)
          <5>1. up = CHOOSE u : Made(u)
            BY <2>2, <2>5
          <5> HIDE DEF Made
          <5> QED
            BY <4>1, <5>1
        <4>3. PICK u : u = up
          OBVIOUS
        <4>4. u = [n \in 0 .. f |-> IF n = 0 THEN first ELSE AddItem(k, u[n - 1], f - n)]
          BY <4>2, <4>3
        <4>5. u[0] = first /\ \A n \in 1 .. f : u[n] = AddItem(k, u[n - 1], f - n)
          BY ONLY <4>4, <1>0, <1>2
        <4>6. PICK T : T = [n \in 0 .. f |-> {first}]
          OBVIOUS
        <4>7. f \in Nat /\ u[0] \in T[0]
          BY <1>0, <1>2, <4>5, <4>6
        <4>8. ASSUME NEW n \in 1 .. f, u[n - 1] \in T[n - 1] PROVE u[n] \in T[n]
          <5>1. n \in 0 .. f /\ n - 1 \in 0 .. f
            BY <4>7
          <5>2. u[n - 1] = first
            BY <4>6, <4>8, <5>1
          <5>3. u[n] = first
            BY <2>6, <4>5, <5>2 DEF AddItem
          <5> QED
            BY <4>6, <5>1, <5>3
        <4>9. \A n \in 0 .. f : u[n] \in T[n]
          BY ONLY <4>7, <4>8, Throughout
        <4>10. f \in 0 .. f
          BY <4>7
        <4> QED
          BY <4>3, <4>6, <4>9, <4>10
      <3>3. fit \in 1 .. N - f /\ P[f + fit - 1] - P[f] < h
        BY <2>3, <3>1, <3>2
      <3>4. PICK at \in 0 .. N : at = f + fit - 1 /\ f <= at
        <4>1. f + fit - 1 \in 0 .. N /\ f <= f + fit - 1
          BY <1>2, <3>3
        <4> QED
          BY <4>1
      <3>5. P[f] + (at - f) <= P[at]
        BY <1>0, <1>2, <3>4, RowsGrow
      <3>6. fit <= h
        <4>1. PICK x \in Nat, y \in Nat : x = P[f] /\ y = P[at]
          BY <1>2, <3>4
        <4>2. x + (at - f) <= y /\ y - x < h
          BY <3>3, <3>4, <3>5, <4>1
        <4>3. f \in Int /\ at = f + fit - 1 /\ fit \in Int
          BY <1>2, <3>3, <3>4
        <4> QED
          BY <1>0, <4>1, <4>2, <4>3
      <3> QED
        BY <1>0, <1>2, <1>3, <3>3, <3>4, <3>6 DEF Fit
    <2>7. CASE ~first.full
      <3>1. first \in Counts /\ first.items = N - f /\ first.sum < h /\ first.sum >= P[N] - P[f]
        BY <1>0, <2>4, <2>5, <2>7 DEF Down
      <3>2. P[N] - P[f] < h
        <4>1. first.sum \in Nat /\ P[N] \in Nat /\ P[f] \in Nat
          BY <1>0, <1>2, <3>1 DEF Counts
        <4> QED
          BY <1>0, <3>1, <4>1
      <3>3. first \in Up(m, P, f, 0)
        <4>1. f - 0 = f /\ N - f + 0 = N - f
          BY <1>0, <1>2
        <4> QED
          BY <1>0, <3>1, <2>7, <4>1 DEF Up
      <3>4. up[f] \in Up(m, P, f, f)
        BY <1>0, <2>2, <2>5, <3>3, UpIs
      <3>5. PICK last : last = up[f] /\ last \in Up(m, P, f, f)
        BY <3>4
      <3>6. last \in Counts /\ N - f + f = N /\ f - f = 0 /\ P[0] = 0
        BY <1>0, <1>2, <3>5 DEF Up, Rows
      <3>7. fit \in 1 .. N /\ fit >= N - f /\ P[N - 1] - P[N - fit] < h
        <4>1. CASE last.full
          BY <1>0, <2>3, <3>5, <3>6, <4>1 DEF Up
        <4>2. CASE ~last.full
          <5>1. last.items = N /\ last.sum < h /\ last.sum >= P[N] - P[0] /\ last.sum \in Nat
            BY <1>0, <3>5, <3>6, <4>2 DEF Up, Counts
          <5>2. fit = N /\ N - fit = 0
            BY <1>0, <2>3, <3>5, <5>1
          <5>3. P[N - 1] + 1 <= P[N]
            <6>1. PICK at \in 0 .. N : at = N - 1 /\ at <= N /\ N - at = 1
              BY <1>0, <1>2
            <6>2. N \in 0 .. N
              BY <1>0
            <6>3. P[at] + (N - at) <= P[N]
              BY <1>0, <6>1, <6>2, RowsGrow
            <6> QED
              BY <6>1, <6>3
          <5>4. P[N] \in Nat /\ P[N - 1] \in Nat
            BY <1>0, <1>2
          <5>5. P[N - 1] - P[0] < h
            BY <1>0, <3>6, <5>1, <5>3, <5>4
          <5> QED
            BY <1>0, <5>2, <5>5
        <4> QED
          BY <4>1, <4>2
      <3>8. PICK at \in 0 .. N : at = N - fit /\ Larger(N - fit, 0) = at
        <4>1. N - fit \in 0 .. N
          BY <1>0, <3>7
        <4>2. Larger(N - fit, 0) = N - fit
          BY <4>1 DEF Larger
        <4> QED
          BY <4>1, <4>2
      <3>9. fit <= h
        <4>1. at <= N - 1 /\ at \in Int /\ N \in Int /\ fit \in Int
          BY <1>0, <3>7, <3>8
        <4>2. P[at] + (N - 1 - at) <= P[N - 1]
          BY <1>0, <1>2, <4>1, RowsGrow
        <4>3. PICK x \in Nat, y \in Nat : x = P[at] /\ y = P[N - 1]
          BY <1>2, <3>8
        <4>4. y - x < h
          BY <3>7, <3>8, <4>3
        <4> QED
          BY <1>0, <3>8, <4>1, <4>2, <4>3, <4>4
      <3>10. f + fit >= N
        <4>1. fit \in Int /\ f \in Int /\ fit >= N - f
          BY <1>2, <3>7
        <4> QED
          BY <1>0, <4>1
      <3> QED
        BY <1>0, <1>3, <3>2, <3>7, <3>8, <3>9, <3>10 DEF Fit
    <2> QED
      BY <2>6, <2>7
  <1> QED
    BY <1>4, <1>5
----------------------------------------------------------------------------
\* In a window an item takes no more lines than that has, besides the gap.
LEMMA OwnAtMost ==
  ASSUME NEW m, Measured(m), m.height > 0, NEW i
  PROVE  Own(m, i) <= m.height + m.gap
  <1>1. PICK t \in Nat : t = ItemLines(m, i)
    BY LinesOfItem
  <1>2. m.height \in Nat /\ m.gap \in Nat
    BY DEF Measured, Window
  <1>3. CASE m.multiLine
    <2>1. Own(m, i) = CutOff(m, t, m.height).n
      BY <1>1 DEF Own, LinesUpTo
    <2>2. CASE t > m.height + m.gap
      <3>1. t > 1 + m.gap
        BY <1>2, <2>2
      <3>2. CutOff(m, t, m.height).n = m.height + m.gap
        BY <1>3, <2>2, <3>1 DEF CutOff
      <3> QED
        BY <1>2, <2>1, <3>2
    <2>3. CASE ~(t > m.height + m.gap)
      <3>1. CutOff(m, t, m.height).n = t
        BY <2>3 DEF CutOff
      <3> QED
        BY <1>1, <1>2, <2>1, <2>3, <3>1
    <2> QED
      BY <2>2, <2>3
  <1>4. CASE ~m.multiLine
    <2>1. t = 1 + m.gap
      BY <1>1, <1>4 DEF ItemLines, OwnLines
    <2>2. Own(m, i) = t
      BY <1>1, <1>4 DEF Own, LinesUpTo, CutOff
    <2> QED
      BY <1>2, <2>1, <2>2
  <1> QED
    BY <1>3, <1>4

\* What LinesBefore counts of the items o .. i - 1
Passed(m, P, o, i) ==
  {sum \in Nat : P[i] - P[o] <= sum \/ sum >= m.height - Own(m, m.cy)}

LEMMA PassedStep ==
  ASSUME NEW m, Measured(m), m.height > 0, NEW P, Rows(m, P), m.cy \in 0 .. Count(m) - 1,
         NEW o \in 0 .. m.cy, NEW i \in o + 1 .. m.cy, NEW sum \in Passed(m, P, o, i - 1),
         NEW k, SameLines(m, k), k.cy = m.cy
  PROVE  sum + LinesUpTo(k, i - 1, k.height - sum - LinesUpTo(k, k.cy, k.height).n).n \in Passed(m, P, o, i)
  <1>0. PICK N \in Nat, h \in Nat, gap \in Nat, cy \in Nat :
          N = Count(m) /\ h = m.height /\ gap = m.gap /\ cy = m.cy /\ cy < N
    <2>1. Count(m) \in Nat
      BY DEF Measured, Count, Window
    <2>2. m.cy \in Nat /\ m.cy < Count(m)
      BY <2>1
    <2> QED
      BY <2>1, <2>2 DEF Measured, Window
  <1>1. P \in [0 .. N -> Nat] /\ i \in 1 .. N /\ i - 1 \in 0 .. N /\ i \in 0 .. N /\ o \in 0 .. N
    BY <1>0 DEF Rows
  <1>2. PICK own \in Nat : own = Own(m, cy) /\ own <= h + gap
    BY <1>0, OwnLinesOf, OwnAtMost
  <1>3. PICK step \in Nat : step = Own(m, i - 1) /\ P[i] = P[i - 1] + step /\ step <= ItemLines(m, i - 1)
    BY <1>0, <1>1, OwnLinesOf DEF Rows
  <1>4. sum \in Nat /\ (P[i - 1] - P[o] <= sum \/ sum >= h - own)
    BY <1>0, <1>2 DEF Passed
  <1>5. k.height = h /\ LinesUpTo(k, k.cy, k.height).n = own
    BY <1>0, <1>2 DEF SameLines, Own, LinesUpTo, CutOff, ItemLines, OwnLines, ItemAt, SameWindow
  <1>6. PICK left \in Int : left = h - sum - own
    BY <1>4
  <1>7. PICK t \in Nat : t = ItemLines(m, i - 1)
    BY LinesOfItem
  <1>8. PICK got : got = LinesUpTo(k, i - 1, left)
    OBVIOUS
  <1>9. got = LinesUpTo(m, i - 1, left)
    BY <1>8 DEF SameLines, LinesUpTo, CutOff, ItemLines, OwnLines, ItemAt, SameWindow
  <1>10. PICK x \in Int : x = got.n /\ (x = t \/ x = left + gap)
    BY <1>0, <1>7, <1>9, CutOffLines
  <1>11. P[i] \in Nat /\ P[i - 1] \in Nat /\ P[o] \in Nat
    BY <1>1
  <1>12. PICK now \in Int : now = sum + x
    BY <1>4
  <1>13. now \in Nat /\ (P[i] - P[o] <= now \/ now >= h - own)
    <2>1. CASE x = t
      BY <1>3, <1>4, <1>7, <1>11, <1>12, <2>1
    <2>2. CASE x = left + gap
      BY <1>2, <1>4, <1>6, <1>12, <2>2
    <2> QED
      BY <1>10, <2>1, <2>2
  <1>14. now \in Passed(m, P, o, i)
    BY <1>0, <1>2, <1>13 DEF Passed
  <1> QED
    BY <1>5, <1>6, <1>8, <1>10, <1>12, <1>14

\* LinesBefore counts all the lines above the cursor, or more than leave room for the current item.
LEMMA BeforeIs ==
  ASSUME NEW m, Measured(m), m.height > 0, NEW P, Rows(m, P), m.cy \in 0 .. Count(m) - 1,
         NEW o \in 0 .. m.cy, NEW k, SameLines(m, k), k.cy = m.cy
  PROVE  LinesBefore(k, o) \in Passed(m, P, o, m.cy)
  <1>0. PICK N \in Nat, cy \in Nat : N = Count(m) /\ cy = m.cy /\ cy < N /\ N - 1 \in Int
    <2>1. Count(m) \in Nat
      BY DEF Measured, Count, Window
    <2>2. m.cy \in Nat /\ m.cy < Count(m)
      BY <2>1
    <2> QED
      BY <2>1, <2>2
  <1>1. Count(k) = N /\ k.cy = cy /\ (SpansLines(k) <=> SpansLines(m))
    BY <1>0 DEF SameLines, Count, SpansLines, SameWindow
  <1>2. o \in Nat /\ o <= cy
    BY <1>0
  <1>3. CASE ~SpansLines(k)
    <2>1. LinesBefore(k, o) = cy - o
      BY <1>1, <1>3 DEF LinesBefore
    <2>2. P[cy] = cy /\ P[o] = o
      <3>1. cy \in 0 .. N /\ o \in 0 .. N
        BY <1>0, <1>2
      <3> QED
        BY <1>0, <1>1, <1>3, <3>1, RowsSingle
    <2>3. cy - o \in Nat /\ P[cy] - P[o] <= cy - o
      BY <1>2, <2>2
    <2> QED
      BY <1>0, <2>1, <2>3 DEF Passed
  <1>4. CASE SpansLines(k)
    <2>1. Larger(o, Smaller(k.cy, Count(k))) = cy /\ Smaller(k.cy, Count(k) - 1) = cy
      BY <1>0, <1>1, <1>2 DEF Larger, Smaller
    <2> DEFINE Made(s) == s = [i \in o .. cy |-> IF i = o THEN 0 ELSE LET so == s[i - 1] IN
                             so + LinesUpTo(k, i - 1, k.height - so - LinesUpTo(k, cy, k.height).n).n]
               Add(x, i) == x + LinesUpTo(k, i - 1, k.height - x - LinesUpTo(k, k.cy, k.height).n).n
    <2>2. PICK sum : sum = CHOOSE s : Made(s)
      OBVIOUS
    <2>3. LinesBefore(k, o) = sum[cy]
      BY <1>4, <2>1, <2>2 DEF LinesBefore
    <2>4. PICK S : S = [n \in o .. cy |-> Passed(m, P, o, n)]
      OBVIOUS
    <2>5. \A n \in o + 1 .. cy : n - 1 \in o .. cy /\ n \in o .. cy /\ S[n - 1] = Passed(m, P, o, n - 1) /\ S[n] = Passed(m, P, o, n)
      BY <1>2, <2>4
    <2>6. 0 \in S[o]
      <3>1. P[o] \in Nat
        BY <1>0, <1>2 DEF Rows
      <3>2. 0 \in Passed(m, P, o, o)
        BY <3>1 DEF Passed
      <3> QED
        BY <1>2, <2>4, <3>2
    <2>7. ASSUME NEW n \in o + 1 .. cy, NEW x \in S[n - 1] PROVE Add(x, n) \in S[n]
      BY <1>0, <2>5, PassedStep
    <2>8. \E s : Made(s)
      <3> HIDE DEF Add
      <3>1. PICK G : G = [n \in o + 1 .. cy |-> [x \in S[n - 1] |-> Add(x, n)]]
        OBVIOUS
      <3>2. \A n \in o + 1 .. cy : \A x \in S[n - 1] : G[n][x] = Add(x, n)
        BY <3>1
      <3>3. \A n \in o + 1 .. cy : \A x \in S[n - 1] : G[n][x] \in S[n]
        BY <2>7, <3>2
      <3>4. PICK s : Recursive(s, o, cy, 0, G, S)
        <4>1. o \in Int /\ cy \in Int /\ o <= cy
          BY <1>2
        <4>2. PICK none : none = 0
          OBVIOUS
        <4>3. none \in S[o]
          BY <2>6, <4>2
        <4>4. \E s : Recursive(s, o, cy, none, G, S)
          BY ONLY <4>1, <4>3, <3>3, RecursionFrom
        <4> QED
          BY <4>2, <4>4
      <3>5. ASSUME NEW n \in o .. cy PROVE s[n] = IF n = o THEN 0 ELSE Add(s[n - 1], n)
        <4>1. CASE n = o
          BY <3>4, <4>1 DEF Recursive
        <4>2. CASE n # o
          <5>1. n \in o + 1 .. cy
            BY <1>2, <4>2
          <5>2. s[n] = G[n][s[n - 1]] /\ s[n - 1] \in S[n - 1]
            BY <2>5, <3>4, <5>1 DEF Recursive
          <5> QED
            BY <3>2, <4>2, <5>1, <5>2
        <4> QED
          BY <4>1, <4>2
      <3>6. s = [n \in o .. cy |-> s[n]]
        BY <3>4 DEF Recursive
      <3>7. Made(s)
        BY <1>1, <3>5, <3>6 DEF Add
      <3> QED
        BY <3>7
    <2>9. Made(sum)
      <3> HIDE DEF Made
      <3> QED
        BY <2>2, <2>8
    <2>10. sum[o] = 0 /\ \A n \in o + 1 .. cy : sum[n] = Add(sum[n - 1], n)
      <3>1. PICK s : s = sum
        OBVIOUS
      <3>2. s = [i \in o .. cy |-> IF i = o THEN 0 ELSE Add(s[i - 1], i)]
        BY <1>1, <2>9, <3>1
      <3> HIDE DEF Add, Made
      <3>3. s[o] = 0 /\ \A n \in o + 1 .. cy : s[n] = Add(s[n - 1], n)
        BY ONLY <3>2, <1>2, o \in Nat, cy \in Nat
      <3> QED
        BY <3>1, <3>3
    <2> HIDE DEF Made, Add
    <2>11. sum[o] \in S[o] /\ \A n \in o + 1 .. cy : sum[n - 1] \in S[n - 1] => sum[n] \in S[n]
      BY <2>6, <2>7, <2>10
    <2>12. \A n \in o .. cy : sum[n] \in S[n]
      BY ONLY <1>2, o \in Nat, cy \in Nat, <2>11, ThroughoutFrom
    <2>13. cy \in o .. cy
      BY <1>2
    <2> QED
      BY <1>0, <2>3, <2>4, <2>12, <2>13
  <1> QED
    BY <1>3, <1>4
----------------------------------------------------------------------------
\* The --scroll-off lines are wanted, and the window has room for them and the current item.
Context(m) == Smaller(m.height \div 2, m.scrollOff)
Roomy(m) == Context(m) >= 1 /\ Own(m, m.cy) + Context(m) <= m.height

LEMMA ContextNat ==
  ASSUME NEW m, Measured(m)
  PROVE  Context(m) \in Nat
  <1>1. m.height \in Nat /\ m.scrollOff \in Nat
    BY DEF Measured, Window
  <1>2. PICK half \in Nat : half = m.height \div 2
    <2>1. m.height \div 2 \in Nat
      BY <1>1
    <2> QED
      BY <2>1
  <1> QED
    BY <1>1, <1>2 DEF Context, Smaller

\* What a step of Scroll does: phase 0 moves up only if there is room, and phase 1 stops early only
\* with the current item in view.
LEMMA ScrollIs ==
  ASSUME NEW m, Measured(m), m.height > 0, NEW P, Rows(m, P), m.cy \in 0 .. Count(m) - 1,
         NEW least \in 0 .. m.cy, NEW most \in least .. m.cy, NEW o \in least .. most,
         NEW k, SameLines(m, k), k.cy = m.cy, NEW before, before = LinesBefore(k, o)
  PROVE  /\ LET next == Scroll(k, o, before, 0, least, most)
            IN  next \in least .. most /\ (next = o \/ Roomy(m))
         /\ LET next == Scroll(k, o, before, 1, least, most)
            IN  next = o \/ (next = o + 1 /\ next \in least .. most)
         /\ Scroll(k, o, before, 1, least, most) = o /\ Roomy(m) /\ o < most => Seen(m, P, o)
  <1>0. PICK N \in Nat, h \in Nat, cy \in Nat : N = Count(m) /\ h = m.height /\ cy = m.cy /\ cy < N
    <2>1. Count(m) \in Nat
      BY DEF Measured, Count, Window
    <2>2. m.cy \in Nat /\ m.cy < Count(m)
      BY <2>1
    <2> QED
      BY <2>1, <2>2 DEF Measured, Window
  <1>1. least \in Nat /\ most \in Nat /\ o \in Nat /\ least <= o /\ o <= most /\ most <= cy
    BY <1>0
  <1>2. PICK want \in Nat : want = Context(m)
    BY ContextNat
  <1>3. PICK own \in Nat : own = Own(m, cy)
    BY <1>0, OwnLinesOf
  <1>4. before \in Nat /\ (P[cy] - P[o] <= before \/ before >= h - own)
    <2>1. o \in 0 .. m.cy
      BY <1>0, <1>1
    <2>2. before \in Passed(m, P, o, m.cy)
      BY <1>0, <2>1, BeforeIs
    <2> QED
      BY <1>0, <1>3, <2>2 DEF Passed
  <1>5. PICK behind \in Int : behind = h - (before + own)
    BY <1>4
  <1>6. own = IF SpansLines(k) /\ k.cy < Count(k) THEN LinesUpTo(k, k.cy, k.height).n ELSE 1 + k.gap
    <2>1. k.cy = cy /\ Count(k) = N /\ k.height = h /\ k.gap = m.gap /\ (SpansLines(k) <=> SpansLines(m))
      BY <1>0 DEF SameLines, Count, SpansLines, SameWindow
    <2>2. LinesUpTo(k, k.cy, k.height).n = own
      BY <1>0, <1>3 DEF SameLines, Own, LinesUpTo, CutOff, ItemLines, OwnLines, ItemAt, SameWindow
    <2>3. CASE ~SpansLines(k)
      <3>1. ~m.multiLine /\ m.gap = 0
        BY <2>1, <2>3 DEF SpansLines, Measured, Window
      <3>2. ItemLines(m, cy) = 1
        BY <3>1 DEF ItemLines, OwnLines
      <3>3. own = 1
        BY <1>0, <1>3, <3>1, <3>2 DEF Own, LinesUpTo, CutOff
      <3> QED
        BY <2>1, <2>3, <3>1, <3>3
    <2> QED
      BY <1>0, <2>1, <2>2, <2>3
  <1>7. \A phase : Scroll(k, o, before, phase, least, most) =
          IF before < want /\ behind < want THEN o
          ELSE IF phase = 0 /\ before < want THEN Larger(least, o - 1)
          ELSE IF phase = 1 /\ behind < want THEN Smaller(most, o + 1)
          ELSE o
    <2>1. Smaller(k.height \div 2, k.scrollOff) = want /\ k.height = h
      BY <1>0, <1>2 DEF Context, SameLines, SameWindow
    <2>2. h - (before + own) = behind
      BY <1>5
    <2> QED
      BY <1>6, <2>1, <2>2 DEF Scroll
  <1>8. Roomy(m) <=> want >= 1 /\ own + want <= h
    BY <1>0, <1>2, <1>3 DEF Roomy
  <1>9. PICK up : up = Scroll(k, o, before, 0, least, most)
    OBVIOUS
  <1>10. PICK down : down = Scroll(k, o, before, 1, least, most)
    OBVIOUS
  <1>11. up \in least .. most /\ (up = o \/ Roomy(m))
    <2>1. up = IF before < want /\ ~(behind < want) THEN Larger(least, o - 1) ELSE o
      BY <1>7, <1>9
    <2>2. CASE before < want /\ ~(behind < want)
      <3>1. Larger(least, o - 1) \in least .. most
        BY <1>1 DEF Larger
      <3>2. want >= 1 /\ own + want <= h
        BY <1>4, <1>5, <2>2
      <3> QED
        BY <1>8, <2>1, <2>2, <3>1, <3>2
    <2>3. CASE ~(before < want /\ ~(behind < want))
      BY <1>1, <2>1, <2>3
    <2> QED
      BY <2>2, <2>3
  <1>12. down = o \/ (down = o + 1 /\ down \in least .. most)
    <2>1. down = IF behind < want /\ ~(before < want) THEN Smaller(most, o + 1) ELSE o
      BY <1>7, <1>10
    <2>2. Smaller(most, o + 1) = o \/ (Smaller(most, o + 1) = o + 1 /\ o + 1 \in least .. most)
      BY <1>1 DEF Smaller
    <2> QED
      BY <2>1, <2>2
  <1>13. ASSUME down = o, Roomy(m), o < most PROVE Seen(m, P, o)
    <2>1. before < want \/ ~(behind < want)
      <3>1. Smaller(most, o + 1) # o
        BY <1>1, <1>13 DEF Smaller
      <3> QED
        BY <1>7, <1>10, <1>13, <3>1
    <2>2. P[cy] \in Nat /\ P[o] \in Nat
      <3>1. cy \in 0 .. N /\ o \in 0 .. N
        BY <1>0, <1>1
      <3> QED
        BY <1>0, <3>1 DEF Rows
    <2>3. want >= 1 /\ own + want <= h
      BY <1>8, <1>13
    <2>4. P[cy] - P[o] < h
      BY <1>3, <1>4, <1>5, <2>1, <2>2, <2>3
    <2> QED
      BY <1>0, <2>4 DEF Seen
  <1> QED
    BY <1>9, <1>10, <1>11, <1>12, <1>13

\* Phase 0 moves up, within the limits and only if there is room.
LEMMA ScrollUp ==
  ASSUME NEW m, Measured(m), m.height > 0, NEW P, Rows(m, P), m.cy \in 0 .. Count(m) - 1,
         NEW least \in 0 .. m.cy, NEW most \in least .. m.cy,
         NEW k, SameLines(m, k), k.cy = m.cy, k.offset \in least .. most
  PROVE  \E o \in least .. most : /\ ScrollOff(k, 0, least, most) = [k EXCEPT !.offset = o]
                                  /\ o = k.offset \/ Roomy(m)
  <1>0. PICK N \in Nat : N = Count(k) + 1
    <2>1. Count(k) \in Nat
      BY DEF Measured, Count, SameLines, Window, SameWindow
    <2> QED
      BY <2>1
  <1>1. PICK start : start = k.offset
    OBVIOUS
  <1> DEFINE Step(x) == Scroll(k, x, LinesBefore(k, x), 0, least, most)
             Made(f) == f = [n \in 0 .. N |-> IF n = 0 THEN start ELSE Step(f[n - 1])]
             Allowed == {o \in least .. most : o = start \/ Roomy(m)}
  <1>2. start \in Allowed
    BY <1>1
  <1>3. ASSUME NEW x \in Allowed PROVE Step(x) \in Allowed
    <2>1. PICK next : next = Step(x)
      OBVIOUS
    <2>2. next \in least .. most /\ (next = x \/ Roomy(m))
      BY <2>1, ScrollIs
    <2> QED
      BY <2>1, <2>2
  <1>4. PICK move : move = CHOOSE f : Made(f)
    OBVIOUS
  <1>5. ScrollOff(k, 0, least, most) = [k EXCEPT !.offset = move[N]]
    BY <1>0, <1>1, <1>4 DEF ScrollOff
  <1> HIDE DEF Allowed, Step
  <1>6. PICK S : S = [n \in 0 .. N |-> Allowed]
    OBVIOUS
  <1>7. \A n \in 0 .. N : S[n] = Allowed
    BY <1>6
  <1>8. \A n \in 1 .. N : n - 1 \in 0 .. N /\ n \in 0 .. N
    OBVIOUS
  <1>9. \E f : Made(f)
    <2>1. PICK G : G = [n \in 1 .. N |-> [x \in Allowed |-> Step(x)]]
      OBVIOUS
    <2>2. \A n \in 1 .. N : \A x \in Allowed : G[n][x] = Step(x)
      BY <2>1
    <2>3. \A n \in 1 .. N : \A x \in S[n - 1] : G[n][x] \in S[n]
      BY <1>3, <1>7, <1>8, <2>2
    <2>4. start \in S[0]
      BY <1>2, <1>6
    <2>5. PICK f : Recursive(f, 0, N, start, G, S)
      BY ONLY <2>3, <2>4, N \in Nat, Recursion
    <2>6. ASSUME NEW n \in 0 .. N PROVE f[n] = IF n = 0 THEN start ELSE Step(f[n - 1])
      <3>1. CASE n = 0
        BY <2>5, <3>1 DEF Recursive
      <3>2. CASE n # 0
        <4>1. n \in 1 .. N /\ n \in 0 + 1 .. N
          BY <3>2
        <4>2. f[n] = G[n][f[n - 1]] /\ f[n - 1] \in Allowed
          BY <1>7, <1>8, <2>5, <4>1 DEF Recursive
        <4> QED
          BY <2>2, <3>2, <4>1, <4>2
      <3> QED
        BY <3>1, <3>2
    <2>7. f = [n \in 0 .. N |-> f[n]]
      BY <2>5 DEF Recursive
    <2> QED
      BY <2>6, <2>7
  <1>10. move[0] = start /\ \A n \in 1 .. N : move[n] = Step(move[n - 1])
    <2>1. Made(move)
      <3> HIDE DEF Made
      <3> QED
        BY <1>4, <1>9
    <2>2. PICK f : f = move
      OBVIOUS
    <2>3. f = [n \in 0 .. N |-> IF n = 0 THEN start ELSE Step(f[n - 1])]
      BY <2>1, <2>2
    <2>4. f[0] = start /\ \A n \in 1 .. N : f[n] = Step(f[n - 1])
      BY ONLY <2>3, N \in Nat
    <2> QED
      BY <2>2, <2>4
  <1> HIDE DEF Made
  <1>11. move[0] \in S[0] /\ \A n \in 1 .. N : move[n - 1] \in S[n - 1] => move[n] \in S[n]
    BY <1>2, <1>3, <1>7, <1>8, <1>10
  <1>12. \A n \in 0 .. N : move[n] \in S[n]
    BY ONLY <1>11, N \in Nat, Throughout
  <1>13. move[N] \in Allowed
    BY <1>7, <1>12
  <1> QED
    BY <1>1, <1>5, <1>13 DEF Allowed

\* Phase 1 moves down until the current item is in view, if there is room.
LEMMA ScrollDown ==
  ASSUME NEW m, Measured(m), m.height > 0, NEW P, Rows(m, P), m.cy \in 0 .. Count(m) - 1,
         NEW least \in 0 .. m.cy, NEW most \in least .. m.cy,
         NEW k, SameLines(m, k), k.cy = m.cy, k.offset \in least .. most
  PROVE  \E o \in k.offset .. most : /\ ScrollOff(k, 1, least, most) = [k EXCEPT !.offset = o]
                                     /\ Roomy(m) /\ o < most => Seen(m, P, o)
  <1>0. PICK N \in Nat : N = Count(k) + 1 /\ m.cy < N /\ N = Count(m) + 1 /\ m.cy \in Nat
    <2>1. Count(k) = Count(m) /\ Count(k) \in Nat
      BY DEF Measured, Count, SameLines, Window, SameWindow
    <2>2. m.cy \in Nat /\ m.cy < Count(k)
      BY <2>1
    <2> QED
      BY <2>1, <2>2
  <1>1. PICK start \in Nat : start = k.offset /\ start \in least .. most
    BY <1>0
  <1> DEFINE Step(x) == Scroll(k, x, LinesBefore(k, x), 1, least, most)
             Made(f) == f = [n \in 0 .. N |-> IF n = 0 THEN start ELSE Step(f[n - 1])]
             Allowed(n) == {o \in start .. most : Step(o) = o \/ o = start + n}
  <1>2. start \in Allowed(0)
    BY <1>1
  <1>3. ASSUME NEW n \in 1 .. N, NEW x \in Allowed(n - 1) PROVE Step(x) \in Allowed(n)
    <2>1. PICK next : next = Step(x)
      OBVIOUS
    <2>2. x \in least .. most /\ x \in start .. most /\ x \in Nat /\ start >= least
      BY <1>0, <1>1
    <2>3. next = x \/ (next = x + 1 /\ next \in least .. most)
      BY <2>1, <2>2, ScrollIs
    <2>4. CASE next = x
      BY <2>1, <2>2, <2>4
    <2>5. CASE next # x
      <3>1. x = start + (n - 1) /\ next = x + 1 /\ next \in least .. most
        BY <2>1, <2>3, <2>5
      <3>2. next = start + n /\ next \in start .. most
        BY <1>1, <2>2, <3>1
      <3> QED
        BY <2>1, <3>2
    <2> QED
      BY <2>4, <2>5
  <1>4. PICK move : move = CHOOSE f : Made(f)
    OBVIOUS
  <1>5. ScrollOff(k, 1, least, most) = [k EXCEPT !.offset = move[N]]
    BY <1>0, <1>1, <1>4 DEF ScrollOff
  <1> HIDE DEF Allowed, Step
  <1>6. PICK S : S = [n \in 0 .. N |-> Allowed(n)]
    OBVIOUS
  <1>7. \A n \in 1 .. N : n - 1 \in 0 .. N /\ n \in 0 .. N /\ S[n - 1] = Allowed(n - 1) /\ S[n] = Allowed(n)
    BY <1>6
  <1>8. start \in S[0] /\ S[N] = Allowed(N)
    BY <1>2, <1>6
  <1>9. \E f : Made(f)
    <2>1. PICK G : G = [n \in 1 .. N |-> [x \in S[n - 1] |-> Step(x)]]
      OBVIOUS
    <2>2. \A n \in 1 .. N : \A x \in S[n - 1] : G[n][x] = Step(x)
      BY <2>1
    <2>3. \A n \in 1 .. N : \A x \in S[n - 1] : G[n][x] \in S[n]
      BY <1>3, <1>7, <2>2
    <2>4. PICK f : Recursive(f, 0, N, start, G, S)
      BY ONLY <2>3, <1>8, N \in Nat, Recursion
    <2>5. ASSUME NEW n \in 0 .. N PROVE f[n] = IF n = 0 THEN start ELSE Step(f[n - 1])
      <3>1. CASE n = 0
        BY <2>4, <3>1 DEF Recursive
      <3>2. CASE n # 0
        <4>1. n \in 1 .. N /\ n \in 0 + 1 .. N
          BY <3>2
        <4>2. f[n] = G[n][f[n - 1]] /\ f[n - 1] \in S[n - 1]
          BY <1>7, <2>4, <4>1 DEF Recursive
        <4> QED
          BY <2>2, <3>2, <4>1, <4>2
      <3> QED
        BY <3>1, <3>2
    <2>6. f = [n \in 0 .. N |-> f[n]]
      BY <2>4 DEF Recursive
    <2> QED
      BY <2>5, <2>6
  <1>10. move[0] = start /\ \A n \in 1 .. N : move[n] = Step(move[n - 1])
    <2>1. Made(move)
      <3> HIDE DEF Made
      <3> QED
        BY <1>4, <1>9
    <2>2. PICK f : f = move
      OBVIOUS
    <2>3. f = [n \in 0 .. N |-> IF n = 0 THEN start ELSE Step(f[n - 1])]
      BY <2>1, <2>2
    <2>4. f[0] = start /\ \A n \in 1 .. N : f[n] = Step(f[n - 1])
      BY ONLY <2>3, N \in Nat
    <2> QED
      BY <2>2, <2>4
  <1> HIDE DEF Made
  <1>11. move[0] \in S[0] /\ \A n \in 1 .. N : move[n - 1] \in S[n - 1] => move[n] \in S[n]
    BY <1>3, <1>7, <1>8, <1>10
  <1>12. \A n \in 0 .. N : move[n] \in S[n]
    BY ONLY <1>11, N \in Nat, Throughout
  <1>13. PICK o : o = move[N] /\ o \in Allowed(N)
    <2>1. N \in 0 .. N
      OBVIOUS
    <2> QED
      BY <1>8, <1>12, <2>1
  <1>14. o \in start .. most /\ Step(o) = o
    <2>1. o \in start .. most /\ (Step(o) = o \/ o = start + N)
      BY <1>13 DEF Allowed
    <2>2. most <= m.cy /\ most \in Int
      BY <1>0
    <2>3. o # start + N
      BY <1>0, <1>1, <2>1, <2>2
    <2> QED
      BY <2>1, <2>3
  <1>15. ASSUME Roomy(m), o < most PROVE Seen(m, P, o)
    <2>1. o \in least .. most
      BY <1>0, <1>1, <1>14
    <2> QED
      BY <1>14, <1>15, <2>1, ScrollIs DEF Step
  <1> QED
    BY <1>1, <1>5, <1>13, <1>14, <1>15
----------------------------------------------------------------------------
\* Within stays between its limits, and shows the current item or goes no further up than it has to.
LEMMA WithinIs ==
  ASSUME NEW m, Measured(m), m.height > 0, NEW P, Rows(m, P), m.cy \in 0 .. Count(m) - 1,
         NEW least \in 0 .. m.cy, NEW most \in least .. m.cy,
         NEW k, SameLines(m, k), k.cy = m.cy, k.offset \in 0 .. Count(m), DOMAIN k = ListFields
  PROVE  \E o \in least .. most : /\ Within(k, least, most).offset = o
                                  /\ Seen(m, P, o) \/ o >= Constrain(k.offset, least, most)
  <1>0. PICK cy \in Nat : cy = m.cy /\ least \in Nat /\ most \in Nat /\ least <= most /\ most <= cy
    <2>1. Count(m) \in Nat
      BY DEF Measured, Count, Window
    <2>2. m.cy \in Nat
      BY <2>1
    <2> QED
      BY <2>2
  <1>1. PICK g \in least .. most : g = Constrain(k.offset, least, most)
    <2>1. k.offset \in Int
      BY DEF Measured, Count, Window
    <2>2. Constrain(k.offset, least, most) \in least .. most
      BY <1>0, <2>1 DEF Constrain, Larger, Smaller
    <2> QED
      BY <2>2
  <1>2. PICK n : n = [k EXCEPT !.offset = g]
    OBVIOUS
  <1>3. n.offset = g /\ n.cy = m.cy /\ SameLines(m, n) /\ DOMAIN n = ListFields
    BY <1>2 DEF ListFields, SameLines, SameWindow
  <1>4. Within(k, least, most) =
          IF k.scrollOff = 0 THEN n ELSE ScrollOff(ScrollOff(n, 0, least, most), 1, least, most)
    BY <1>1, <1>2, <1>3 DEF Within, SameLines, SameWindow
  <1>5. CASE k.scrollOff = 0
    <2>1. Within(k, least, most).offset = g /\ g >= g
      BY <1>0, <1>1, <1>3, <1>4, <1>5
    <2> QED
      BY <1>1, <2>1
  <1>6. CASE k.scrollOff # 0
    <2>1. PICK up \in least .. most : ScrollOff(n, 0, least, most) = [n EXCEPT !.offset = up] /\ (up = g \/ Roomy(m))
      <3>1. n.offset \in least .. most
        BY <1>1, <1>3
      <3> QED
        BY <1>3, <3>1, ScrollUp
    <2>2. PICK u : u = [n EXCEPT !.offset = up]
      OBVIOUS
    <2>3. u.offset = up /\ u.cy = m.cy /\ SameLines(m, u) /\ DOMAIN u = ListFields
      BY <1>3, <2>2 DEF ListFields, SameLines, SameWindow
    <2>4. PICK o \in up .. most : /\ ScrollOff(u, 1, least, most) = [u EXCEPT !.offset = o]
                                  /\ Roomy(m) /\ o < most => Seen(m, P, o)
      BY <2>3, ScrollDown
    <2>5. Within(k, least, most).offset = o
      <3>1. Within(k, least, most) = [u EXCEPT !.offset = o]
        BY <1>4, <1>6, <2>1, <2>2, <2>4
      <3> QED
        BY <2>3, <3>1 DEF ListFields
    <2>6. o \in least .. most
      BY <1>0
    <2>7. Seen(m, P, o) \/ o >= g
      <3>1. CASE up = g
        BY <1>0, <1>1, <2>4, <3>1
      <3>2. CASE Roomy(m) /\ o < most
        BY <2>4, <3>2
      <3>3. CASE ~(o < most)
        BY <1>0, <1>1, <2>6, <3>3
      <3> QED
        BY <2>1, <3>1, <3>2, <3>3
    <2> QED
      BY <1>1, <2>5, <2>6, <2>7
  <1> QED
    BY <1>5, <1>6

\* The further down a window begins, the fewer lines are above the current item.
LEMMA SeenBelow ==
  ASSUME NEW m, Measured(m), m.height > 0, NEW P, Rows(m, P), m.cy \in 0 .. Count(m) - 1,
         NEW a \in 0 .. m.cy, NEW b \in a .. m.cy, Seen(m, P, a)
  PROVE  Seen(m, P, b)
  <1>1. Count(m) \in Nat
    BY DEF Measured, Count, Window
  <1>2. PICK cy \in Nat : cy = m.cy /\ cy \in 0 .. Count(m) /\ a \in 0 .. Count(m) /\ b \in 0 .. Count(m) /\ a <= b
    BY <1>1
  <1>3. PICK x \in Nat, y \in Nat, z \in Nat, h \in Nat : x = P[a] /\ y = P[b] /\ z = P[cy] /\ h = m.height
    BY <1>2 DEF Rows, Measured, Window
  <1>4. x + (b - a) <= y
    BY <1>2, <1>3, RowsGrow
  <1>5. z - x < h
    BY <1>2, <1>3 DEF Seen
  <1>6. z - y < h
    BY <1>2, <1>3, <1>4, <1>5
  <1> QED
    BY <1>2, <1>3, <1>6 DEF Seen

\* A round of constrain leaves the offset at the cursor or above, less than a window away.  The
\* current item stays in view, or the offset comes closer to it.
LEMMA RoundIs ==
  ASSUME NEW m, Measured(m), m.height > 0, NEW P, Rows(m, P), m.cy \in 0 .. Count(m) - 1,
         NEW f \in 0 .. Count(m), NEW k, SameLines(m, k), k.cy = m.cy, k.offset = f, DOMAIN k = ListFields
  PROVE  \E o \in 0 .. m.cy :
           /\ ConstrainOnce(k).offset = o /\ m.cy - o <= m.height - 1
           /\ f <= m.cy => /\ Seen(m, P, f) => Seen(m, P, o)
                           /\ Seen(m, P, o) \/ m.cy - o <= m.cy - f - 1
  <1>0. PICK N \in Nat, h \in Nat, cy \in Nat : N = Count(m) /\ h = m.height /\ cy = m.cy /\ cy < N /\ h > 0
    <2>1. Count(m) \in Nat
      BY DEF Measured, Count, Window
    <2>2. m.cy \in Nat /\ m.cy < Count(m)
      BY <2>1
    <2> QED
      BY <2>1, <2>2 DEF Measured, Window
  <1>1. PICK fit : fit = Fitting(k) /\ Fit(m, P, f, fit)
    BY <1>0, FittingIs
  <1>2. fit \in 1 .. h /\ fit \in Nat /\ f \in Nat /\ f <= N
    BY <1>0, <1>1 DEF Fit
  <1>3. PICK least \in 0 .. cy : least = Larger(cy - fit + 1, 0) /\ (least = cy - fit + 1 \/ (least = 0 /\ cy - fit + 1 <= 0))
    <2>1. /\ Larger(cy - fit + 1, 0) \in 0 .. cy
          /\ Larger(cy - fit + 1, 0) = cy - fit + 1 \/ (Larger(cy - fit + 1, 0) = 0 /\ cy - fit + 1 <= 0)
      BY <1>0, <1>2 DEF Larger
    <2> QED
      BY <2>1
  <1>4. PICK most \in least .. cy : most = Larger(Smaller(N - fit, cy), 0) /\ (most = cy \/ most = Larger(N - fit, 0))
    <2>1. Larger(Smaller(N - fit, cy), 0) \in least .. cy
      BY <1>0, <1>2, <1>3 DEF Larger, Smaller
    <2>2. Larger(Smaller(N - fit, cy), 0) = cy \/ Larger(Smaller(N - fit, cy), 0) = Larger(N - fit, 0)
      BY <1>0, <1>2 DEF Larger, Smaller
    <2> QED
      BY <2>1, <2>2
  <1>5. ConstrainOnce(k) = Within(k, least, most)
    BY <1>0, <1>1, <1>3, <1>4 DEF ConstrainOnce, WithFitting, SameLines, Count, SameWindow
  <1>6. PICK o \in least .. most : ConstrainOnce(k).offset = o /\ (Seen(m, P, o) \/ o >= Constrain(f, least, most))
    BY <1>0, <1>5, WithinIs
  <1>7. o \in 0 .. cy /\ cy - o <= h - 1 /\ o \in Nat /\ least <= o /\ o <= most
    BY <1>0, <1>2, <1>3, <1>4, <1>6
  <1>8. ASSUME f <= cy
        PROVE  (Seen(m, P, f) => Seen(m, P, o)) /\ (Seen(m, P, o) \/ cy - o <= cy - f - 1)
    <2>1. PICK g \in least .. most : /\ g = Constrain(f, least, most)
                                     /\ g >= f \/ g = most
      <3>1. Constrain(f, least, most) \in least .. most
        BY <1>2, <1>3, <1>4 DEF Constrain, Larger, Smaller
      <3>2. Constrain(f, least, most) >= f \/ Constrain(f, least, most) = most
        BY <1>2, <1>3, <1>4 DEF Constrain, Larger, Smaller
      <3> QED
        BY <3>1, <3>2
    <2>2. CASE Seen(m, P, o)
      BY <2>2
    <2>3. CASE o >= g /\ Seen(m, P, f)
      <3>1. Seen(m, P, g)
        <4>1. CASE g >= f
          <5>1. f \in 0 .. cy /\ g \in f .. cy
            BY <1>2, <1>3, <1>4, <1>8, <4>1
          <5> QED
            BY <1>0, <2>3, <5>1, SeenBelow
        <4>2. CASE g = most /\ ~(g >= f)
          <5>1. most = Larger(N - fit, 0) /\ f + fit > N
            <6>1. most # cy /\ most < f
              BY <1>2, <1>4, <1>8, <2>1, <4>2
            <6>2. most = Larger(N - fit, 0)
              BY <1>4, <6>1
            <6>3. N - fit <= most
              BY <1>0, <1>2, <6>2 DEF Larger
            <6> QED
              BY <1>0, <1>2, <1>4, <6>1, <6>2, <6>3
          <5>2. P[N - 1] - P[most] < h
            BY <1>0, <1>1, <1>2, <5>1 DEF Fit
          <5>3. PICK at \in 0 .. N : at = N - 1 /\ cy <= at
            BY <1>0
          <5>4. most \in 0 .. N /\ cy \in 0 .. N
            BY <1>0, <1>3, <1>4
          <5>5. P[cy] + (at - cy) <= P[at]
            BY <1>0, <5>3, <5>4, RowsGrow
          <5>6. PICK x \in Nat, y \in Nat, z \in Nat : x = P[cy] /\ y = P[at] /\ z = P[most]
            BY <1>0, <5>3, <5>4 DEF Rows
          <5>7. x - z < h
            BY <1>0, <5>2, <5>3, <5>5, <5>6
          <5> QED
            BY <1>0, <4>2, <5>6, <5>7 DEF Seen
        <4> QED
          BY <2>1, <4>1, <4>2
      <3>2. g \in 0 .. cy /\ o \in g .. cy
        BY <1>3, <1>4, <1>7, <2>3
      <3> QED
        BY <1>0, <3>1, <3>2, SeenBelow
    <2>4. CASE o >= g /\ ~Seen(m, P, f)
      <3>1. f + fit <= cy
        <4> SUFFICES ASSUME ~(f + fit <= cy) PROVE FALSE
          OBVIOUS
        <4>1. PICK at \in 0 .. N : cy <= at /\ P[at] - P[f] < h
          <5>1. CASE f + fit <= N /\ P[f + fit - 1] - P[f] < h
            <6>1. f + fit - 1 \in 0 .. N /\ cy <= f + fit - 1
              BY <1>0, <1>2, <5>1
            <6> QED
              BY <5>1, <6>1
          <5>2. CASE P[N] - P[f] < h
            BY <1>0, <5>2
          <5> QED
            BY <1>0, <1>1, <5>1, <5>2 DEF Fit
        <4>2. cy \in 0 .. N /\ f \in 0 .. N
          BY <1>0, <1>2
        <4>3. P[cy] + (at - cy) <= P[at]
          BY <1>0, <4>1, <4>2, RowsGrow
        <4>4. PICK x \in Nat, y \in Nat, z \in Nat : x = P[cy] /\ y = P[at] /\ z = P[f]
          BY <1>0, <4>2 DEF Rows
        <4>5. x - z < h
          BY <1>0, <4>1, <4>3, <4>4
        <4> QED
          BY <1>0, <2>4, <4>4, <4>5 DEF Seen
      <3>2. least > f
        BY <1>0, <1>2, <1>3, <3>1
      <3> QED
        BY <1>0, <1>2, <1>3, <1>7, <2>4, <3>2
    <2> QED
      BY <1>6, <2>1, <2>2, <2>3, <2>4
  <1> QED
    BY <1>0, <1>6, <1>7, <1>8

\* What constrain knows after n rounds: the current item is in view, or the offset is so close to it.
Rounds(m, P, n) ==
  {so \in [offset : 0 .. Count(m), done : BOOLEAN] :
     IF n = 0 THEN ~so.done
     ELSE /\ so.offset <= m.cy
          /\ Seen(m, P, so.offset) \/ m.cy - so.offset <= m.height - n
          /\ so.done => Seen(m, P, so.offset)}

LEMMA RoundsStep ==
  ASSUME NEW m, Measured(m), m.height > 0, NEW P, Rows(m, P), m.cy \in 0 .. Count(m) - 1,
         DOMAIN m = ListFields, NEW n \in 1 .. m.height, NEW so \in Rounds(m, P, n - 1)
  PROVE  (IF so.done THEN so ELSE Settled(so.offset, ConstrainOnce([m EXCEPT !.offset = so.offset]).offset))
           \in Rounds(m, P, n)
  <1>0. PICK N \in Nat, h \in Nat, cy \in Nat : N = Count(m) /\ h = m.height /\ cy = m.cy /\ cy < N /\ n \in 1 .. h
    <2>1. Count(m) \in Nat
      BY DEF Measured, Count, Window
    <2>2. m.cy \in Nat /\ m.cy < Count(m)
      BY <2>1
    <2> QED
      BY <2>1, <2>2 DEF Measured, Window
  <1>1. PICK f \in 0 .. N : f = so.offset
    BY <1>0 DEF Rounds
  <1>2. n # 0 /\ n \in Nat
    BY <1>0
  <1>3. CASE so.done
    <2>1. n - 1 # 0 /\ so \in [offset : 0 .. N, done : BOOLEAN] /\ so.offset <= cy /\ Seen(m, P, so.offset)
      BY <1>0, <1>3 DEF Rounds
    <2> QED
      BY <1>0, <1>2, <1>3, <2>1 DEF Rounds
  <1>4. CASE ~so.done
    <2>1. PICK k : k = [m EXCEPT !.offset = f]
      OBVIOUS
    <2>2. k.offset = f /\ k.cy = cy /\ SameLines(m, k) /\ DOMAIN k = ListFields
      BY <1>0, <2>1 DEF ListFields, SameLines, SameWindow
    <2>3. PICK o \in 0 .. cy :
            /\ ConstrainOnce(k).offset = o /\ cy - o <= h - 1
            /\ f <= cy => /\ Seen(m, P, f) => Seen(m, P, o)
                          /\ Seen(m, P, o) \/ cy - o <= cy - f - 1
      BY <1>0, <1>1, <2>2, RoundIs
    <2>4. PICK done \in BOOLEAN : done = (o = f) /\ (done <=> o = f)
      <3>1. PICK b : b = IF o = f THEN TRUE ELSE FALSE
        OBVIOUS
      <3>2. b \in BOOLEAN /\ (b <=> o = f)
        BY <3>1
      <3>3. b = (o = f)
        BY <3>2
      <3> QED
        BY <3>2, <3>3
    <2>5. PICK next : next = Settled(f, o)
      OBVIOUS
    <2>6. next = [offset |-> o, done |-> done]
      BY <2>4, <2>5 DEF Settled
    <2>7. next \in [offset : 0 .. N, done : BOOLEAN] /\ next.offset = o /\ next.done = done
      <3>1. o \in 0 .. N
        BY <1>0
      <3> QED
        BY <2>6, <3>1
    <2>8. o <= cy /\ o \in Int /\ f \in Int
      BY <1>0
    <2>9. done => Seen(m, P, o)
      BY <1>0, <2>3, <2>4, <2>8
    <2>10. Seen(m, P, o) \/ cy - o <= h - n
      <3>1. CASE n = 1
        BY <1>0, <2>3, <3>1
      <3>2. CASE n # 1
        <4>1. n - 1 # 0 /\ f <= cy /\ (Seen(m, P, f) \/ cy - f <= h - (n - 1))
          BY <1>0, <1>1, <1>2, <3>2 DEF Rounds
        <4> QED
          BY <1>0, <2>3, <2>8, <4>1
      <3> QED
        BY <3>1, <3>2
    <2>11. next \in Rounds(m, P, n)
      BY <1>0, <1>2, <2>7, <2>8, <2>9, <2>10 DEF Rounds
    <2> QED
      BY <1>1, <1>4, <2>1, <2>3, <2>5, <2>11
  <1> QED
    BY <1>3, <1>4

\* constrain, of a list that is drawn on a line at least: the cursor is in the list, and in view.
LEMMA ConstrainIs ==
  ASSUME NEW m, Measured(m), m.height > 0, Count(m) > 0, m.cy \in Int, m.offset \in Int,
         DOMAIN m = ListFields
  PROVE  \E n : /\ n = ConstrainList(m) /\ SameLines(m, n) /\ DOMAIN n = ListFields
                /\ n.cy \in 0 .. Count(m) - 1 /\ n.offset \in 0 .. n.cy
                /\ \E P : Rows(n, P) /\ Seen(n, P, n.offset)
  <1>0. PICK N \in Nat, h \in Nat : N = Count(m) /\ h = m.height /\ N > 0 /\ h > 0
    BY DEF Measured, Count, Window
  <1>1. PICK cy \in Nat : cy = InList(m) /\ cy \in 0 .. N - 1
    <2>1. InList(m) \in 0 .. N - 1
      BY <1>0 DEF InList, Constrain, Larger, Smaller
    <2> QED
      BY <1>0, <2>1
  <1>2. PICK k : k = [m EXCEPT !.cy = cy]
    OBVIOUS
  <1>3. k.cy = cy /\ SameLines(m, k) /\ DOMAIN k = ListFields
    BY <1>2 DEF ListFields, SameLines, SameWindow
  <1>4. Measured(k) /\ Count(k) = N /\ k.height = h /\ k.cy \in 0 .. Count(k) - 1
    BY <1>0, <1>1, <1>3 DEF Measured, SameLines, Count, Window, SameWindow
  <1>5. PICK P : Rows(k, P)
    BY <1>0, <1>4, RowsExist
  <1>6. PICK start, first : start = Constrain(m.offset, 0, N) /\ first = [offset |-> start, done |-> FALSE]
    OBVIOUS
  <1> DEFINE Step(so) == IF so.done THEN so
                         ELSE Settled(so.offset, ConstrainOnce([k EXCEPT !.offset = so.offset]).offset)
             Made(r) == r = [n \in 0 .. h |-> IF n = 0 THEN first ELSE Step(r[n - 1])]
  <1>7. PICK round : round = CHOOSE r : Made(r)
    OBVIOUS
  <1>8. ConstrainList(m) = [k EXCEPT !.offset = round[h].offset]
    <2>1. ConstrainList(m) = Scrolled(k, start)
      BY <1>0, <1>1, <1>2, <1>6 DEF ConstrainList
    <2>2. Scrolled(k, start) = [k EXCEPT !.offset = round[h].offset]
      BY <1>4, <1>6, <1>7 DEF Scrolled
    <2> QED
      BY <2>1, <2>2
  <1>9. PICK S : S = [n \in 0 .. h |-> Rounds(k, P, n)]
    OBVIOUS
  <1>10. \A n \in 1 .. h : n - 1 \in 0 .. h /\ n \in 0 .. h /\ S[n - 1] = Rounds(k, P, n - 1) /\ S[n] = Rounds(k, P, n)
    BY <1>9
  <1>11. first \in S[0]
    <2>1. start \in 0 .. N
      BY <1>0, <1>6 DEF Constrain, Larger, Smaller
    <2>2. first \in Rounds(k, P, 0)
      BY <1>4, <1>6, <2>1 DEF Rounds
    <2> QED
      BY <1>9, <2>2
  <1>12. ASSUME NEW n \in 1 .. h, NEW so \in S[n - 1] PROVE Step(so) \in S[n]
    <2>1. so \in Rounds(k, P, n - 1) /\ n \in 1 .. k.height
      BY <1>4, <1>10
    <2>2. Step(so) \in Rounds(k, P, n)
      BY <1>0, <1>3, <1>4, <1>5, <2>1, RoundsStep
    <2> QED
      BY <1>10, <2>2
  <1> HIDE DEF Step
  <1>13. \E r : Made(r)
    <2>1. PICK G : G = [n \in 1 .. h |-> [x \in S[n - 1] |-> Step(x)]]
      OBVIOUS
    <2>2. \A n \in 1 .. h : \A x \in S[n - 1] : G[n][x] = Step(x)
      BY <2>1
    <2>3. \A n \in 1 .. h : \A x \in S[n - 1] : G[n][x] \in S[n]
      BY <1>12, <2>2
    <2>4. PICK r : Recursive(r, 0, h, first, G, S)
      BY ONLY <1>11, <2>3, h \in Nat, Recursion
    <2>5. ASSUME NEW n \in 0 .. h PROVE r[n] = IF n = 0 THEN first ELSE Step(r[n - 1])
      <3>1. CASE n = 0
        BY <2>4, <3>1 DEF Recursive
      <3>2. CASE n # 0
        <4>1. n \in 1 .. h /\ n \in 0 + 1 .. h
          BY <3>2
        <4>2. r[n] = G[n][r[n - 1]] /\ r[n - 1] \in S[n - 1]
          BY <1>10, <2>4, <4>1 DEF Recursive
        <4> QED
          BY <2>2, <3>2, <4>1, <4>2
      <3> QED
        BY <3>1, <3>2
    <2>6. r = [n \in 0 .. h |-> r[n]]
      BY <2>4 DEF Recursive
    <2> QED
      BY <2>5, <2>6
  <1>14. round[0] = first /\ \A n \in 1 .. h : round[n] = Step(round[n - 1])
    <2>1. Made(round)
      <3> HIDE DEF Made
      <3> QED
        BY <1>7, <1>13
    <2>2. PICK r : r = round
      OBVIOUS
    <2>3. r = [n \in 0 .. h |-> IF n = 0 THEN first ELSE Step(r[n - 1])]
      BY <2>1, <2>2
    <2>4. r[0] = first /\ \A n \in 1 .. h : r[n] = Step(r[n - 1])
      BY ONLY <2>3, h \in Nat
    <2> QED
      BY <2>2, <2>4
  <1> HIDE DEF Made
  <1>15. round[0] \in S[0] /\ \A n \in 1 .. h : round[n - 1] \in S[n - 1] => round[n] \in S[n]
    BY <1>11, <1>12, <1>14
  <1>16. \A n \in 0 .. h : round[n] \in S[n]
    BY ONLY <1>15, h \in Nat, Throughout
  <1>17. round[h] \in Rounds(k, P, h)
    <2>1. h \in 0 .. h
      OBVIOUS
    <2> QED
      BY <1>9, <1>16, <2>1
  <1>18. PICK o \in 0 .. cy : o = round[h].offset /\ Seen(k, P, o)
    <2>1. PICK o \in 0 .. N : o = round[h].offset /\ o <= cy /\ (Seen(k, P, o) \/ cy - o <= h - h)
      BY <1>0, <1>3, <1>4, <1>17 DEF Rounds
    <2>2. CASE o = cy
      <3>1. P[cy] \in Nat
        BY <1>1, <1>4 , <1>5 DEF Rows
      <3>2. P[cy] - P[cy] < h
        BY <1>0, <3>1
      <3> QED
        BY <1>3, <1>4, <2>1, <2>2, <3>2 DEF Seen
    <2>3. CASE o # cy
      BY <2>1, <2>3
    <2> QED
      BY <2>1, <2>2, <2>3
  <1>19. PICK n : n = [k EXCEPT !.offset = o]
    OBVIOUS
  <1>20. n.cy = cy /\ n.offset = o /\ SameLines(k, n) /\ DOMAIN n = ListFields
    BY <1>3, <1>19 DEF ListFields, SameLines, SameWindow
  <1>21. Rows(n, P) /\ Seen(n, P, o)
    <2>1. ASSUME NEW i PROVE Own(n, i) = Own(k, i)
      BY <1>20 DEF SameLines, Own, LinesUpTo, CutOff, ItemLines, OwnLines, ItemAt, SameWindow
    <2>2. Count(n) = Count(k) /\ n.height = k.height
      BY <1>20 DEF SameLines, Count, SameWindow
    <2> QED
      BY <1>3, <1>5, <1>18, <1>20, <2>1, <2>2 DEF Rows, Seen
  <1>22. SameLines(m, n)
    BY <1>3, <1>20 DEF SameLines, SameWindow
  <1> QED
    BY <1>0, <1>1, <1>8, <1>18, <1>19, <1>20, <1>21, <1>22

\* What CursorVisible says of the list as it is drawn
Visible(m) ==
  LET above[i \in m.offset .. Larger(m.offset, m.cy)] ==
        IF i = m.offset THEN 0 ELSE above[i - 1] + LinesUpTo(m, i - 1, m.height).n
  IN  HasCurrent(m) /\ m.height > 0 => m.cy >= m.offset /\ above[m.cy] < m.height

LEMMA ConstrainShows ==
  ASSUME NEW m, Measured(m), DOMAIN m = ListFields,
         Count(m) > 0 /\ m.height > 0 => m.cy \in Int /\ m.offset \in Int
  PROVE  Visible(ConstrainList(m))
  <1>1. PICK n : n = ConstrainList(m)
    OBVIOUS
  <1>2. n.height = m.height /\ n.shown = m.shown /\ n.multiLine = m.multiLine /\ n.gap = m.gap
          /\ n.lines = m.lines /\ n.scrollOff = m.scrollOff
    <2>1. PICK cy, offset : n = [[m EXCEPT !.cy = cy] EXCEPT !.offset = offset]
      BY <1>1 DEF ConstrainList, Scrolled
    <2> QED
      BY <2>1 DEF ListFields
  <1>3. Measured(n)
    BY <1>2 DEF Measured, Window
  <1>4. CASE ~(HasCurrent(n) /\ n.height > 0)
    BY <1>1, <1>4 DEF Visible
  <1>5. CASE HasCurrent(n) /\ n.height > 0
    <2>0. PICK N \in Nat : N = Count(m) /\ N = Count(n)
      BY <1>2 DEF Measured, Count, Window
    <2>1. N > 0 /\ m.height > 0
      BY <1>2, <1>5, <2>0 DEF HasCurrent
    <2>2. n.cy \in 0 .. N - 1 /\ n.offset \in 0 .. n.cy /\ \E P : Rows(n, P) /\ Seen(n, P, n.offset)
      BY <1>1, <2>0, <2>1, ConstrainIs
    <2>3. PICK P : Rows(n, P) /\ Seen(n, P, n.offset)
      BY <2>2
    <2>4. PICK cy \in 0 .. N : cy = n.cy
      BY <2>0, <2>2
    <2>5. PICK f \in 0 .. N : f = n.offset /\ f <= cy
      BY <2>0, <2>2, <2>4
    <2>6. Larger(f, cy) = cy
      BY <2>4, <2>5 DEF Larger
    <2> DEFINE Made(a) == a = [i \in f .. cy |-> IF i = f THEN 0 ELSE a[i - 1] + Own(n, i - 1)]
    <2>7. \E a : Made(a)
      BY <1>3, <1>5, <2>0, <2>3, <2>5, AboveExists
    <2>8. PICK above : above = CHOOSE a : Made(a)
      OBVIOUS
    <2>9. Made(above)
      <3> HIDE DEF Made
      <3> QED
        BY <2>7, <2>8
    <2>10. above[cy] = P[cy] - P[f]
      <3>1. PICK a : a = above
        OBVIOUS
      <3>2. a = [i \in f .. cy |-> IF i = f THEN 0 ELSE a[i - 1] + Own(n, i - 1)]
        BY <2>9, <3>1
      <3>3. f \in Int /\ cy \in Int /\ f <= cy
        BY <2>5
      <3>4. a[f] = 0 /\ \A i \in f + 1 .. cy : a[i] = a[i - 1] + Own(n, i - 1)
        BY ONLY <3>2, <3>3
      <3> HIDE DEF Made
      <3> QED
        BY <1>3, <1>5, <2>0, <2>3, <2>5, <3>1, <3>4, AboveIs
    <2>11. above[cy] < n.height /\ cy >= f
      BY <2>3, <2>4, <2>5, <2>10 DEF Seen
    <2>12. Visible(n) <=> (HasCurrent(n) /\ n.height > 0 => cy >= f /\ above[cy] < n.height)
      BY <2>4, <2>5, <2>6, <2>8 DEF Visible, Own
    <2> QED
      BY <1>1, <2>11, <2>12
  <1> QED
    BY <1>4, <1>5

\* The cursor and the offset of a list that can be drawn
CursorInv == Count(l) > 0 /\ l.height > 0 => l.cy \in Int /\ l.offset \in Int

\* A list that is near enough has them.
LEMMA NearInt ==
  ASSUME NEW m, NEW M, NEW any, SoundList(m, M, any), Near(m)
  PROVE  m.cy \in Int /\ m.offset \in Int
  <1>1. Count(m) \in Nat /\ m.height \in Nat
    BY DEF SoundList, ListOf, Count, Window
  <1> QED
    BY <1>1 DEF Near

\* Every step keeps it.
LEMMA CursorStep ==
  ASSUME SelectionInv, CursorInv, [Next]_vars
  PROVE  CursorInv'
  <1>1. ASSUME NEW kind, NEW arg, Loop(kind, arg) PROVE CursorInv'
    <2>1. PICK callbacks, s : /\ s = Iteration(Event(kind, arg), ActionsGiven(kind, arg), callbacks)
                              /\ l' = [s.l EXCEPT !.touched = FALSE] /\ Near(s.l)
      BY <1>1 DEF Loop
    <2>2. SoundList(s.l, c.revision[1], c.idNth)
      BY <2>1, IterationGood DEF Good
    <2>3. s.l.cy \in Int /\ s.l.offset \in Int
      BY <2>1, <2>2, NearInt
    <2>4. l'.cy = s.l.cy /\ l'.offset = s.l.offset
      BY <2>1, <2>2 DEF SoundList, ListFields
    <2> QED
      BY <2>3, <2>4 DEF CursorInv
  <1>2. ASSUME Render PROVE CursorInv'
    <2>1. l' = ConstrainList(l)
      BY <1>2 DEF Render, Draw
    <2>2. DOMAIN l = ListFields /\ Measured(l)
      BY DEF SelectionInv, SoundList, ListOf, Measured
    <2>3. SameItems(l, l')
      BY <2>1, <2>2, ConstrainSame
    <2>4. Count(l') = Count(l) /\ l'.height = l.height /\ Count(l) \in Nat
      BY <2>2, <2>3 DEF SameItems, SameWindow, Count, Measured
    <2>5. CASE Count(l) > 0 /\ l.height > 0
      <3>1. l'.cy \in 0 .. Count(l) - 1 /\ l'.offset \in 0 .. l'.cy
        BY <2>1, <2>2, <2>5, ConstrainIs DEF CursorInv
      <3> QED
        BY <2>4, <3>1 DEF CursorInv
    <2>6. CASE ~(Count(l) > 0 /\ l.height > 0)
      BY <2>4, <2>6 DEF CursorInv
    <2> QED
      BY <2>5, <2>6
  <1>3. ASSUME NEW indices \in Lists, Deliver(indices) PROVE CursorInv'
    <2>1. Near(l')
      BY <1>3 DEF Deliver
    <2>2. SoundList(l', c'.revision[1], c'.idNth)
      BY <1>3, DeliverSelection DEF SelectionInv
    <2> QED
      BY <2>1, <2>2, NearInt DEF CursorInv
  <1>4. CASE l' = l
    BY <1>4 DEF CursorInv, Count
  <1>5. Exit \/ TakeRequest \/ ReadMore \/ ReadEnd \/ (\E x \in 0 .. MaxPattern : ClickOnPrompt(x)) \/ UNCHANGED vars
          => l' = l
    BY DEF Exit, TakeRequest, ReadMore, ReadEnd, ClickOnPrompt, vars
  <1> QED
    BY <1>1, <1>2, <1>3, <1>4, <1>5 DEF Next, Results

\* Whatever the items take of lines, wherever an action or a new list has put cursor and offset, and
\* whatever the window and --scroll-off: as many rounds as the window has lines bring the current
\* item into view.
THEOREM CursorIsVisible == Spec => []CursorVisible
  <1>1. Init => SelectionInv /\ CursorInv
    <2>1. Init => CursorInv
      BY TerminalAssumption DEF Init, CursorInv
    <2> QED
      BY <2>1, SelectionInit
  <1>2. SelectionInv /\ CursorInv /\ [Next]_vars => SelectionInv' /\ CursorInv'
    BY SelectionStep, CursorStep
  <1>3. SelectionInv /\ CursorInv => CursorVisible
    <2> SUFFICES ASSUME SelectionInv, CursorInv PROVE CursorVisible
      OBVIOUS
    <2>1. DOMAIN l = ListFields /\ Measured(l)
      BY DEF SelectionInv, SoundList, ListOf, Measured
    <2>2. Visible(ConstrainList(l))
      BY <2>1, ConstrainShows DEF CursorInv
    <2> QED
      BY <2>2 DEF CursorVisible, Visible
  <1> QED
    BY <1>1, <1>2, <1>3, PTL DEF Spec
=============================================================================
