---------------------------- MODULE DesktopProofs ----------------------------
(***************************************************************************)
(* The desktop's loop gets the keys in order (KeysInOrder), for rings of   *)
(* every size, every keyboard and every number of windows and interrupts.  *)
(* What makes it inductive: between the loop's fetch of an entry and its   *)
(* move of the tail that entry stays the oldest of a ring that is not      *)
(* empty, although the handler pushes others behind it.                    *)
(***************************************************************************)
EXTENDS Desktop, SequenceTheorems, TLAPS

-----------------------------------------------------------------------------
(* Lemmas: the ring of Keyboard is a bounded queue, for every size of the ring *)

\* Where a place is that was counted on past the end of the ring.
Wrap(i) == IF i < KB_BUFFER_SIZE THEN i ELSE i - KB_BUFFER_SIZE

\* How many entries the ring holds.
Count(r) == IF r.tail <= r.head THEN r.head - r.tail ELSE r.head + KB_BUFFER_SIZE - r.tail

\* The remainder, for numbers that are at most once around the ring.
LEMMA Modulo ==
  ASSUME NEW n \in Nat \ {0}, NEW i \in 0 .. 2 * n - 1
  PROVE  i % n = IF i < n THEN i ELSE i - n
OBVIOUS

\* One place on.
LEMMA ModuloNext ==
  ASSUME NEW n \in Nat \ {0}, NEW i \in 0 .. n - 1
  PROVE  (i + 1) % n = IF i + 1 < n THEN i + 1 ELSE i + 1 - n
<1> DEFINE j == i + 1
<1>1. j \in 0 .. 2 * n - 1
  OBVIOUS
<1> HIDE DEF j
<1>2. j % n = IF j < n THEN j ELSE j - n
  BY <1>1, Modulo
<1>3. QED
  BY <1>2 DEF j

\* Content in terms of Wrap and Count.
LEMMA ContentIs ==
  ASSUME NEW items, NEW none, NEW r \in Ring(items, none)
  PROVE  /\ Count(r) \in 0 .. KB_BUFFER_SIZE - 1
         /\ Content(r) = [i \in 1 .. Count(r) |-> r.cells[Wrap(r.tail + i - 1)]]
         /\ \A i \in 1 .. Count(r) : Wrap(r.tail + i - 1) \in Places
<1> DEFINE n == KB_BUFFER_SIZE
<1>1. n \in Nat \ {0} /\ r.head \in 0 .. n - 1 /\ r.tail \in 0 .. n - 1
  BY KeyboardAssumption DEF Ring, Places
<1>2. Count(r) \in 0 .. n - 1
  BY <1>1 DEF Count
<1>3. (r.head + n - r.tail) % n = Count(r)
  <2>1. r.head + n - r.tail \in 0 .. 2 * n - 1
    BY <1>1
  <2>2. QED
    BY <1>1, <2>1, Modulo DEF Count
<1>4. ASSUME NEW i \in 1 .. Count(r)
      PROVE  (r.tail + i - 1) % n = Wrap(r.tail + i - 1) /\ Wrap(r.tail + i - 1) \in Places
  <2> DEFINE j == r.tail + i - 1
  <2>1. j \in 0 .. 2 * n - 1
    BY <1>1, <1>2
  <2> HIDE DEF j
  <2>2. j % n = IF j < n THEN j ELSE j - n
    BY <1>1, <2>1, Modulo
  <2>3. Wrap(j) = IF j < n THEN j ELSE j - n
    BY DEF Wrap
  <2>4. Wrap(j) \in Places
    BY <1>1, <2>1, <2>3 DEF Places
  <2>5. QED
    BY <2>2, <2>3, <2>4 DEF j
<1>5. QED
  BY <1>2, <1>3, <1>4 DEF Content

\* The entries are a sequence.
LEMMA ContentSeq ==
  ASSUME NEW items, NEW none, NEW r \in Ring(items, none)
  PROVE  /\ Content(r) \in Seq(items \cup {none})
         /\ Len(Content(r)) = Count(r)
         /\ \A i \in 1 .. Count(r) : Content(r)[i] = r.cells[Wrap(r.tail + i - 1)]
<1>1. r.cells \in [Places -> items \cup {none}]
  BY DEF Ring
<1>2. \A i \in 1 .. Count(r) : r.cells[Wrap(r.tail + i - 1)] \in items \cup {none}
  BY <1>1, ContentIs
<1>3. Count(r) \in Nat
  BY ContentIs, KeyboardAssumption
<1> HIDE DEF Content
<1>4. QED
  BY <1>2, <1>3, ContentIs

\* The tests for an empty and for a full ring.
LEMMA EmptyFull ==
  ASSUME NEW items, NEW none, NEW r \in Ring(items, none)
  PROVE  /\ Empty(r) <=> Count(r) = 0
         /\ Full(r) <=> Count(r) = KB_BUFFER_SIZE - 1
<1> DEFINE n == KB_BUFFER_SIZE
           h == r.head
           t == r.tail
<1>1. n \in Nat \ {0} /\ h \in 0 .. n - 1 /\ t \in 0 .. n - 1
  BY KeyboardAssumption DEF Ring, Places
<1>2. Empty(r) <=> h = t
  BY DEF Empty
<1>3. Count(r) = IF t <= h THEN h - t ELSE h + n - t
  BY DEF Count
<1>4. Full(r) <=> (h + 1) % n = t
  BY DEF Full
<1> HIDE DEF n, h, t
<1>5. (h + 1) % n = IF h + 1 < n THEN h + 1 ELSE h + 1 - n
  BY <1>1, ModuloNext
<1>6. Full(r) <=> Count(r) = n - 1
  BY <1>1, <1>3, <1>4, <1>5
<1>7. Empty(r) <=> Count(r) = 0
  BY <1>1, <1>2, <1>3
<1>8. QED
  BY <1>6, <1>7 DEF n

\* A push appends, and where the ring is full does nothing; it spares the oldest
\* entry.
LEMMA PushAppends ==
  ASSUME NEW items, NEW none, NEW r \in Ring(items, none), NEW x \in items
  PROVE  /\ Push(r, x) \in Ring(items, none)
         /\ Content(Push(r, x)) = IF Len(Content(r)) < KB_BUFFER_SIZE - 1
                                  THEN Append(Content(r), x) ELSE Content(r)
         /\ Push(r, x).tail = r.tail
         /\ ~Empty(r) => ~Empty(Push(r, x)) /\ Push(r, x).cells[r.tail] = r.cells[r.tail]
<1> DEFINE n == KB_BUFFER_SIZE
           h == r.head
           t == r.tail
           c == Count(r)
           q == Push(r, x)
           S == items \cup {none}
<1>1. n \in Nat \ {0} /\ h \in 0 .. n - 1 /\ t \in 0 .. n - 1 /\ c \in 0 .. n - 1
  BY KeyboardAssumption, ContentIs DEF Ring, Places
<1>2. Len(Content(r)) = c
  BY ContentSeq
<1>3. CASE Full(r)
  <2>1. c = n - 1
    BY <1>3, EmptyFull
  <2>2. q = r
    BY <1>3 DEF Push
  <2> HIDE DEF c, q
  <2>3. QED
    BY <1>1, <1>2, <2>1, <2>2 DEF q
<1>4. CASE ~Full(r)
  <2>1. c < n - 1
    <3>1. c # n - 1
      BY <1>4, EmptyFull
    <3> HIDE DEF c, n
    <3>2. QED
      BY <1>1, <3>1
  <2>2. r.cells \in [Places -> S] /\ h \in Places /\ t \in Places
    BY DEF Ring
  <2>3. (h + 1) % n = Wrap(h + 1) /\ Wrap(h + 1) \in Places
    <3> HIDE DEF h
    <3>1. (h + 1) % n = IF h + 1 < n THEN h + 1 ELSE h + 1 - n
      BY <1>1, ModuloNext
    <3>2. QED
      BY <1>1, <3>1 DEF Wrap, Places
  <2>4. q \in Ring(items, none) /\ q.cells = [r.cells EXCEPT ![h] = x] /\ q.head = Wrap(h + 1) /\ q.tail = t
    <3> DEFINE w == Wrap(h + 1)
               cells == [r.cells EXCEPT ![h] = x]
    <3>1. q = [r EXCEPT !.cells = cells, !.head = w]
      BY <1>4, <2>3 DEF Push
    <3>2. cells \in [Places -> S] /\ w \in Places
      BY <2>2, <2>3
    <3>3. q \in Ring(items, none) /\ q.cells = cells /\ q.head = w /\ q.tail = t
      <4> HIDE DEF w, cells, q
      <4>1. QED
        BY <3>1, <3>2 DEF Ring
    <3>4. QED
      BY <3>3
  <2>5. q \in Ring(items, none)
    BY <2>4
  <2>6. Count(q) = c + 1
    <3>1. Count(q) = IF t <= Wrap(h + 1) THEN Wrap(h + 1) - t ELSE Wrap(h + 1) + n - t
      BY <2>4 DEF Count
    <3>2. c = IF t <= h THEN h - t ELSE h + n - t
      BY DEF Count
    <3> HIDE DEF c, h, t
    <3>3. QED
      BY <1>1, <2>1, <3>1, <3>2 DEF Wrap
  <2>7. h = Wrap(t + c)
    <3>1. c = IF t <= h THEN h - t ELSE h + n - t
      BY DEF Count
    <3> HIDE DEF c, h, t
    <3>2. QED
      BY <1>1, <3>1 DEF Wrap
  <2>8. \A i \in 1 .. c : Wrap(t + i - 1) \in Places /\ Wrap(t + i - 1) # h
    <3> HIDE DEF c, h, t
    <3>1. QED
      BY <1>1, <2>1, <2>7 DEF Wrap, Places
  <2>9. /\ Content(q) \in Seq(S) /\ Len(Content(q)) = c + 1
        /\ \A i \in 1 .. c + 1 : Content(q)[i] = q.cells[Wrap(t + i - 1)]
    <3>1. q.tail = t
      BY <2>4
    <3> HIDE DEF q
    <3>2. QED
      BY <2>5, <2>6, <3>1, ContentSeq
  <2>10. /\ Content(r) \in Seq(S)
         /\ \A i \in 1 .. c : Content(r)[i] = r.cells[Wrap(t + i - 1)]
    BY ContentSeq
  <2>11. \A i \in 1 .. c : Content(q)[i] = Content(r)[i]
    <3> TAKE i \in 1 .. c
    <3>1. i \in 1 .. c + 1
      BY <1>1
    <3>2. Content(q)[i] = q.cells[Wrap(t + i - 1)] /\ Content(r)[i] = r.cells[Wrap(t + i - 1)]
      BY <2>9, <2>10, <3>1
    <3>3. q.cells[Wrap(t + i - 1)] = r.cells[Wrap(t + i - 1)]
      BY <2>2, <2>4, <2>8
    <3>4. QED
      BY <3>2, <3>3
  <2>12. Content(q)[c + 1] = x
    <3>1. Content(q)[c + 1] = q.cells[Wrap(t + (c + 1) - 1)]
      BY <1>1, <2>9
    <3>2. t + (c + 1) - 1 = t + c
      BY <1>1
    <3>3. q.cells[h] = x
      BY <2>2, <2>4
    <3>4. QED
      BY <2>7, <3>1, <3>2, <3>3
  <2>13. Content(q) = Append(Content(r), x)
    <3> DEFINE a == Append(Content(r), x)
    <3>1. /\ a \in Seq(S) /\ Len(a) = c + 1
          /\ \A i \in 1 .. c : a[i] = Content(r)[i]
          /\ a[c + 1] = x
      BY <1>2, <2>10, AppendProperties
    <3> HIDE DEF a, c, q, S, Content
    <3>2. \A i \in 1 .. c + 1 : Content(q)[i] = a[i]
      BY <1>1, <2>11, <2>12, <3>1
    <3>3. Content(q) = a
      BY <2>9, <3>1, <3>2, SeqEqual
    <3>4. QED
      BY <3>3 DEF a
  <2>14. ~Empty(r) => ~Empty(q) /\ q.cells[t] = r.cells[t]
    <3>1. ~Empty(r) => h # t
      BY DEF Empty
    <3>2. ~Empty(q)
      BY <1>1, <2>5, <2>6, EmptyFull
    <3>3. h # t => q.cells[t] = r.cells[t]
      BY <2>2, <2>4
    <3>4. QED
      BY <3>1, <3>2, <3>3
  <2>15. q.tail = t
    BY <2>4
  <2> HIDE DEF q, c
  <2>16. QED
    BY <1>2, <2>1, <2>5, <2>13, <2>14, <2>15 DEF q
<1>5. QED
  BY <1>3, <1>4

\* Moving the tail takes the oldest entry, which was at the tail.
LEMMA DropTakesOldest ==
  ASSUME NEW items, NEW none, NEW r \in Ring(items, none), ~Empty(r)
  PROVE  /\ Dropped(r) \in Ring(items, none)
         /\ Content(r) # <<>> /\ Head(Content(r)) = r.cells[r.tail]
         /\ Content(Dropped(r)) = Tail(Content(r))
<1> DEFINE n == KB_BUFFER_SIZE
           h == r.head
           t == r.tail
           c == Count(r)
           q == Dropped(r)
           S == items \cup {none}
<1>1. n \in Nat \ {0} /\ h \in 0 .. n - 1 /\ t \in 0 .. n - 1 /\ c \in 0 .. n - 1
  BY KeyboardAssumption, ContentIs DEF Ring, Places
<1>2. c # 0
  BY EmptyFull
<1>3. r.cells \in [Places -> S] /\ h \in Places /\ t \in Places /\ r.blank = none
  BY DEF Ring
<1>4. (t + 1) % n = Wrap(t + 1) /\ Wrap(t + 1) \in Places
  <2> HIDE DEF t
  <2>1. (t + 1) % n = IF t + 1 < n THEN t + 1 ELSE t + 1 - n
    BY <1>1, ModuloNext
  <2>2. QED
    BY <1>1, <2>1 DEF Wrap, Places
<1>5. q \in Ring(items, none) /\ q.cells = [r.cells EXCEPT ![t] = none] /\ q.head = h /\ q.tail = Wrap(t + 1)
  <2> DEFINE w == Wrap(t + 1)
             cells == [r.cells EXCEPT ![t] = none]
  <2>1. q = [r EXCEPT !.cells = cells, !.tail = w]
    BY <1>3, <1>4 DEF Dropped
  <2>2. cells \in [Places -> S] /\ w \in Places
    BY <1>3, <1>4
  <2>3. q \in Ring(items, none) /\ q.cells = cells /\ q.head = h /\ q.tail = w
    <3> HIDE DEF w, cells, q
    <3>1. QED
      BY <2>1, <2>2 DEF Ring
  <2>4. QED
    BY <2>3
<1>6. c = IF t <= h THEN h - t ELSE h + n - t
  BY DEF Count
<1>7. Count(q) = c - 1
  <2>1. Count(q) = IF Wrap(t + 1) <= h THEN h - Wrap(t + 1) ELSE h + n - Wrap(t + 1)
    BY <1>5 DEF Count
  <2> HIDE DEF c, h, t
  <2>2. QED
    BY <1>1, <1>2, <1>6, <2>1 DEF Wrap
<1>8. \A i \in 1 .. c - 1 : /\ Wrap(Wrap(t + 1) + i - 1) = Wrap(t + (i + 1) - 1)
                            /\ Wrap(t + (i + 1) - 1) \in Places \ {t}
  <2> HIDE DEF c, h, t
  <2>1. QED
    BY <1>1, <1>6 DEF Wrap, Places
<1>9. /\ Content(q) \in Seq(S) /\ Len(Content(q)) = c - 1
      /\ \A i \in 1 .. c - 1 : Content(q)[i] = q.cells[Wrap(Wrap(t + 1) + i - 1)]
  <2> DEFINE w == Wrap(t + 1)
             m == c - 1
  <2>1. q \in Ring(items, none) /\ q.tail = w /\ Count(q) = m
    BY <1>5, <1>7
  <2> HIDE DEF q, w, m
  <2>2. /\ Content(q) \in Seq(S) /\ Len(Content(q)) = m
        /\ \A i \in 1 .. m : Content(q)[i] = q.cells[Wrap(w + i - 1)]
    BY <2>1, ContentSeq
  <2>3. QED
    BY <2>2 DEF w, m
<1>10. /\ Content(r) \in Seq(S) /\ Len(Content(r)) = c
       /\ \A i \in 1 .. c : Content(r)[i] = r.cells[Wrap(t + i - 1)]
  BY ContentSeq
<1>11. Content(r) # <<>> /\ Head(Content(r)) = r.cells[t]
  <2>1. 1 \in 1 .. c /\ t + 1 - 1 = t /\ Wrap(t) = t
    <3> HIDE DEF c, t
    <3>1. QED
      BY <1>1, <1>2 DEF Wrap
  <2>2. Content(r)[1] = r.cells[t]
    BY <1>10, <2>1
  <2> HIDE DEF c, Content
  <2>3. QED
    BY <1>1, <1>2, <1>10, <2>2
<1>12. ASSUME NEW i \in 1 .. c - 1
       PROVE  Content(q)[i] = Content(r)[i + 1]
  <2>1. i + 1 \in 1 .. c
    <3> HIDE DEF c
    <3>1. QED
      BY <1>1
  <2>2. Content(r)[i + 1] = r.cells[Wrap(t + (i + 1) - 1)]
    BY <1>10, <2>1
  <2>3. Content(q)[i] = q.cells[Wrap(t + (i + 1) - 1)]
    BY <1>8, <1>9
  <2>4. q.cells[Wrap(t + (i + 1) - 1)] = r.cells[Wrap(t + (i + 1) - 1)]
    BY <1>3, <1>5, <1>8
  <2>5. QED
    BY <2>2, <2>3, <2>4
<1>13. Content(q) = Tail(Content(r))
  <2> HIDE DEF c, q, S, Content
  <2>1. /\ Tail(Content(r)) \in Seq(S) /\ Len(Tail(Content(r))) = c - 1
        /\ \A i \in 1 .. c - 1 : Tail(Content(r))[i] = Content(r)[i + 1]
    BY <1>1, <1>10, <1>11, HeadTailProperties
  <2>2. QED
    BY <1>9, <1>12, <2>1, SeqEqual
<1>14. QED
  BY <1>5, <1>11, <1>13

-----------------------------------------------------------------------------
(* The desktop's loop *)

\* The ring of characters, and that of scancodes.
CharsOK ==
  /\ chars \in Ring(Chars, NoChar)
  /\ pc = "char" => ~Empty(chars) /\ char = chars.cells[chars.tail]
CodesOK ==
  /\ codes \in Ring(Codes, NoCode)
  /\ pc = "key" => ~Empty(codes) /\ code = codes.cells[codes.tail]

\* No step of the queue.
CharsIdle == UNCHANGED <<chars, typed, char>> /\ (pc' = "char" <=> pc = "char")
CodesIdle == UNCHANGED <<codes, irqs, code>> /\ (pc' = "key" <=> pc = "key")

\* The ring is made empty.
LEMMA NewRingEmpty ==
  ASSUME NEW items, NEW none
  PROVE  NewRing(none) \in Ring(items, none) /\ Content(NewRing(none)) = <<>>
<1> DEFINE r == NewRing(none)
<1>1. r \in Ring(items, none) /\ r.head = 0 /\ r.tail = 0
  <2>1. 0 \in Places
    BY KeyboardAssumption DEF Places
  <2>2. QED
    BY <2>1 DEF Ring, NewRing
<1> HIDE DEF r
<1>2. Count(r) = 0
  BY <1>1 DEF Count
<1>3. Content(r) \in Seq(items \cup {none}) /\ Len(Content(r)) = 0
  BY <1>1, <1>2, ContentSeq
<1>4. Content(r) = <<>>
  BY <1>3, EmptySeq
<1>5. QED
  BY <1>1, <1>4 DEF r

\* What the loop does with the ring of characters, or does not.
LEMMA CharsIdleOK ==
  ASSUME CharsOK, CharsIdle
  PROVE  CharsOK' /\ [CharQueue!Next]_(CharQueue!vars)
<1>1. chars' = chars /\ typed' = typed /\ char' = char /\ (pc' = "char" <=> pc = "char")
  BY DEF CharsIdle
<1>2. CharsOK'
  BY <1>1 DEF CharsOK, Empty
<1>3. UNCHANGED CharQueue!vars
  <2>1. Content(chars)' = Content(chars)
    BY <1>1 DEF Content
  <2>2. (pc = "char")' = (pc = "char")
    BY <1>1, Zenon
  <2> HIDE DEF Content
  <2>3. QED
    BY <1>1, <2>1, <2>2, Zenon DEF CharQueue!vars
<1>4. QED
  BY <1>2, <1>3

\* A character is pushed by the handler.
LEMMA CharsPushed ==
  ASSUME CharsOK, NEW c \in Chars, chars' = Push(chars, c), typed' = typed + 1,
         char' = char, pc' = "char" <=> pc = "char"
  PROVE  CharsOK' /\ CharQueue!Next
<1>1. /\ chars' \in Ring(Chars, NoChar)
      /\ Content(chars') = IF Len(Content(chars)) < KB_BUFFER_SIZE - 1
                           THEN Append(Content(chars), c) ELSE Content(chars)
      /\ chars'.tail = chars.tail
      /\ ~Empty(chars) => ~Empty(chars') /\ chars'.cells[chars.tail] = chars.cells[chars.tail]
  BY PushAppends DEF CharsOK
<1>2. CharsOK'
  BY <1>1 DEF CharsOK, Empty
<1>3. (pc = "char")' = (pc = "char")
  BY Zenon
<1>4. Content(chars)' = Content(chars')
  BY DEF Content
<1>5. CharQueue!Offer(c)
  BY <1>1, <1>3, <1>4, Zenon DEF CharQueue!Offer
<1>6. QED
  BY <1>2, <1>5 DEF CharQueue!Next

\* The loop fetches a character.
LEMMA CharsRead ==
  ASSUME CharsOK, pc # "char", pc' = "char", FetchChar
  PROVE  CharsOK' /\ CharQueue!Next
<1>1. ~Empty(chars) /\ char' = chars.cells[chars.tail] /\ chars' = chars /\ typed' = typed
  BY DEF FetchChar
<1>2. Content(chars) # <<>> /\ Head(Content(chars)) = chars.cells[chars.tail]
  BY <1>1, DropTakesOldest DEF CharsOK
<1>3. Content(chars)' = Content(chars)
  BY <1>1 DEF Content
<1>4. CharQueue!Read
  BY <1>1, <1>2, <1>3, Zenon DEF CharQueue!Read
<1>5. QED
  BY <1>1, <1>4 DEF CharsOK, CharQueue!Next, Empty

\* It moves the tail.
LEMMA CharsDropped ==
  ASSUME CharsOK, pc = "char", pc' # "char", NEW c \in {char, NoChar}, DropChar(c)
  PROVE  CharsOK' /\ CharQueue!Next
<1>1. ~Empty(chars) /\ char = chars.cells[chars.tail] /\ chars' = Dropped(chars)
      /\ char' = c /\ typed' = typed
  BY DEF CharsOK, DropChar
<1>2. /\ Dropped(chars) \in Ring(Chars, NoChar)
      /\ Content(chars) # <<>> /\ Head(Content(chars)) = chars.cells[chars.tail]
      /\ Content(Dropped(chars)) = Tail(Content(chars))
  BY <1>1, DropTakesOldest DEF CharsOK
<1>3. Content(chars)' = Content(Dropped(chars))
  BY <1>1 DEF Content
<1>4. CharQueue!Drop
  BY <1>1, <1>2, <1>3, Zenon DEF CharQueue!Drop
<1>5. QED
  BY <1>1, <1>2, <1>4 DEF CharsOK, CharQueue!Next

\* Every step of the desktop is one of the queue of characters, or none.
LEMMA CharsStep ==
  ASSUME CharsOK, [Next]_vars
  PROVE  CharsOK' /\ [CharQueue!Next]_(CharQueue!vars)
<1>1. CASE UNCHANGED vars
  BY <1>1, CharsIdleOK DEF vars, kbvars, deskvars, CharsIdle
<1>2. CASE KeyIrq
  <2>1. PICK k \in Keys : Press(k) \/ Release(k)
    BY <1>2 DEF KeyIrq
  <2>2. pc' = "char" <=> pc = "char"
    BY <1>2 DEF KeyIrq, Wakes
  <2>3. CASE Press(k) /\ k \in CharKeys \ key_held
    <3>1. CharOf(k) \in Chars
      BY <2>3 DEF CharOf, Chars, CtrlC
    <3>2. chars' = Push(chars, CharOf(k)) /\ typed' = typed + 1 /\ char' = char
      BY <2>3 DEF Press
    <3>3. QED
      BY <2>2, <3>1, <3>2, CharsPushed
  <2>4. CASE (Press(k) /\ k \notin CharKeys \ key_held) \/ Release(k)
    <3>1. CharsIdle
      BY <2>2, <2>4 DEF Press, Release, CharsIdle
    <3>2. QED
      BY <3>1, CharsIdleOK
  <2>5. QED
    BY <2>1, <2>3, <2>4
<1>3. CASE MouseQuiet \/ MouseIrq \/ Tick
  <2>1. CharsIdle
    BY <1>3 DEF MouseQuiet, MouseIrq, Tick, Wakes, kbvars, CharsIdle
  <2>2. QED
    BY <2>1, CharsIdleOK
<1>4. CASE PollChar
  <2>1. CASE FetchChar /\ pc' = "char"
    BY <1>4, <2>1, CharsRead DEF PollChar
  <2>2. CASE UNCHANGED kbvars /\ pc' = "frame"
    BY <1>4, <2>2, CharsIdleOK DEF PollChar, kbvars, CharsIdle
  <2>3. QED
    BY <1>4, <2>1, <2>2 DEF PollChar
<1>5. CASE CheckFocus
  <2>1. pc = "char" /\ pc' # "char" /\ \E c \in {char, NoChar} : DropChar(c)
    BY <1>5 DEF CheckFocus
  <2>2. QED
    BY <2>1, CharsDropped
<1>6. CASE TypeChar
  <2>1. /\ chars' = chars /\ typed' = typed /\ char' = NoChar
        /\ pc # "char" /\ pc' # "char"
    BY <1>6 DEF TypeChar, ForgetChar
  <2>2. Content(chars)' = Content(chars)
    BY <2>1 DEF Content
  <2>3. CharQueue!Forget
    BY <2>1, <2>2, Zenon DEF CharQueue!Forget
  <2>4. QED
    BY <2>1, <2>3 DEF CharsOK, CharQueue!Next
<1>7. CASE PollCode \/ OtherKey \/ SwitchWorkspace
  <2>1. CharsIdle
    BY <1>7 DEF PollCode, OtherKey, SwitchWorkspace, FetchCode, DropCode, kbvars, CharsIdle
  <2>2. QED
    BY <2>1, CharsIdleOK
<1>8. CASE \/ CreateWindow \/ InsertWindow \/ Greet \/ FirstFrame \/ FirstCursor
           \/ SwitchFocus \/ Compose \/ Swap \/ ClearRedraw \/ NoFrame
  <2>1. CharsIdle
    <3>1. CASE CreateWindow \/ InsertWindow \/ Greet
      BY <3>1 DEF CreateWindow, InsertWindow, Greet, kbvars, CharsIdle
    <3>2. CASE FirstFrame \/ FirstCursor \/ SwitchFocus
      BY <3>2 DEF FirstFrame, FirstCursor, SwitchFocus, kbvars, CharsIdle
    <3>3. CASE Compose \/ Swap \/ ClearRedraw \/ NoFrame
      BY <3>3 DEF Compose, Swap, ClearRedraw, NoFrame, kbvars, CharsIdle
    <3>4. QED
      BY <1>8, <3>1, <3>2, <3>3
  <2>2. QED
    BY <2>1, CharsIdleOK
<1>9. QED
  BY <1>1, <1>2, <1>3, <1>4, <1>5, <1>6, <1>7, <1>8 DEF Next, Main

\* What the loop does with the ring of scancodes, or does not.
LEMMA CodesIdleOK ==
  ASSUME CodesOK, CodesIdle
  PROVE  CodesOK' /\ [CodeQueue!Next]_(CodeQueue!vars)
<1>1. codes' = codes /\ irqs' = irqs /\ code' = code /\ (pc' = "key" <=> pc = "key")
  BY DEF CodesIdle
<1>2. CodesOK'
  BY <1>1 DEF CodesOK, Empty
<1>3. UNCHANGED CodeQueue!vars
  <2>1. Content(codes)' = Content(codes)
    BY <1>1 DEF Content
  <2>2. (pc = "key")' = (pc = "key")
    BY <1>1, Zenon
  <2> HIDE DEF Content
  <2>3. QED
    BY <1>1, <2>1, <2>2, Zenon DEF CodeQueue!vars
<1>4. QED
  BY <1>2, <1>3

\* A scancode is pushed by the handler.
LEMMA CodesPushed ==
  ASSUME CodesOK, NEW c \in Codes, codes' = Push(codes, c), irqs' = irqs + 1,
         code' = code, pc' = "key" <=> pc = "key"
  PROVE  CodesOK' /\ CodeQueue!Next
<1>1. /\ codes' \in Ring(Codes, NoCode)
      /\ Content(codes') = IF Len(Content(codes)) < KB_BUFFER_SIZE - 1
                           THEN Append(Content(codes), c) ELSE Content(codes)
      /\ codes'.tail = codes.tail
      /\ ~Empty(codes) => ~Empty(codes') /\ codes'.cells[codes.tail] = codes.cells[codes.tail]
  BY PushAppends DEF CodesOK
<1>2. CodesOK'
  BY <1>1 DEF CodesOK, Empty
<1>3. (pc = "key")' = (pc = "key")
  BY Zenon
<1>4. Content(codes)' = Content(codes')
  BY DEF Content
<1>5. CodeQueue!Offer(c)
  BY <1>1, <1>3, <1>4, Zenon DEF CodeQueue!Offer
<1>6. QED
  BY <1>2, <1>5 DEF CodeQueue!Next

\* The loop fetches a scancode.
LEMMA CodesRead ==
  ASSUME CodesOK, pc # "key", pc' = "key", FetchCode
  PROVE  CodesOK' /\ CodeQueue!Next
<1>1. ~Empty(codes) /\ code' = codes.cells[codes.tail] /\ codes' = codes /\ irqs' = irqs
  BY DEF FetchCode
<1>2. Content(codes) # <<>> /\ Head(Content(codes)) = codes.cells[codes.tail]
  BY <1>1, DropTakesOldest DEF CodesOK
<1>3. Content(codes)' = Content(codes)
  BY <1>1 DEF Content
<1>4. CodeQueue!Read
  BY <1>1, <1>2, <1>3, Zenon DEF CodeQueue!Read
<1>5. QED
  BY <1>1, <1>4 DEF CodesOK, CodeQueue!Next, Empty

\* It moves the tail of the scancodes.
LEMMA CodesDropped ==
  ASSUME CodesOK, pc = "key", pc' # "key", DropCode
  PROVE  CodesOK' /\ CodeQueue!Next
<1>1. ~Empty(codes) /\ code = codes.cells[codes.tail] /\ codes' = Dropped(codes)
      /\ code' = NoCode /\ irqs' = irqs
  BY DEF CodesOK, DropCode
<1>2. /\ Dropped(codes) \in Ring(Codes, NoCode)
      /\ Content(codes) # <<>> /\ Head(Content(codes)) = codes.cells[codes.tail]
      /\ Content(Dropped(codes)) = Tail(Content(codes))
  BY <1>1, DropTakesOldest DEF CodesOK
<1>3. Content(codes)' = Content(Dropped(codes))
  BY <1>1 DEF Content
<1>4. CodeQueue!Drop
  BY <1>1, <1>2, <1>3, Zenon DEF CodeQueue!Drop
<1>5. QED
  BY <1>1, <1>2, <1>4 DEF CodesOK, CodeQueue!Next

\* Every step of the desktop is one of the queue of scancodes, or none.
LEMMA CodesStep ==
  ASSUME CodesOK, [Next]_vars
  PROVE  CodesOK' /\ [CodeQueue!Next]_(CodeQueue!vars)
<1>1. CASE UNCHANGED vars
  BY <1>1, CodesIdleOK DEF vars, kbvars, deskvars, CodesIdle
<1>2. CASE KeyIrq
  <2>1. PICK k \in Keys : Press(k) \/ Release(k)
    BY <1>2 DEF KeyIrq
  <2>2. pc' = "key" <=> pc = "key"
    BY <1>2 DEF KeyIrq, Wakes
  <2>3. \E up \in BOOLEAN : codes' = Push(codes, [key |-> k, up |-> up])
    BY <2>1 DEF Press, Release
  <2>4. PICK up \in BOOLEAN : codes' = Push(codes, [key |-> k, up |-> up])
    BY <2>3
  <2>5. [key |-> k, up |-> up] \in Codes /\ irqs' = irqs + 1 /\ code' = code
    BY <2>1 DEF Press, Release, Codes
  <2>6. QED
    BY <2>2, <2>4, <2>5, CodesPushed
<1>3. CASE MouseQuiet \/ MouseIrq \/ Tick
  <2>1. CodesIdle
    BY <1>3 DEF MouseQuiet, MouseIrq, Tick, Wakes, kbvars, CodesIdle
  <2>2. QED
    BY <2>1, CodesIdleOK
<1>4. CASE PollCode
  <2>1. CASE FetchCode /\ pc' = "key"
    BY <1>4, <2>1, CodesRead DEF PollCode
  <2>2. CASE UNCHANGED kbvars /\ pc' = "chars"
    BY <1>4, <2>2, CodesIdleOK DEF PollCode, kbvars, CodesIdle
  <2>3. QED
    BY <1>4, <2>1, <2>2 DEF PollCode
<1>5. CASE OtherKey \/ SwitchWorkspace
  <2>1. pc = "key" /\ pc' # "key" /\ DropCode
    BY <1>5 DEF OtherKey, SwitchWorkspace
  <2>2. QED
    BY <2>1, CodesDropped
<1>6. CASE PollChar \/ CheckFocus \/ TypeChar
  <2>1. CodesIdle
    BY <1>6 DEF PollChar, CheckFocus, TypeChar, FetchChar, DropChar, ForgetChar, kbvars, CodesIdle
  <2>2. QED
    BY <2>1, CodesIdleOK
<1>7. CASE \/ CreateWindow \/ InsertWindow \/ Greet \/ FirstFrame \/ FirstCursor
           \/ SwitchFocus \/ Compose \/ Swap \/ ClearRedraw \/ NoFrame
  <2>1. CodesIdle
    <3>1. CASE CreateWindow \/ InsertWindow \/ Greet
      BY <3>1 DEF CreateWindow, InsertWindow, Greet, kbvars, CodesIdle
    <3>2. CASE FirstFrame \/ FirstCursor \/ SwitchFocus
      BY <3>2 DEF FirstFrame, FirstCursor, SwitchFocus, kbvars, CodesIdle
    <3>3. CASE Compose \/ Swap \/ ClearRedraw \/ NoFrame
      BY <3>3 DEF Compose, Swap, ClearRedraw, NoFrame, kbvars, CodesIdle
    <3>4. QED
      BY <1>7, <3>1, <3>2, <3>3
  <2>2. QED
    BY <2>1, CodesIdleOK
<1>8. QED
  BY <1>1, <1>2, <1>3, <1>4, <1>5, <1>6, <1>7 DEF Next, Main

-----------------------------------------------------------------------------
(* The theorem *)

\* Both rings begin empty.
LEMMA RingsInit ==
  ASSUME Init
  PROVE  CharsOK /\ CodesOK /\ CharQueue!Init /\ CodeQueue!Init
<1>1. /\ chars = NewRing(NoChar) /\ codes = NewRing(NoCode)
      /\ char = NoChar /\ code = NoCode /\ irqs = 0 /\ typed = 0 /\ pc = "create"
  BY DEF Init, KeyboardInit
<1>2. /\ chars \in Ring(Chars, NoChar) /\ Content(chars) = <<>>
      /\ codes \in Ring(Codes, NoCode) /\ Content(codes) = <<>>
  BY <1>1, NewRingEmpty
<1>3. CharsOK /\ CodesOK
  BY <1>1, <1>2 DEF CharsOK, CodesOK
<1>4. CharQueue!Init /\ CodeQueue!Init
  BY <1>1, <1>2 DEF CharQueue!Init, CodeQueue!Init
<1>5. QED
  BY <1>3, <1>4

\* The two rings are queues: the loop gets the keys in the order they were
\* pressed in, each once, and keys are lost only to a full ring.
THEOREM KeysInOrderHolds == Spec => KeysInOrder
<1>1. Init => CharsOK /\ CodesOK /\ CharQueue!Init /\ CodeQueue!Init
  BY RingsInit
<1>2. CharsOK /\ [Next]_vars => CharsOK' /\ [CharQueue!Next]_(CharQueue!vars)
  BY CharsStep
<1>3. CodesOK /\ [Next]_vars => CodesOK' /\ [CodeQueue!Next]_(CodeQueue!vars)
  BY CodesStep
<1>4. QED
  BY <1>1, <1>2, <1>3, PTL DEF Spec, KeysInOrder, CharQueue!Spec, CodeQueue!Spec

=============================================================================
