--------------------------- MODULE ProgramsProofs ---------------------------
(* The theorems about the programs of MCPrograms, as properties of the     *)
(* specification that picks one of them.                                   *)
EXTENDS MCPrograms, SequenceTheorems, FiniteSetTheorems, WellFoundedInduction, TLAPS

-----------------------------------------------------------------------------
(* Inserting into a sequence and removing from it                          *)

LEMMA InsertAtProperties ==
    ASSUME NEW S, NEW s \in Seq(S), NEW e \in S, NEW k \in 1 .. Len(s) + 1
    PROVE  /\ Heap!InsertAt(s, k, e) \in Seq(S)
           /\ Len(Heap!InsertAt(s, k, e)) = Len(s) + 1
           /\ \A i \in 1 .. Len(s) + 1 : Heap!InsertAt(s, k, e)[i] =
                 IF i < k THEN s[i] ELSE IF i = k THEN e ELSE s[i - 1]
  <1> DEFINE front == SubSeq(s, 1, k - 1)
             back == SubSeq(s, k, Len(s))
             middle == front \o <<e>>
  <1>0. Len(s) \in Nat /\ \A i \in 1 .. Len(s) : s[i] \in S
    BY ElementOfSeq, LenProperties
  <1>1. /\ front \in Seq(S) /\ Len(front) = k - 1
        /\ \A i \in 1 .. k - 1 : front[i] = s[i]
    <2>1. \A i \in 1 .. k - 1 : s[i] \in S
      BY <1>0
    <2>2. 1 \in Int /\ k - 1 \in Int
      BY <1>0
    <2> QED BY <1>0, <2>1, <2>2, SubSeqProperties
  <1>2. /\ back \in Seq(S) /\ Len(back) = Len(s) - k + 1
        /\ \A i \in 1 .. Len(s) - k + 1 : back[i] = s[k + i - 1]
    <2>1. \A i \in k .. Len(s) : s[i] \in S
      BY <1>0
    <2>2. k \in Int /\ Len(s) \in Int
      BY <1>0
    <2> QED BY <1>0, <2>1, <2>2, SubSeqProperties
  <1> HIDE DEF front, back
  <1>3. <<e>> \in Seq(S) /\ Len(<<e>>) = 1 /\ <<e>>[1] = e
    OBVIOUS
  <1>4. /\ middle \in Seq(S) /\ Len(middle) = k
        /\ \A i \in 1 .. k : middle[i] = IF i < k THEN s[i] ELSE e
    <2>1. /\ middle \in Seq(S) /\ Len(middle) = k - 1 + 1
          /\ \A i \in 1 .. k - 1 + 1 :
                middle[i] = IF i <= k - 1 THEN front[i] ELSE <<e>>[i - (k - 1)]
      BY <1>1, <1>3, ConcatProperties
    <2> HIDE DEF middle
    <2> QED BY <1>0, <1>1, <1>3, <2>1
  <1> HIDE DEF middle
  <1>5. /\ middle \o back \in Seq(S)
        /\ Len(middle \o back) = Len(middle) + Len(back)
        /\ \A i \in 1 .. Len(middle) + Len(back) : (middle \o back)[i] =
              IF i <= Len(middle) THEN middle[i] ELSE back[i - Len(middle)]
    BY <1>2, <1>4, ConcatProperties
  <1>6. Heap!InsertAt(s, k, e) = middle \o back
    BY DEF Heap!InsertAt, front, middle, back
  <1> QED BY <1>0, <1>2, <1>4, <1>5, <1>6

LEMMA RemoveAtProperties ==
    ASSUME NEW S, NEW s \in Seq(S), NEW k \in 1 .. Len(s)
    PROVE  /\ Heap!RemoveAt(s, k) \in Seq(S)
           /\ Len(Heap!RemoveAt(s, k)) = Len(s) - 1
           /\ \A i \in 1 .. Len(s) - 1 :
                 Heap!RemoveAt(s, k)[i] = IF i < k THEN s[i] ELSE s[i + 1]
  <1> DEFINE front == SubSeq(s, 1, k - 1)
             back == SubSeq(s, k + 1, Len(s))
  <1>0. Len(s) \in Nat /\ \A i \in 1 .. Len(s) : s[i] \in S
    BY ElementOfSeq, LenProperties
  <1>1. /\ front \in Seq(S) /\ Len(front) = k - 1
        /\ \A i \in 1 .. k - 1 : front[i] = s[i]
    <2>1. \A i \in 1 .. k - 1 : s[i] \in S
      BY <1>0
    <2>2. 1 \in Int /\ k - 1 \in Int
      BY <1>0
    <2> QED BY <1>0, <2>1, <2>2, SubSeqProperties
  <1>2. /\ back \in Seq(S) /\ Len(back) = Len(s) - k
        /\ \A i \in 1 .. Len(s) - k : back[i] = s[k + i]
    <2>1. \A i \in k + 1 .. Len(s) : s[i] \in S
      BY <1>0
    <2>2. k + 1 \in Int /\ Len(s) \in Int
      BY <1>0
    <2>3. /\ back \in Seq(S)
          /\ Len(back) = IF k + 1 <= Len(s) THEN Len(s) - (k + 1) + 1 ELSE 0
          /\ \A i \in 1 .. Len(s) - (k + 1) + 1 : back[i] = s[(k + 1) + i - 1]
      BY <2>1, <2>2, SubSeqProperties
    <2> HIDE DEF back
    <2> QED BY <1>0, <2>3
  <1>3. /\ front \o back \in Seq(S)
        /\ Len(front \o back) = Len(front) + Len(back)
        /\ \A i \in 1 .. Len(front) + Len(back) : (front \o back)[i] =
              IF i <= Len(front) THEN front[i] ELSE back[i - Len(front)]
    <2> HIDE DEF front, back
    <2> QED BY <1>1, <1>2, ConcatProperties
  <1>4. Heap!RemoveAt(s, k) = front \o back
    BY DEF Heap!RemoveAt
  <1> DEFINE all == front \o back
  <1>5. all \in Seq(S) /\ Len(all) = Len(s) - 1
    <2> HIDE DEF front, back
    <2> QED BY <1>0, <1>1, <1>2, <1>3
  <1>6. ASSUME NEW i \in 1 .. Len(s) - 1
        PROVE  all[i] = IF i < k THEN s[i] ELSE s[i + 1]
    <2> HIDE DEF front, back
    <2>1. i \in 1 .. Len(front) + Len(back)
      BY <1>0, <1>1, <1>2
    <2>2. CASE i < k
      BY <1>0, <1>1, <1>3, <2>1, <2>2
    <2>3. CASE k <= i
      <3>1. all[i] = back[i - (k - 1)] /\ i - (k - 1) \in 1 .. Len(s) - k
        BY <1>0, <1>1, <1>3, <2>1, <2>3
      <3> QED BY <1>0, <1>2, <2>3, <3>1
    <2> HIDE DEF all
    <2> QED BY <1>0, <2>2, <2>3
  <1> HIDE DEF all
  <1>7. Heap!RemoveAt(s, k) = all
    BY <1>4 DEF all
  <1> QED BY <1>5, <1>6, <1>7

-----------------------------------------------------------------------------
(* A set of blocks that is all of the memory below n                       *)

AnyBlock == [at : Nat, size : Nat \ {0}]

Tiles(S, n) ==
    /\ \A b \in S : Heap!End(b) <= n
    /\ \A a \in 0 .. n - 1 : \E b \in S : b.at <= a /\ a < Heap!End(b)
    /\ \A b, c \in S : b # c => Heap!End(b) <= c.at \/ Heap!End(c) <= b.at

LEMMA EndType ==
    ASSUME Heap!HeapConstants, NEW b \in AnyBlock
    PROVE  /\ b.at \in Nat /\ b.size \in Nat \ {0} /\ Heap!End(b) \in Nat
           /\ Heap!End(b) = b.at + SIZE_T + b.size /\ b.at < Heap!End(b)
  BY DEF Heap!HeapConstants, AnyBlock, Heap!End

(* Cut in two, a block is replaced by its halves;                          *)
LEMMA CutTiles ==
    ASSUME Heap!HeapConstants, NEW S \in SUBSET AnyBlock, NEW n \in Nat, Tiles(S, n),
           NEW b \in S, NEW c \in AnyBlock, NEW d \in AnyBlock,
           c.at = b.at, Heap!End(c) = d.at, Heap!End(d) = Heap!End(b)
    PROVE  /\ Tiles((S \ {b}) \cup {c, d}, n)
           /\ c \notin S \ {b} /\ d \notin S \ {b} /\ c # d
  <1> DEFINE T == (S \ {b}) \cup {c, d}
  <1>1. \A x \in S \cup {c, d} : x.at \in Nat /\ Heap!End(x) \in Nat /\ x.at < Heap!End(x)
    BY EndType
  <1>2. \A x \in T : Heap!End(x) <= n
    BY <1>1 DEF Tiles
  <1>3. ASSUME NEW a \in 0 .. n - 1 PROVE \E x \in T : x.at <= a /\ a < Heap!End(x)
    <2>1. PICK x \in S : x.at <= a /\ a < Heap!End(x)
      BY DEF Tiles
    <2>2. CASE x # b
      BY <2>1, <2>2
    <2>3. CASE x = b
      BY <1>1, <2>1, <2>3
    <2> QED BY <2>2, <2>3
  <1>4. ASSUME NEW x \in S \ {b}
        PROVE  /\ Heap!End(x) <= c.at \/ Heap!End(c) <= x.at
               /\ Heap!End(x) <= d.at \/ Heap!End(d) <= x.at
    BY <1>1 DEF Tiles
  <1>5. ASSUME NEW x \in T, NEW y \in T, x # y PROVE Heap!End(x) <= y.at \/ Heap!End(y) <= x.at
    BY <1>1, <1>4, <1>5 DEF Tiles
  <1>6. c \notin S \ {b} /\ d \notin S \ {b} /\ c # d
    BY <1>1, <1>4
  <1> QED BY <1>2, <1>3, <1>5, <1>6 DEF Tiles

(* joined, two neighbours are replaced by one block;                       *)
LEMMA JoinTiles ==
    ASSUME Heap!HeapConstants, NEW S \in SUBSET AnyBlock, NEW n \in Nat, Tiles(S, n),
           NEW b \in S, NEW c \in S, NEW d \in AnyBlock,
           Heap!End(b) = c.at, d.at = b.at, Heap!End(d) = Heap!End(c)
    PROVE  /\ Tiles((S \ {b, c}) \cup {d}, n)
           /\ d \notin S \ {b, c}
  <1> DEFINE T == (S \ {b, c}) \cup {d}
  <1>1. \A x \in S \cup {d} : x.at \in Nat /\ Heap!End(x) \in Nat /\ x.at < Heap!End(x)
    BY EndType
  <1>2. \A x \in T : Heap!End(x) <= n
    BY <1>1 DEF Tiles
  <1>3. ASSUME NEW a \in 0 .. n - 1 PROVE \E x \in T : x.at <= a /\ a < Heap!End(x)
    <2>1. PICK x \in S : x.at <= a /\ a < Heap!End(x)
      BY DEF Tiles
    <2>2. CASE x \notin {b, c}
      BY <2>1, <2>2
    <2>3. CASE x \in {b, c}
      BY <1>1, <2>1, <2>3
    <2> QED BY <2>2, <2>3
  <1>4. ASSUME NEW x \in S \ {b, c} PROVE Heap!End(x) <= d.at \/ Heap!End(d) <= x.at
    <2>1. /\ Heap!End(x) <= b.at \/ Heap!End(b) <= x.at
          /\ Heap!End(x) <= c.at \/ Heap!End(c) <= x.at
      BY DEF Tiles
    <2> QED BY <1>1, <2>1
  <1>5. ASSUME NEW x \in T, NEW y \in T, x # y PROVE Heap!End(x) <= y.at \/ Heap!End(y) <= x.at
    BY <1>1, <1>4, <1>5 DEF Tiles
  <1>6. d \notin S \ {b, c}
    BY <1>1, <1>4
  <1> QED BY <1>2, <1>3, <1>5, <1>6 DEF Tiles

(* and a block behind the last one makes the memory larger.                *)
LEMMA ExtendTiles ==
    ASSUME Heap!HeapConstants, NEW S \in SUBSET AnyBlock, NEW n \in Nat, Tiles(S, n),
           NEW b \in AnyBlock, b.at = n
    PROVE  Tiles(S \cup {b}, Heap!End(b)) /\ b \notin S
  <1> DEFINE T == S \cup {b}
  <1>1. \A x \in T : x.at \in Nat /\ Heap!End(x) \in Nat /\ x.at < Heap!End(x)
    BY EndType
  <1>2. \A x \in T : Heap!End(x) <= Heap!End(b)
    BY <1>1 DEF Tiles
  <1>3. ASSUME NEW a \in 0 .. Heap!End(b) - 1 PROVE \E x \in T : x.at <= a /\ a < Heap!End(x)
    <2>1. CASE a < n
      <3>1. PICK x \in S : x.at <= a /\ a < Heap!End(x)
        BY <2>1 DEF Tiles
      <3> QED BY <3>1
    <2>2. CASE n <= a
      BY <1>1, <2>2
    <2> QED BY <1>1, <2>1, <2>2
  <1>4. \A x \in S : Heap!End(x) <= b.at
    BY DEF Tiles
  <1>5. ASSUME NEW x \in T, NEW y \in T, x # y PROVE Heap!End(x) <= y.at \/ Heap!End(y) <= x.at
    BY <1>4, <1>5 DEF Tiles
  <1>6. b \notin S
    BY <1>1, <1>4
  <1> QED BY <1>2, <1>3, <1>5, <1>6 DEF Tiles

-----------------------------------------------------------------------------
(* The free list: in the order of the addresses, with a gap behind every   *)
(* block but those whose positions are in E.                               *)
InOrder(list, E) ==
    \A i, j \in 1 .. Len(list) : i < j =>
        /\ Heap!End(list[i]) <= list[j].at
        /\ Heap!End(list[i]) = list[j].at => j = i + 1 /\ i \in E

HeapOK(list, taken, n, E) ==
    /\ list \in Seq(AnyBlock) /\ taken \subseteq AnyBlock
    /\ InOrder(list, E)
    /\ Tiles(Heap!Range(list) \cup taken, n)
    /\ Heap!Range(list) \cap taken = {}
    /\ \A b \in Heap!Range(list) \cup taken : b.size >= POINTER

LEMMA RangeIs ==
    ASSUME NEW S, NEW s \in Seq(S)
    PROVE  /\ Len(s) \in Nat
           /\ \A i \in 1 .. Len(s) : s[i] \in S /\ s[i] \in Heap!Range(s)
           /\ \A x \in Heap!Range(s) : \E i \in 1 .. Len(s) : x = s[i]
  <1>1. Len(s) \in Nat /\ DOMAIN s = 1 .. Len(s)
    BY LenProperties
  <1> QED BY <1>1, ElementOfSeq DEF Heap!Range

(* A list in order names a block once.                                     *)
LEMMA InOrderIsInjective ==
    ASSUME Heap!HeapConstants, NEW list \in Seq(AnyBlock), NEW E, InOrder(list, E),
           NEW i \in 1 .. Len(list), NEW j \in 1 .. Len(list), i # j
    PROVE  list[i] # list[j] /\ (Heap!End(list[i]) <= list[j].at \/ Heap!End(list[j]) <= list[i].at)
  <1>1. Len(list) \in Nat /\ list[i] \in AnyBlock /\ list[j] \in AnyBlock
    BY RangeIs
  <1>2. CASE i < j
    BY <1>1, <1>2, EndType DEF InOrder
  <1>3. CASE j < i
    BY <1>1, <1>3, EndType DEF InOrder
  <1> QED BY <1>1, <1>2, <1>3

(* A block that has absorbed its neighbour ends where that one did.        *)
Absorbing(b, c) == [b EXCEPT !.size = @ + c.size + SIZE_T]

LEMMA AbsorbingType ==
    ASSUME Heap!HeapConstants, NEW b \in AnyBlock, NEW c \in AnyBlock, Heap!End(b) = c.at
    PROVE  /\ Absorbing(b, c) \in AnyBlock
           /\ Absorbing(b, c).at = b.at /\ Absorbing(b, c).size >= b.size
           /\ Heap!End(Absorbing(b, c)) = Heap!End(c)
  <1>1. /\ b.at \in Nat /\ b.size \in Nat /\ b.size # 0 /\ SIZE_T \in Nat
        /\ c.at \in Nat /\ c.size \in Nat
        /\ Heap!End(b) = b.at + SIZE_T + b.size /\ Heap!End(c) = c.at + SIZE_T + c.size
    BY EndType DEF Heap!HeapConstants
  <1>2. \A x, y, z \in Nat : x # 0 => x + y + z \in Nat \ {0} /\ x + y + z >= x
    OBVIOUS
  <1>3. Absorbing(b, c) = [at |-> b.at, size |-> b.size + c.size + SIZE_T]
    BY DEF Absorbing, AnyBlock
  <1>4. Absorbing(b, c).at = b.at /\ Absorbing(b, c).size = b.size + c.size + SIZE_T
    BY <1>3
  <1>5. b.size + c.size + SIZE_T \in Nat \ {0} /\ b.size + c.size + SIZE_T >= b.size
    BY <1>1, <1>2, Zenon
  <1>6. Absorbing(b, c) \in AnyBlock
    BY <1>1, <1>3, <1>5 DEF AnyBlock
  <1>7. \A u, x, y, z \in Nat : u + z + (x + y + z) = (u + z + x) + z + y
    OBVIOUS
  <1>8. c.at = b.at + SIZE_T + b.size
    BY <1>1
  <1>9. b.at + SIZE_T + (b.size + c.size + SIZE_T) = c.at + SIZE_T + c.size
    <2>1. b.at + SIZE_T + (b.size + c.size + SIZE_T) = (b.at + SIZE_T + b.size) + SIZE_T + c.size
      <3>1. b.at \in Nat /\ b.size \in Nat /\ c.size \in Nat /\ SIZE_T \in Nat
        BY <1>1
      <3> QED BY <1>7, <3>1
    <2> QED BY <1>8, <2>1, Zenon
  <1>10. Heap!End(Absorbing(b, c)) = b.at + SIZE_T + (b.size + c.size + SIZE_T)
    BY <1>4, Zenon DEF Heap!End
  <1>11. Heap!End(Absorbing(b, c)) = Heap!End(c)
    BY <1>1, <1>9, <1>10, Zenon
  <1>12. Absorbing(b, c).size >= b.size
    BY <1>4, <1>5, Zenon
  <1> QED BY <1>4, <1>6, <1>11, <1>12

(* returnBlock lets a block absorb the one behind it, if they touch.       *)
LEMMA AbsorbAtKeepsHeap ==
    ASSUME Heap!HeapConstants, NEW list, NEW taken, NEW n \in Nat, NEW E \in SUBSET Int,
           HeapOK(list, taken, n, E), NEW i \in Int, \A e \in E : e <= i
    PROVE  HeapOK(Heap!AbsorbAt(list, i), taken, n, E \ {i})
  <1>0. /\ list \in Seq(AnyBlock) /\ taken \subseteq AnyBlock /\ Len(list) \in Nat
        /\ \A k \in 1 .. Len(list) : list[k] \in AnyBlock /\ list[k] \in Heap!Range(list)
        /\ \A x \in Heap!Range(list) : \E k \in 1 .. Len(list) : x = list[k]
    BY RangeIs DEF HeapOK
  <1>1. CASE ~(i \in 1 .. Len(list) - 1 /\ Heap!End(list[i]) = list[i + 1].at)
    <2>1. Heap!AbsorbAt(list, i) = list
      BY <1>1 DEF Heap!AbsorbAt
    <2>2. InOrder(list, E \ {i})
      BY <1>0, <1>1 DEF HeapOK, InOrder
    <2> QED BY <2>1, <2>2 DEF HeapOK
  <1>2. CASE i \in 1 .. Len(list) - 1 /\ Heap!End(list[i]) = list[i + 1].at
    <2> DEFINE b == list[i]
               c == list[i + 1]
               d == Absorbing(b, c)
               grown == [list EXCEPT ![i] = d]
               joined == Heap!RemoveAt(grown, i + 1)
    <2>1. i \in 1 .. Len(list) /\ i + 1 \in 1 .. Len(list)
      BY <1>0, <1>2
    <2>2. b \in AnyBlock /\ c \in AnyBlock
      BY <1>0, <2>1
    <2>3. d \in AnyBlock /\ d.at = b.at /\ d.size >= b.size /\ Heap!End(d) = Heap!End(c)
      BY <1>2, <2>2, AbsorbingType
    <2>4. Heap!AbsorbAt(list, i) = joined
      BY <1>2, <2>1 DEF Heap!AbsorbAt, Absorbing
    <2>5. /\ grown \in Seq(AnyBlock) /\ Len(grown) = Len(list)
          /\ \A k \in 1 .. Len(list) : grown[k] = IF k = i THEN d ELSE list[k]
      BY <1>0, <2>1, <2>3, ExceptSeq
    <2>6. /\ joined \in Seq(AnyBlock) /\ Len(joined) = Len(list) - 1
          /\ \A k \in 1 .. i - 1 : joined[k] = list[k]
          /\ joined[i] = d
          /\ \A k \in i + 1 .. Len(list) - 1 : joined[k] = list[k + 1]
      <3>1. /\ joined \in Seq(AnyBlock) /\ Len(joined) = Len(grown) - 1
            /\ \A k \in 1 .. Len(grown) - 1 :
                  joined[k] = IF k < i + 1 THEN grown[k] ELSE grown[k + 1]
        <4> HIDE DEF grown
        <4> QED BY <2>1, <2>5, RemoveAtProperties
      <3> HIDE DEF joined, grown, d, b, c
      <3>2. Len(joined) = Len(list) - 1
        BY <2>5, <3>1
      <3>3. ASSUME NEW k \in 1 .. Len(list) - 1
            PROVE  joined[k] = IF k <= i THEN grown[k] ELSE grown[k + 1]
        BY <1>0, <2>1, <2>5, <3>1
      <3>4. \A k \in 1 .. i : k \in 1 .. Len(list) - 1
        BY <1>0, <2>1
      <3>5. \A k \in 1 .. i - 1 : joined[k] = list[k]
        BY <2>5, <3>3, <3>4
      <3>6. joined[i] = d
        BY <2>1, <2>5, <3>3, <3>4
      <3>7. ASSUME NEW k \in i + 1 .. Len(list) - 1 PROVE joined[k] = list[k + 1]
        <4>1. k \in 1 .. Len(list) - 1 /\ k + 1 \in 1 .. Len(list) /\ ~(k <= i) /\ k + 1 # i
          BY <1>0, <2>1
        <4> QED BY <2>5, <3>3, <4>1
      <3> QED BY <3>1, <3>2, <3>5, <3>6, <3>7
    <2> HIDE DEF d, grown, joined
    <2>7. Heap!Range(joined) = (Heap!Range(list) \ {b, c}) \cup {d}
      <3>1. \A k \in 1 .. Len(list) : k # i /\ k # i + 1 => list[k] # b /\ list[k] # c
        BY <1>0, <2>1, InOrderIsInjective DEF HeapOK
      <3>2. \A x \in Heap!Range(joined) : \E k \in 1 .. Len(list) - 1 : x = joined[k]
        BY <2>6, RangeIs
      <3>3. \A k \in 1 .. Len(list) - 1 : joined[k] \in Heap!Range(joined)
        BY <2>6, RangeIs
      <3>4. ASSUME NEW k \in 1 .. Len(list), k # i, k # i + 1 PROVE list[k] \in Heap!Range(joined)
        <4>1. CASE k < i
          <5>1. k \in 1 .. Len(list) - 1 /\ joined[k] = list[k]
            BY <1>0, <2>1, <2>6, <4>1
          <5> QED BY <3>3, <5>1
        <4>2. CASE i + 1 < k
          <5>1. k - 1 \in 1 .. Len(list) - 1 /\ joined[k - 1] = list[k]
            BY <1>0, <2>1, <2>6, <4>2
          <5> QED BY <3>3, <5>1
        <4> QED BY <1>0, <3>4, <4>1, <4>2
      <3>5. d \in Heap!Range(joined)
        BY <1>2, <2>6, <3>3
      <3>6. ASSUME NEW k \in 1 .. Len(list) - 1
            PROVE  joined[k] = d \/ joined[k] \in Heap!Range(list) \ {b, c}
        <4>1. CASE k = i
          BY <2>6, <4>1
        <4>2. CASE k < i
          <5>1. k \in 1 .. Len(list) /\ k # i /\ k # i + 1 /\ joined[k] = list[k]
            BY <1>0, <2>1, <2>6, <4>2
          <5> QED BY <1>0, <3>1, <5>1
        <4>3. CASE i < k
          <5>1. k + 1 \in 1 .. Len(list) /\ k + 1 # i /\ k + 1 # i + 1
            BY <1>0, <2>1, <4>3
          <5>2. joined[k] = list[k + 1]
            BY <2>1, <2>6, <4>3
          <5> QED BY <1>0, <3>1, <5>1, <5>2
        <4> QED BY <2>1, <4>1, <4>2, <4>3
      <3> HIDE DEF b, c
      <3>7. Heap!Range(joined) \subseteq (Heap!Range(list) \ {b, c}) \cup {d}
        BY <3>2, <3>6
      <3>8. Heap!Range(list) \ {b, c} \subseteq Heap!Range(joined)
        BY <1>0, <3>4 DEF b, c
      <3> QED BY <3>5, <3>7, <3>8
    <2>8. Tiles(Heap!Range(joined) \cup taken, n) /\ Heap!Range(joined) \cap taken = {}
      <3> DEFINE all == Heap!Range(list) \cup taken
      <3>1. all \in SUBSET AnyBlock /\ b \in all /\ c \in all /\ Tiles(all, n)
        BY <1>0, <2>1 DEF HeapOK
      <3>2. Heap!End(b) = c.at
        BY <1>2
      <3> HIDE DEF all, b, c
      <3>3. Tiles((all \ {b, c}) \cup {d}, n) /\ d \notin all \ {b, c}
        <4>1. d \in AnyBlock /\ d.at = b.at /\ Heap!End(d) = Heap!End(c)
          BY <2>3
        <4> QED BY <3>1, <3>2, <4>1, JoinTiles
      <3>4. b \notin taken /\ c \notin taken
        BY <1>0, <2>1 DEF b, c, HeapOK
      <3>5. (all \ {b, c}) \cup {d} = Heap!Range(joined) \cup taken
        BY <2>7, <3>4 DEF all
      <3>6. Heap!Range(joined) \cap taken = {}
        BY <2>7, <3>3, <3>4 DEF all, HeapOK
      <3> QED BY <3>3, <3>5, <3>6
    <2>9. InOrder(joined, E \ {i})
      <3> SUFFICES ASSUME NEW p \in 1 .. Len(list) - 1, NEW q \in 1 .. Len(list) - 1, p < q
                   PROVE  /\ Heap!End(joined[p]) <= joined[q].at
                          /\ Heap!End(joined[p]) = joined[q].at => q = p + 1 /\ p \in E \ {i}
        BY <2>6 DEF InOrder
      <3>1. \A k \in 1 .. Len(list) : list[k].at \in Nat /\ Heap!End(list[k]) \in Nat
        BY <1>0, EndType
      <3>2. /\ \A k \in 1 .. Len(list) - 1 :
                  joined[k].at = IF k <= i THEN list[k].at ELSE list[k + 1].at
            /\ \A k \in 1 .. Len(list) - 1 :
                  Heap!End(joined[k]) = IF k < i THEN Heap!End(list[k])
                                        ELSE Heap!End(list[k + 1])
        <4> SUFFICES ASSUME NEW k \in 1 .. Len(list) - 1
                     PROVE  /\ joined[k].at = IF k <= i THEN list[k].at ELSE list[k + 1].at
                            /\ Heap!End(joined[k]) = IF k < i THEN Heap!End(list[k])
                                                     ELSE Heap!End(list[k + 1])
          OBVIOUS
        <4>1. CASE k = i
          BY <2>3, <2>6, <4>1
        <4>2. CASE k < i
          BY <2>1, <2>6, <4>2
        <4>3. CASE i < k
          BY <2>1, <2>6, <4>3
        <4> QED BY <2>1, <4>1, <4>2, <4>3
      <3> DEFINE u == IF p < i THEN p ELSE p + 1
                 v == IF q <= i THEN q ELSE q + 1
      <3>3. u \in 1 .. Len(list) /\ v \in 1 .. Len(list) /\ u < v
        BY <1>0, <2>1
      <3>4. Heap!End(joined[p]) = Heap!End(list[u]) /\ joined[q].at = list[v].at
        BY <3>2
      <3>5. /\ Heap!End(list[u]) <= list[v].at
            /\ (Heap!End(list[u]) = list[v].at => v = u + 1 /\ u \in E)
        BY <3>3 DEF HeapOK, InOrder
      <3>6. u \in E => u <= i
        OBVIOUS
      <3> QED BY <1>0, <2>1, <3>3, <3>4, <3>5, <3>6
    <2>10. \A x \in Heap!Range(joined) \cup taken : x.size >= POINTER
      <3>1. b.size >= POINTER
        BY <1>0, <2>1 DEF HeapOK
      <3>2. d.size >= POINTER
        <4> HIDE DEF b, c
        <4> QED BY <2>2, <2>3, <3>1, EndType DEF AnyBlock, Heap!HeapConstants
      <3> QED BY <2>7, <3>2 DEF HeapOK
    <2> QED BY <1>0, <2>4, <2>6, <2>8, <2>9, <2>10 DEF HeapOK
  <1> QED BY <1>1, <1>2

(* Every nonempty set of natural numbers has a least element.              *)
LEMMA LeastOfNat ==
    ASSUME NEW T \in SUBSET Nat, T # {}
    PROVE  \E n \in T : \A m \in T : n <= m
  <1>1. PICK n \in T : \A m \in T : ~(<<m, n>> \in OpToRel(<, Nat))
    BY NatLessThanWellFounded, WFMin, Zenon
  <1>2. \A m \in T : ~(m < n)
    BY <1>1, Zenon DEF OpToRel
  <1> QED BY <1>2

(* The blocks before an address are the first so and so many of the list.  *)
LEMMA BeforeIsFront ==
    ASSUME Heap!HeapConstants, NEW list \in Seq(AnyBlock), InOrder(list, {}), NEW h \in AnyBlock
    PROVE  \E k \in 0 .. Len(list) :
              /\ Cardinality(Heap!Before(list, h)) = k
              /\ \A i \in 1 .. Len(list) : list[i].at < h.at <=> i <= k
  <1>0. Len(list) \in Nat /\ \A i \in 1 .. Len(list) : list[i] \in AnyBlock
    BY RangeIs
  <1>1. h.at \in Nat /\ \A i \in 1 .. Len(list) : list[i].at \in Nat
    BY <1>0, EndType
  <1>2. \A i, j \in 1 .. Len(list) : i < j => list[i].at < list[j].at
    <2> SUFFICES ASSUME NEW i \in 1 .. Len(list), NEW j \in 1 .. Len(list), i < j
                 PROVE  list[i].at < list[j].at
      OBVIOUS
    <2>1. Heap!End(list[i]) <= list[j].at
      BY DEF InOrder
    <2>2. list[i].at < Heap!End(list[i]) /\ Heap!End(list[i]) \in Nat
      BY <1>0, EndType
    <2> QED BY <1>1, <2>1, <2>2
  <1> DEFINE later == {k \in Nat : k + 1 \notin Heap!Before(list, h)}
  <1>3. Len(list) \in later
    BY <1>0 DEF Heap!Before
  <1>4. PICK k \in later : \A m \in later : k <= m
    <2> HIDE DEF later
    <2>1. later \subseteq Nat
      BY DEF later
    <2> QED BY <1>3, <2>1, LeastOfNat
  <1>5. k \in 0 .. Len(list)
    BY <1>0, <1>3, <1>4
  <1>6. \A i \in 1 .. Len(list) : i \in Heap!Before(list, h) <=> i <= k
    <2> SUFFICES ASSUME NEW i \in 1 .. Len(list)
                 PROVE  i \in Heap!Before(list, h) <=> i <= k
      OBVIOUS
    <2>1. CASE i <= k
      <3>1. i - 1 \in Nat /\ ~(k <= i - 1) /\ (i - 1) + 1 = i
        BY <1>0, <2>1
      <3>2. i - 1 \notin later
        BY <1>4, <3>1
      <3> QED BY <2>1, <3>1, <3>2
    <2>2. CASE k < i
      <3>1. k + 1 \in 1 .. Len(list) /\ k + 1 \notin Heap!Before(list, h)
        BY <1>0, <2>2
      <3>2. ~(list[k + 1].at < h.at)
        BY <3>1 DEF Heap!Before
      <3>3. ~(list[i].at < h.at)
        <4>1. CASE i = k + 1
          BY <3>2, <4>1
        <4>2. CASE k + 1 < i
          BY <1>1, <1>2, <3>1, <3>2, <4>2
        <4> QED BY <2>2, <4>1, <4>2
      <3> QED BY <2>2, <3>3 DEF Heap!Before
    <2> QED BY <1>5, <2>1, <2>2
  <1>7. Heap!Before(list, h) = 1 .. k
    BY <1>0, <1>5, <1>6 DEF Heap!Before
  <1>8. Cardinality(Heap!Before(list, h)) = k
    BY <1>5, <1>7, FS_Interval
  <1> QED BY <1>5, <1>6, <1>8 DEF Heap!Before

(* returnBlock puts a block that somebody had back into the heap.          *)
LEMMA ReturnedKeepsHeap ==
    ASSUME Heap!HeapConstants, NEW list, NEW taken, NEW n \in Nat,
           HeapOK(list, taken, n, {}), NEW h \in taken
    PROVE  HeapOK(Heap!Returned(list, h), taken \ {h}, n, {})
  <1>0. /\ list \in Seq(AnyBlock) /\ h \in AnyBlock /\ Len(list) \in Nat
        /\ \A i \in 1 .. Len(list) : list[i] \in AnyBlock /\ list[i] \in Heap!Range(list)
        /\ \A x \in Heap!Range(list) : \E i \in 1 .. Len(list) : x = list[i]
    BY RangeIs DEF HeapOK
  <1>1. PICK k \in 0 .. Len(list) :
          /\ Cardinality(Heap!Before(list, h)) = k
          /\ \A i \in 1 .. Len(list) : list[i].at < h.at <=> i <= k
    BY <1>0, BeforeIsFront DEF HeapOK
  <1> DEFINE with == Heap!InsertAt(list, k + 1, h)
  <1>2. /\ with \in Seq(AnyBlock) /\ Len(with) = Len(list) + 1
        /\ \A i \in 1 .. k : with[i] = list[i]
        /\ with[k + 1] = h
        /\ \A i \in k + 2 .. Len(list) + 1 : with[i] = list[i - 1]
    <2>1. /\ with \in Seq(AnyBlock) /\ Len(with) = Len(list) + 1
          /\ \A i \in 1 .. Len(list) + 1 : with[i] =
                IF i < k + 1 THEN list[i] ELSE IF i = k + 1 THEN h ELSE list[i - 1]
      BY <1>0, InsertAtProperties
    <2> HIDE DEF with
    <2>2. \A i \in 1 .. k : with[i] = list[i]
      BY <1>0, <2>1
    <2>3. with[k + 1] = h
      BY <1>0, <2>1
    <2>4. \A i \in k + 2 .. Len(list) + 1 : with[i] = list[i - 1]
      BY <1>0, <2>1
    <2> QED BY <2>1, <2>2, <2>3, <2>4
  <1> HIDE DEF with
  <1>3. Heap!Range(with) = Heap!Range(list) \cup {h}
    <2>1. /\ \A x \in Heap!Range(with) : \E i \in 1 .. Len(list) + 1 : x = with[i]
          /\ \A i \in 1 .. Len(list) + 1 : with[i] \in Heap!Range(with)
      BY <1>2, RangeIs
    <2>2. ASSUME NEW i \in 1 .. Len(list) + 1 PROVE with[i] \in Heap!Range(list) \cup {h}
      <3>1. CASE i <= k
        BY <1>0, <1>2, <3>1
      <3>2. CASE i = k + 1
        BY <1>2, <3>2
      <3>3. CASE k + 2 <= i
        <4>1. i - 1 \in 1 .. Len(list) /\ i \in k + 2 .. Len(list) + 1
          BY <1>0, <3>3
        <4> QED BY <1>0, <1>2, <4>1
      <3> QED BY <1>0, <3>1, <3>2, <3>3
    <2>3. ASSUME NEW i \in 1 .. Len(list) PROVE list[i] \in Heap!Range(with)
      <3>1. CASE i <= k
        <4>1. i \in 1 .. k /\ i \in 1 .. Len(list) + 1
          BY <1>0, <3>1
        <4> QED BY <1>2, <2>1, <4>1
      <3>2. CASE k < i
        <4>1. i + 1 \in k + 2 .. Len(list) + 1 /\ i + 1 \in 1 .. Len(list) + 1 /\ (i + 1) - 1 = i
          BY <1>0, <3>2
        <4> QED BY <1>2, <2>1, <4>1
      <3> QED BY <1>0, <3>1, <3>2
    <2>4. h \in Heap!Range(with)
      BY <1>0, <1>2, <2>1
    <2> QED BY <1>0, <2>1, <2>2, <2>3, <2>4
  <1>4. ASSUME NEW i \in 1 .. Len(list)
        PROVE  /\ list[i].at \in Nat
               /\ Heap!End(list[i]) \in Nat
               /\ h.at \in Nat
               /\ Heap!End(h) \in Nat
               /\ list[i].at < Heap!End(list[i])
               /\ i <= k => Heap!End(list[i]) <= h.at
               /\ k < i => Heap!End(h) <= list[i].at
    <2>1. Heap!End(list[i]) <= h.at \/ Heap!End(h) <= list[i].at
      BY <1>0 DEF HeapOK, Tiles
    <2>2. /\ list[i].at \in Nat /\ Heap!End(list[i]) \in Nat /\ list[i].at < Heap!End(list[i])
          /\ h.at \in Nat /\ Heap!End(h) \in Nat /\ h.at < Heap!End(h)
      BY <1>0, EndType
    <2> QED BY <1>1, <2>1, <2>2
  <1>5. \A i, j \in 1 .. Len(list) : i < j => Heap!End(list[i]) < list[j].at
    BY <1>4 DEF HeapOK, InOrder
  <1>6. InOrder(with, {k, k + 1})
    <2> SUFFICES ASSUME NEW p \in 1 .. Len(list) + 1, NEW q \in 1 .. Len(list) + 1, p < q
                 PROVE  /\ Heap!End(with[p]) <= with[q].at
                        /\ Heap!End(with[p]) = with[q].at => q = p + 1 /\ p \in {k, k + 1}
      BY <1>2 DEF InOrder
    <2>0. k \in Nat /\ k <= Len(list)
      BY <1>0
    <2>1. CASE q <= k
      <3>1. p \in 1 .. k /\ q \in 1 .. k /\ p \in 1 .. Len(list) /\ q \in 1 .. Len(list)
        BY <1>0, <2>0, <2>1
      <3>2. Heap!End(with[p]) = Heap!End(list[p]) /\ with[q].at = list[q].at
        BY <1>2, <3>1
      <3> QED BY <1>4, <1>5, <3>1, <3>2
    <2>2. CASE q = k + 1
      <3>1. p \in 1 .. k /\ p \in 1 .. Len(list)
        BY <1>0, <2>0, <2>2
      <3>2. Heap!End(with[p]) = Heap!End(list[p]) /\ with[q].at = h.at
        BY <1>2, <2>2, <3>1
      <3>3. Heap!End(list[p]) <= h.at
        BY <1>4, <3>1
      <3>4. p # k => Heap!End(list[p]) < h.at
        <4>1. SUFFICES ASSUME p # k PROVE Heap!End(list[p]) < h.at
          OBVIOUS
        <4>2. k \in 1 .. Len(list) /\ p < k
          BY <2>0, <3>1, <4>1
        <4>3. Heap!End(list[p]) < list[k].at /\ list[k].at < h.at
          BY <1>1, <1>5, <2>0, <3>1, <4>2
        <4> QED BY <1>4, <3>1, <4>2, <4>3
      <3> QED BY <1>4, <2>2, <3>1, <3>2, <3>3, <3>4
    <2>3. CASE k + 1 < q /\ p <= k
      <3>1. /\ p \in 1 .. k /\ q \in k + 2 .. Len(list) + 1
            /\ p \in 1 .. Len(list) /\ q - 1 \in 1 .. Len(list) /\ p < q - 1
        BY <1>0, <2>0, <2>3
      <3>2. Heap!End(with[p]) = Heap!End(list[p]) /\ with[q].at = list[q - 1].at
        BY <1>2, <3>1
      <3> QED BY <1>4, <1>5, <3>1, <3>2
    <2>4. CASE p = k + 1
      <3>1. q \in k + 2 .. Len(list) + 1 /\ q - 1 \in 1 .. Len(list) /\ k < q - 1
        BY <1>0, <2>0, <2>4
      <3>2. Heap!End(with[p]) = Heap!End(h) /\ with[q].at = list[q - 1].at
        BY <1>2, <2>4, <3>1
      <3>3. Heap!End(h) <= list[q - 1].at
        BY <1>4, <3>1
      <3>4. q # p + 1 => Heap!End(h) < list[q - 1].at
        <4>1. SUFFICES ASSUME q # p + 1 PROVE Heap!End(h) < list[q - 1].at
          OBVIOUS
        <4>2. k + 1 \in 1 .. Len(list) /\ k < k + 1 /\ k + 1 < q - 1
          BY <2>0, <2>4, <3>1, <4>1
        <4>3. /\ Heap!End(h) <= list[k + 1].at /\ list[k + 1].at < Heap!End(list[k + 1])
              /\ Heap!End(list[k + 1]) < list[q - 1].at
          BY <1>4, <1>5, <3>1, <4>2
        <4> QED BY <1>4, <3>1, <4>2, <4>3
      <3> QED BY <1>4, <2>4, <3>1, <3>2, <3>3, <3>4
    <2>5. CASE k + 1 < p
      <3>1. /\ p \in k + 2 .. Len(list) + 1 /\ q \in k + 2 .. Len(list) + 1
            /\ p - 1 \in 1 .. Len(list) /\ q - 1 \in 1 .. Len(list) /\ p - 1 < q - 1
        BY <1>0, <2>0, <2>5
      <3>2. Heap!End(with[p]) = Heap!End(list[p - 1]) /\ with[q].at = list[q - 1].at
        BY <1>2, <3>1
      <3>3. Heap!End(list[p - 1]) < list[q - 1].at
        BY <1>5, <3>1
      <3>4. Heap!End(list[p - 1]) \in Nat /\ list[q - 1].at \in Nat
        BY <1>4, <3>1
      <3> QED BY <3>2, <3>3, <3>4
    <2> QED BY <2>0, <2>1, <2>2, <2>3, <2>4, <2>5
  <1>7. HeapOK(with, taken \ {h}, n, {k, k + 1})
    <2>1. Heap!Range(with) \cup (taken \ {h}) = Heap!Range(list) \cup taken
      BY <1>3
    <2>2. Heap!Range(with) \cap (taken \ {h}) = {}
      BY <1>3 DEF HeapOK
    <2> QED BY <1>2, <1>6, <2>1, <2>2 DEF HeapOK
  <1>8. HeapOK(Heap!AbsorbAt(with, k + 1), taken \ {h}, n, {k})
    <2>1. {k, k + 1} \in SUBSET Int /\ k + 1 \in Int /\ {k, k + 1} \ {k + 1} = {k}
          /\ \A e \in {k, k + 1} : e <= k + 1
      BY <1>0
    <2>2. HeapOK(Heap!AbsorbAt(with, k + 1), taken \ {h}, n, {k, k + 1} \ {k + 1})
      BY <1>7, <2>1, AbsorbAtKeepsHeap
    <2> QED BY <2>1, <2>2
  <1>9. HeapOK(Heap!AbsorbAt(Heap!AbsorbAt(with, k + 1), k), taken \ {h}, n, {})
    <2>1. {k} \in SUBSET Int /\ k \in Int /\ {k} \ {k} = {} /\ \A e \in {k} : e <= k
      BY <1>0
    <2>2. HeapOK(Heap!AbsorbAt(Heap!AbsorbAt(with, k + 1), k), taken \ {h}, n, {k} \ {k})
      BY <1>8, <2>1, AbsorbAtKeepsHeap
    <2> QED BY <2>1, <2>2
  <1>10. Heap!Returned(list, h) = Heap!AbsorbAt(Heap!AbsorbAt(with, k + 1), k)
    <2>1. (k + 1) - 1 = k
      BY <1>0
    <2>2. Heap!Cardinality(Heap!Before(list, h)) = k
      BY <1>1 DEF Heap!Cardinality, Cardinality
    <2> QED BY <2>1, <2>2 DEF Heap!Returned, with
  <1> QED BY <1>9, <1>10

(* A block that is taken out of the list is somebody's;                    *)
LEMMA TakeKeepsHeap ==
    ASSUME Heap!HeapConstants, NEW list, NEW taken, NEW n \in Nat,
           HeapOK(list, taken, n, {}), NEW i \in 1 .. Len(list)
    PROVE  /\ list[i] \in AnyBlock /\ list[i] \notin taken
           /\ HeapOK(Heap!RemoveAt(list, i), taken \cup {list[i]}, n, {})
  <1> DEFINE rest == Heap!RemoveAt(list, i)
  <1>0. /\ list \in Seq(AnyBlock) /\ taken \subseteq AnyBlock /\ Len(list) \in Nat
        /\ \A k \in 1 .. Len(list) : list[k] \in AnyBlock /\ list[k] \in Heap!Range(list)
        /\ \A x \in Heap!Range(list) : \E k \in 1 .. Len(list) : x = list[k]
    BY RangeIs DEF HeapOK
  <1>1. /\ rest \in Seq(AnyBlock) /\ Len(rest) = Len(list) - 1
        /\ \A k \in 1 .. Len(list) - 1 :
              rest[k] = IF k < i THEN list[k] ELSE list[k + 1]
    BY <1>0, RemoveAtProperties
  <1> HIDE DEF rest
  <1>2. /\ \A x \in Heap!Range(rest) : \E k \in 1 .. Len(list) - 1 : x = rest[k]
        /\ \A k \in 1 .. Len(list) - 1 : rest[k] \in Heap!Range(rest)
    BY <1>1, RangeIs
  <1>3. ASSUME NEW k \in 1 .. Len(list) - 1
        PROVE  \E u \in 1 .. Len(list) : /\ rest[k] = list[u] /\ u # i
                                         /\ u = IF k < i THEN k ELSE k + 1
    <2>1. CASE k < i
      BY <1>0, <1>1, <2>1
    <2>2. CASE i <= k
      BY <1>0, <1>1, <2>2
    <2> QED BY <1>0, <2>1, <2>2
  <1>4. Heap!Range(rest) = Heap!Range(list) \ {list[i]}
    <2>1. \A u \in 1 .. Len(list) : u # i => list[u] # list[i]
      BY <1>0, InOrderIsInjective DEF HeapOK
    <2>2. \A k \in 1 .. Len(list) - 1 : rest[k] \in Heap!Range(list) \ {list[i]}
      BY <1>0, <1>3, <2>1
    <2>3. ASSUME NEW u \in 1 .. Len(list), u # i PROVE list[u] \in Heap!Range(rest)
      <3>1. CASE u < i
        <4>1. u \in 1 .. Len(list) - 1 /\ rest[u] = list[u]
          BY <1>0, <1>1, <3>1
        <4> QED BY <1>2, <4>1
      <3>2. CASE i < u
        <4>1. u - 1 \in 1 .. Len(list) - 1 /\ ~(u - 1 < i) /\ (u - 1) + 1 = u
          BY <1>0, <3>2
        <4>2. rest[u - 1] = list[u]
          BY <1>1, <4>1
        <4> QED BY <1>2, <4>1, <4>2
      <3> QED BY <1>0, <2>3, <3>1, <3>2
    <2>4. Heap!Range(rest) \subseteq Heap!Range(list) \ {list[i]}
      BY <1>2, <2>2
    <2>5. Heap!Range(list) \ {list[i]} \subseteq Heap!Range(rest)
      BY <1>0, <2>3
    <2> QED BY <2>4, <2>5
  <1>5. InOrder(rest, {})
    <2> SUFFICES ASSUME NEW p \in 1 .. Len(list) - 1, NEW q \in 1 .. Len(list) - 1, p < q
                 PROVE  /\ Heap!End(rest[p]) <= rest[q].at
                        /\ Heap!End(rest[p]) # rest[q].at
      BY <1>1 DEF InOrder
    <2>1. PICK u \in 1 .. Len(list) : rest[p] = list[u] /\ u = IF p < i THEN p ELSE p + 1
      BY <1>3
    <2>2. PICK v \in 1 .. Len(list) : rest[q] = list[v] /\ v = IF q < i THEN q ELSE q + 1
      BY <1>3
    <2>3. u < v
      BY <1>0, <2>1, <2>2
    <2> QED BY <2>1, <2>2, <2>3 DEF HeapOK, InOrder
  <1>6. list[i] \in AnyBlock /\ list[i] \in Heap!Range(list) /\ list[i] \notin taken
    BY <1>0 DEF HeapOK
  <1>7. Heap!Range(rest) \cup (taken \cup {list[i]}) = Heap!Range(list) \cup taken
    BY <1>4, <1>6
  <1>8. Heap!Range(rest) \cap (taken \cup {list[i]}) = {}
    BY <1>4 DEF HeapOK
  <1>9. HeapOK(rest, taken \cup {list[i]}, n, {})
    BY <1>0, <1>1, <1>5, <1>6, <1>7, <1>8 DEF HeapOK
  <1> QED BY <1>6, <1>9 DEF rest

(* and so is one that mmap has put behind all others.                      *)
LEMMA ExtendKeepsHeap ==
    ASSUME Heap!HeapConstants, NEW list, NEW taken, NEW n \in Nat,
           HeapOK(list, taken, n, {}),
           NEW b \in AnyBlock, b.at = n, b.size >= POINTER
    PROVE  b \notin taken /\ HeapOK(list, taken \cup {b}, Heap!End(b), {})
  <1>0. list \in Seq(AnyBlock) /\ Heap!Range(list) \subseteq AnyBlock /\ taken \subseteq AnyBlock
    BY RangeIs DEF HeapOK
  <1> DEFINE all == Heap!Range(list) \cup taken
  <1>1. all \in SUBSET AnyBlock /\ Tiles(all, n)
    BY <1>0 DEF HeapOK
  <1> HIDE DEF all
  <1>2. Tiles(all \cup {b}, Heap!End(b)) /\ b \notin all
    BY <1>1, ExtendTiles
  <1>3. all \cup {b} = Heap!Range(list) \cup (taken \cup {b})
    BY DEF all
  <1>4. Tiles(Heap!Range(list) \cup (taken \cup {b}), Heap!End(b))
    BY <1>2, <1>3
  <1> QED BY <1>0, <1>2, <1>4 DEF HeapOK, all

(* Of a block in nobody's list a caller gets the front, or all of it.      *)
LEMMA GivenKeepsHeap ==
    ASSUME Heap!HeapConstants, NEW list, NEW taken, NEW n \in Nat, NEW h \in AnyBlock,
           h \notin taken, HeapOK(list, taken \cup {h}, n, {}),
           NEW size \in Nat, POINTER <= size, size <= h.size
    PROVE  /\ Heap!Given(list, h, size).block \notin taken
           /\ HeapOK(Heap!Given(list, h, size).freeList,
                     taken \cup {Heap!Given(list, h, size).block}, n, {})
  <1>1. CASE ~Heap!Splits(h, size)
    BY <1>1 DEF Heap!Given
  <1>2. CASE Heap!Splits(h, size)
    <2> DEFINE c == [at |-> h.at, size |-> size]
               d == [at |-> h.at + SIZE_T + size, size |-> h.size - size - SIZE_T]
               all == Heap!Range(list) \cup (taken \cup {h})
    <2>0. /\ list \in Seq(AnyBlock)
          /\ Heap!Range(list) \subseteq AnyBlock
          /\ taken \subseteq AnyBlock
          /\ Heap!Range(list) \cap (taken \cup {h}) = {} /\ InOrder(list, {}) /\ Tiles(all, n)
          /\ \A x \in all : x.size >= POINTER
      BY RangeIs DEF HeapOK
    <2>1. /\ h.at \in Nat /\ h.size \in Nat /\ SIZE_T \in Nat /\ POINTER \in Nat /\ POINTER > 0
          /\ size + SIZE_T + POINTER <= h.size /\ Heap!End(h) = h.at + SIZE_T + h.size
      BY <1>2, EndType DEF Heap!HeapConstants, Heap!Splits
    <2>2. /\ h.at + SIZE_T + size \in Nat
          /\ h.size - size - SIZE_T \in Nat \ {0}
          /\ h.size - size - SIZE_T >= POINTER
          /\ size \in Nat \ {0}
          /\ (h.at + SIZE_T + size) + SIZE_T + (h.size - size - SIZE_T) = h.at + SIZE_T + h.size
      BY <2>1
    <2>3. /\ c \in AnyBlock /\ c.at = h.at /\ c.size = size
          /\ d \in AnyBlock /\ d.at = h.at + SIZE_T + size /\ d.size = h.size - size - SIZE_T
      BY <2>1, <2>2 DEF AnyBlock
    <2>4. /\ Heap!Given(list, h, size).block = c
          /\ Heap!Given(list, h, size).freeList = Heap!Returned(list, d)
      BY <1>2 DEF Heap!Given, Heap!Split
    <2> HIDE DEF c, d
    <2>5. Heap!End(c) = d.at /\ Heap!End(d) = Heap!End(h)
      BY <2>1, <2>2, <2>3 DEF Heap!End
    <2>6. Tiles((all \ {h}) \cup {c, d}, n) /\ c \notin all \ {h} /\ d \notin all \ {h} /\ c # d
      <3>1. all \in SUBSET AnyBlock /\ h \in all /\ Tiles(all, n)
        BY <2>0
      <3> HIDE DEF all
      <3> QED BY <2>3, <2>5, <3>1, CutTiles
    <2>7. HeapOK(list, taken \cup {c, d}, n, {})
      <3>1. Heap!Range(list) \cup (taken \cup {c, d}) = (all \ {h}) \cup {c, d}
        BY <2>0
      <3>2. Heap!Range(list) \cap (taken \cup {c, d}) = {}
        BY <2>0, <2>6
      <3>3. \A x \in Heap!Range(list) \cup (taken \cup {c, d}) : x.size >= POINTER
        BY <2>0, <2>2, <2>3
      <3>4. Tiles(Heap!Range(list) \cup (taken \cup {c, d}), n)
        BY <2>6, <3>1
      <3> QED BY <2>0, <2>3, <3>2, <3>3, <3>4 DEF HeapOK
    <2>8. HeapOK(Heap!Returned(list, d), (taken \cup {c, d}) \ {d}, n, {})
      BY <2>7, ReturnedKeepsHeap
    <2>9. d \notin taken /\ c \notin taken /\ (taken \cup {c, d}) \ {d} = taken \cup {c}
      BY <2>6
    <2> QED BY <2>4, <2>8, <2>9
  <1> QED BY <1>1, <1>2

-----------------------------------------------------------------------------
(* malloc                                                                  *)

(* Enough pages for a size and its size field.                             *)
LEMMA PagesHold ==
    ASSUME Heap!HeapConstants, NEW size \in Nat
    PROVE  \E k \in Nat : /\ Heap!Pages(size) = k * PAGE
                           /\ Heap!Pages(size) \in Nat
                           /\ Heap!Pages(size) >= size + SIZE_T
  <1>1. PAGE \in Nat /\ PAGE > 0 /\ SIZE_T \in Nat
    BY DEF Heap!HeapConstants
  <1> DEFINE x == size + SIZE_T + PAGE - 1
  <1>2. x \in Nat /\ x = size + SIZE_T + PAGE - 1
    BY <1>1
  <1> HIDE DEF x
  <1>3. x \div PAGE \in Nat /\ x % PAGE \in 0 .. PAGE - 1 /\ x = PAGE * (x \div PAGE) + (x % PAGE)
    BY <1>1, <1>2
  <1>4. PAGE * (x \div PAGE) = (x \div PAGE) * PAGE
    BY <1>1, <1>3
  <1>5. (x \div PAGE) * PAGE \in Nat /\ (x \div PAGE) * PAGE >= size + SIZE_T
    BY <1>1, <1>2, <1>3, <1>4
  <1> QED BY <1>3, <1>5 DEF Heap!Pages, x

LEMMA MinIsMember ==
    ASSUME NEW T \in SUBSET Nat, T # {}
    PROVE  Heap!Min(T) \in T
  BY LeastOfNat DEF Heap!Min

LEMMA ServedKeepsHeap ==
    ASSUME Heap!HeapConstants, nextBlock \in Nat, HeapOK(freeList, allocated, nextBlock, {}),
           NEW size \in Nat, POINTER <= size
    PROVE  /\ Heap!Mapped(size) \in Nat
           /\ \E k \in Nat : Heap!Mapped(size) = nextBlock + k * PAGE
           /\ Heap!Served(size).block \notin allocated
           /\ HeapOK(Heap!Served(size).freeList,
                     allocated \cup {Heap!Served(size).block}, Heap!Mapped(size), {})
  <1>0. /\ freeList \in Seq(AnyBlock) /\ Len(freeList) \in Nat
        /\ SIZE_T \in Nat /\ POINTER \in Nat \ {0} /\ PAGE \in Nat
    BY RangeIs DEF HeapOK, Heap!HeapConstants
  <1>1. CASE Heap!Fitting(size) # {}
    <2> DEFINE i == Heap!Min(Heap!Fitting(size))
    <2>1. Heap!Fitting(size) \in SUBSET Nat
      BY <1>0 DEF Heap!Fitting
    <2>2. i \in Heap!Fitting(size)
      BY <1>1, <2>1, MinIsMember
    <2>3. /\ Heap!Served(size) = Heap!Given(Heap!RemoveAt(freeList, i), freeList[i], size)
          /\ Heap!Mapped(size) = nextBlock
      BY <1>1 DEF Heap!Served, Heap!FromList, Heap!Mapped
    <2> HIDE DEF i
    <2>4. i \in 1 .. Len(freeList) /\ size <= freeList[i].size
      <3>1. i \in 1 .. Len(freeList) /\ freeList[i].size >= size
        BY <2>2 DEF Heap!Fitting
      <3>2. freeList[i].size \in Nat
        BY <1>0, <3>1, RangeIs, EndType
      <3> QED BY <3>1, <3>2
    <2>5. /\ freeList[i] \in AnyBlock /\ freeList[i] \notin allocated
          /\ HeapOK(Heap!RemoveAt(freeList, i), allocated \cup {freeList[i]}, nextBlock, {})
      BY <2>4, TakeKeepsHeap
    <2>6. /\ Heap!Served(size).block \notin allocated
          /\ HeapOK(Heap!Served(size).freeList,
                    allocated \cup {Heap!Served(size).block}, nextBlock, {})
      BY <2>3, <2>4, <2>5, GivenKeepsHeap
    <2>7. 0 \in Nat /\ nextBlock = nextBlock + 0 * PAGE
      BY <1>0
    <2> QED BY <2>3, <2>6, <2>7
  <1>2. CASE Heap!Fitting(size) = {}
    <2> DEFINE b == [at |-> nextBlock, size |-> Heap!Pages(size) - SIZE_T]
    <2>1. PICK k \in Nat : /\ Heap!Pages(size) = k * PAGE
                           /\ Heap!Pages(size) \in Nat
                           /\ Heap!Pages(size) >= size + SIZE_T
      BY PagesHold
    <2>2. /\ Heap!Served(size) = Heap!Given(freeList, b, size)
          /\ Heap!Mapped(size) = nextBlock + Heap!Pages(size)
      BY <1>2 DEF Heap!Served, Heap!FromPages, Heap!Mapped
    <2>3. /\ Heap!Pages(size) - SIZE_T \in Nat \ {0} /\ Heap!Pages(size) - SIZE_T >= size
          /\ Heap!Pages(size) - SIZE_T >= POINTER
          /\ nextBlock + SIZE_T + (Heap!Pages(size) - SIZE_T) = nextBlock + Heap!Pages(size)
      BY <1>0, <2>1
    <2>4. b \in AnyBlock /\ b.at = nextBlock /\ b.size = Heap!Pages(size) - SIZE_T
      BY <2>3 DEF AnyBlock
    <2> HIDE DEF b
    <2>5. Heap!End(b) = Heap!Mapped(size) /\ Heap!Mapped(size) \in Nat
      <3>1. Heap!End(b) = nextBlock + SIZE_T + (Heap!Pages(size) - SIZE_T)
        BY <2>4 DEF Heap!End
      <3>2. nextBlock + Heap!Pages(size) \in Nat
        BY <2>1
      <3> QED BY <2>2, <2>3, <3>1, <3>2
    <2>6. size <= b.size /\ b.size >= POINTER
      BY <1>0, <2>1, <2>3, <2>4
    <2>7. b \notin allocated /\ HeapOK(freeList, allocated \cup {b}, Heap!Mapped(size), {})
      BY <2>4, <2>5, <2>6, ExtendKeepsHeap
    <2>8. /\ Heap!Served(size).block \notin allocated
          /\ HeapOK(Heap!Served(size).freeList,
                    allocated \cup {Heap!Served(size).block}, Heap!Mapped(size), {})
      BY <2>2, <2>4, <2>5, <2>6, <2>7, GivenKeepsHeap
    <2> QED BY <2>1, <2>2, <2>5, <2>8
  <1> QED BY <1>1, <1>2

-----------------------------------------------------------------------------
(* The invariant.  What callers hold and what is in the list are the whole *)
(* of the memory mapped; without its order, and the gaps in it, nothing    *)
(* says that returnBlock finds the neighbours of a block.                  *)
HeapInv ==
    /\ HeapOK(freeList, allocated, nextBlock, {})
    /\ \E m \in 0 .. MaxPages : nextBlock = PAGE * m

LEMMA InitKeepsHeap ==
    ASSUME Heap!HeapConstants, Heap!Init
    PROVE  HeapInv
  <1>1. freeList \in Seq(AnyBlock) /\ Len(freeList) = 0 /\ Heap!Range(freeList) = {}
    BY DEF Heap!Init, Heap!Range
  <1>2. HeapOK(freeList, allocated, 0, {})
    <2>1. InOrder(freeList, {})
      BY <1>1 DEF InOrder
    <2>2. Tiles({}, 0)
      BY DEF Tiles
    <2> QED BY <1>1, <2>1, <2>2 DEF HeapOK, Heap!Init
  <1>3. 0 \in 0 .. MaxPages /\ 0 = PAGE * 0
    BY DEF Heap!HeapConstants
  <1> QED BY <1>2, <1>3 DEF HeapInv, Heap!Init

LEMMA InvType ==
    ASSUME Heap!HeapConstants, HeapInv
    PROVE  nextBlock \in Nat /\ nextBlock <= MaxPages * PAGE
  <1>1. MaxPages \in Nat /\ PAGE \in Nat
    BY DEF Heap!HeapConstants
  <1>2. PICK m \in 0 .. MaxPages : nextBlock = PAGE * m
    BY DEF HeapInv
  <1>3. m \in Nat /\ MaxPages - m \in Nat
    BY <1>1, <1>2
  <1>4. \A x, y \in Nat : x * y \in Nat /\ y * x = x * y
    OBVIOUS
  <1>5. MaxPages * PAGE = PAGE * m + (MaxPages - m) * PAGE
    BY <1>1, <1>3
  <1>6. PAGE * m \in Nat /\ (MaxPages - m) * PAGE \in Nat
    BY <1>1, <1>3, <1>4
  <1> QED BY <1>2, <1>5, <1>6

(* More memory is mapped by whole pages, and only what there is.           *)
LEMMA MappedIsPages ==
    ASSUME Heap!HeapConstants, HeapInv, NEW limit \in Nat, limit <= MaxPages * PAGE,
           NEW k \in Nat, limit = nextBlock + k * PAGE
    PROVE  \E m \in 0 .. MaxPages : limit = PAGE * m
  <1>1. MaxPages \in Nat /\ PAGE \in Nat /\ PAGE > 0
    BY DEF Heap!HeapConstants
  <1>2. PICK m \in 0 .. MaxPages : nextBlock = PAGE * m
    BY DEF HeapInv
  <1>3. m \in Nat /\ m + k \in Nat
    BY <1>1, <1>2
  <1>4. limit = PAGE * (m + k)
    BY <1>1, <1>2, <1>3
  <1>5. m + k <= MaxPages
    <2>1. SUFFICES ASSUME m + k > MaxPages PROVE FALSE
      BY <1>1, <1>3
    <2>2. m + k - MaxPages - 1 \in Nat
      BY <1>1, <1>3, <2>1
    <2>3. PAGE * (m + k) = MaxPages * PAGE + PAGE + PAGE * (m + k - MaxPages - 1)
      BY <1>1, <1>3, <2>2
    <2>4. PAGE * (m + k - MaxPages - 1) \in Nat /\ MaxPages * PAGE \in Nat
      BY <1>1, <2>2
    <2> QED BY <1>1, <1>4, <2>3, <2>4
  <1> QED BY <1>1, <1>3, <1>4, <1>5

LEMMA LeastHoldsLink ==
    ASSUME Heap!HeapConstants, NEW asked \in Sizes
    PROVE  Heap!Least(asked) \in Nat /\ POINTER <= Heap!Least(asked)
  BY DEF Heap!HeapConstants, Heap!Least

LEMMA NextKeepsHeap ==
    ASSUME Heap!HeapConstants, HeapInv, [Heap!Next]_Heap!vars
    PROVE  HeapInv'
  <1>0. nextBlock \in Nat /\ MaxPages * PAGE \in Nat
    BY InvType DEF Heap!HeapConstants
  <1>1. ASSUME NEW asked \in Sizes, Heap!CanServe(Heap!Least(asked))
        PROVE  /\ HeapOK(Heap!Served(Heap!Least(asked)).freeList,
                         allocated \cup {Heap!Served(Heap!Least(asked)).block},
                         Heap!Mapped(Heap!Least(asked)), {})
               /\ Heap!Mapped(Heap!Least(asked)) \in Nat
               /\ \E m \in 0 .. MaxPages : Heap!Mapped(Heap!Least(asked)) = PAGE * m
    <2> DEFINE size == Heap!Least(asked)
    <2>1. size \in Nat /\ POINTER <= size
      BY LeastHoldsLink
    <2> HIDE DEF size
    <2>2. /\ Heap!Mapped(size) \in Nat
          /\ \E k \in Nat : Heap!Mapped(size) = nextBlock + k * PAGE
          /\ HeapOK(Heap!Served(size).freeList,
                    allocated \cup {Heap!Served(size).block}, Heap!Mapped(size), {})
      BY <1>0, <2>1, ServedKeepsHeap DEF HeapInv
    <2>3. Heap!Mapped(size) <= MaxPages * PAGE
      BY <1>1 DEF Heap!CanServe, size
    <2>4. \E m \in 0 .. MaxPages : Heap!Mapped(size) = PAGE * m
      BY <2>2, <2>3, MappedIsPages
    <2> QED BY <2>2, <2>4 DEF size
  <1>2. CASE \E asked \in Sizes : Heap!Malloc(asked)
    BY <1>1, <1>2 DEF Heap!Malloc, HeapInv
  <1>3. CASE \E h \in allocated : Heap!Free(h)
    BY <1>0, <1>3, ReturnedKeepsHeap DEF Heap!Free, HeapInv
  <1>4. ASSUME NEW h \in allocated, NEW asked \in Sizes, Heap!Realloc(h, asked) PROVE HeapInv'
    <2> DEFINE size == Heap!Least(asked)
               both == allocated \cup {Heap!Served(size).block}
    <2>1. /\ Heap!CanServe(size) /\ allocated' = both \ {h}
          /\ freeList' = Heap!Returned(Heap!Served(size).freeList, h)
          /\ nextBlock' = Heap!Mapped(size)
      BY <1>4 DEF Heap!Realloc
    <2>2. /\ HeapOK(Heap!Served(size).freeList, both, Heap!Mapped(size), {})
          /\ Heap!Mapped(size) \in Nat
          /\ \E m \in 0 .. MaxPages : Heap!Mapped(size) = PAGE * m
      BY <1>1, <2>1
    <2>3. h \in both
      OBVIOUS
    <2> HIDE DEF both, size
    <2>4. HeapOK(Heap!Returned(Heap!Served(size).freeList, h), both \ {h}, Heap!Mapped(size), {})
      BY <2>2, <2>3, ReturnedKeepsHeap
    <2> QED BY <2>1, <2>2, <2>4 DEF HeapInv
  <1>5. CASE UNCHANGED Heap!vars
    BY <1>5 DEF Heap!vars, HeapInv
  <1> QED BY <1>2, <1>3, <1>4, <1>5 DEF Heap!Next

LEMMA InvImpliesType ==
    ASSUME Heap!HeapConstants, HeapInv
    PROVE  Heap!TypeOK
  <1> DEFINE limit == MaxPages * PAGE
  <1>1. nextBlock \in Nat /\ nextBlock <= limit /\ limit \in Nat
    BY InvType DEF Heap!HeapConstants
  <1> HIDE DEF limit
  <1>2. ASSUME NEW b \in Heap!Range(freeList) \cup allocated
        PROVE  b \in [at : 0 .. limit, size : 1 .. limit]
    <2>1. b \in AnyBlock
      BY RangeIs DEF HeapInv, HeapOK
    <2>2. Heap!End(b) <= nextBlock
      BY DEF HeapInv, HeapOK, Tiles
    <2>3. /\ b.at \in Nat
          /\ b.size \in Nat \ {0}
          /\ SIZE_T \in Nat
          /\ Heap!End(b) = b.at + SIZE_T + b.size
      BY <2>1, EndType DEF Heap!HeapConstants
    <2>4. b.at <= limit /\ b.size <= limit
      BY <1>1, <2>2, <2>3
    <2>5. b = [at |-> b.at, size |-> b.size]
      BY <2>1 DEF AnyBlock
    <2>6. b.at \in 0 .. limit /\ b.size \in 1 .. limit
      BY <1>1, <2>3, <2>4
    <2> QED BY <2>5, <2>6
  <1>3. allocated \subseteq Heap!Block
    BY <1>2 DEF Heap!Block, limit
  <1>4. freeList \in Seq(Heap!Block)
    <2>1. /\ freeList \in Seq(AnyBlock) /\ Len(freeList) \in Nat
          /\ \A i \in 1 .. Len(freeList) : freeList[i] \in Heap!Range(freeList)
      BY RangeIs DEF HeapInv, HeapOK
    <2>2. \A i \in 1 .. Len(freeList) : freeList[i] \in Heap!Block
      BY <1>2, <2>1 DEF Heap!Block, limit
    <2>3. freeList = [i \in 1 .. Len(freeList) |-> freeList[i]]
      BY <2>1
    <2> QED BY <2>1, <2>2, <2>3
  <1>5. nextBlock \in {PAGE * n : n \in 0 .. MaxPages}
    BY DEF HeapInv
  <1> QED BY <1>3, <1>4, <1>5 DEF Heap!TypeOK

LEMMA InvImpliesTiling ==
    ASSUME Heap!HeapConstants, HeapInv
    PROVE  Heap!BlocksTile
  <1> DEFINE all == Heap!Holes \cup allocated
  <1>1. /\ all \subseteq AnyBlock /\ Tiles(all, nextBlock) /\ Heap!Holes \cap allocated = {}
        /\ nextBlock \in Nat
    BY RangeIs, InvType DEF HeapInv, HeapOK, Heap!Holes
  <1> HIDE DEF all
  <1>2. \A b \in all : b.at \in Nat /\ Heap!End(b) \in Nat /\ Heap!End(b) <= nextBlock
    BY <1>1, EndType DEF Tiles
  <1>3. \A b \in all : Heap!Units(b) \subseteq 0 .. nextBlock - 1
    BY <1>1, <1>2 DEF Heap!Units
  <1>4. ASSUME NEW a \in 0 .. nextBlock - 1 PROVE \E b \in all : a \in Heap!Units(b)
    <2>1. PICK b \in all : b.at <= a /\ a < Heap!End(b)
      BY <1>1 DEF Tiles
    <2>2. a \in Heap!Units(b)
      BY <1>1, <1>2, <2>1 DEF Heap!Units
    <2> QED BY <2>2
  <1>5. UNION {Heap!Units(b) : b \in all} = 0 .. nextBlock - 1
    BY <1>3, <1>4
  <1>6. ASSUME NEW b \in all, NEW c \in all, b # c PROVE Heap!Units(b) \cap Heap!Units(c) = {}
    <2>1. Heap!End(b) <= c.at \/ Heap!End(c) <= b.at
      BY <1>1, <1>6 DEF Tiles
    <2> QED BY <1>2, <2>1 DEF Heap!Units
  <1> QED BY <1>1, <1>5, <1>6 DEF Heap!BlocksTile, all

LEMMA InvImpliesMerged ==
    ASSUME Heap!HeapConstants, HeapInv
    PROVE  Heap!ListIsMerged
  <1>1. /\ InOrder(freeList, {}) /\ Len(freeList) \in Nat
        /\ \A i \in 1 .. Len(freeList) : freeList[i] \in AnyBlock
    BY RangeIs DEF HeapInv, HeapOK
  <1>2. ASSUME NEW i \in 1 .. Len(freeList) - 1 PROVE Heap!End(freeList[i]) < freeList[i + 1].at
    <2>1. i \in 1 .. Len(freeList) /\ i + 1 \in 1 .. Len(freeList) /\ i < i + 1
      BY <1>1
    <2>2. Heap!End(freeList[i]) <= freeList[i + 1].at /\ Heap!End(freeList[i]) # freeList[i + 1].at
      BY <1>1, <2>1 DEF InOrder
    <2>3. Heap!End(freeList[i]) \in Nat /\ freeList[i + 1].at \in Nat
      BY <1>1, <2>1, EndType
    <2> QED BY <2>2, <2>3
  <1> QED BY <1>2 DEF Heap!ListIsMerged

LEMMA InvImpliesLinks ==
    ASSUME Heap!HeapConstants, HeapInv
    PROVE  Heap!HolesHoldLinks
  BY DEF HeapInv, HeapOK, Heap!HolesHoldLinks, Heap!Holes

(* Induction over the natural numbers, for a set.                          *)
LEMMA NatSetInduction ==
    ASSUME NEW S, 0 \in S, \A n \in Nat : n \in S => n + 1 \in S
    PROVE  Nat \subseteq S
  <1> SUFFICES ASSUME Nat \ S # {} PROVE FALSE
    OBVIOUS
  <1>1. PICK n \in Nat \ S : \A m \in Nat \ S : n <= m
    BY LeastOfNat
  <1>2. n # 0 /\ n - 1 \in Nat /\ n - 1 \in S
    BY <1>1
  <1> QED BY <1>1, <1>2

LEMMA HeapConstantsHold == Heap!HeapConstants
  BY ProgramsAssumption

LEMMA HeapInvHolds == AnySpec => []HeapInv
  <1>1. AnyInit => HeapInv
    BY HeapConstantsHold, InitKeepsHeap DEF AnyInit
  <1>2. HeapInv /\ [AnyStep]_<<program, strings, parking, heap, vars>> => HeapInv'
    <2>1. [AnyStep]_<<program, strings, parking, heap, vars>> => [Heap!Next]_Heap!vars
      BY DEF AnyStep, StringStep, ParkingStep, ListStep, HeapStep, heap, Heap!vars
    <2> QED BY <2>1, HeapConstantsHold, NextKeepsHeap
  <1> QED BY <1>1, <1>2, PTL DEF AnySpec

(* No call of myMalloc.c gives a caller memory that another has, or loses  *)
(* any.                                                                    *)
THEOREM HeapAlwaysTiles == AnySpec => []BlocksTile
  <1>1. HeapInv => BlocksTile
    BY HeapConstantsHold, InvImpliesTiling DEF BlocksTile
  <1> QED BY <1>1, HeapInvHolds, PTL

(* returnBlock merges a block with both neighbours: free ones never touch. *)
THEOREM HeapAlwaysMerged == AnySpec => []ListIsMerged
  <1>1. HeapInv => ListIsMerged
    BY HeapConstantsHold, InvImpliesMerged DEF ListIsMerged
  <1> QED BY <1>1, HeapInvHolds, PTL

(* malloc leaves no free block that is too small for its link.             *)
THEOREM HeapAlwaysLinked == AnySpec => []HolesHoldLinks
  <1>1. HeapInv => HolesHoldLinks
    BY HeapConstantsHold, InvImpliesLinks DEF HolesHoldLinks
  <1> QED BY <1>1, HeapInvHolds, PTL

-----------------------------------------------------------------------------
(* The parking server.  The invariant: a thread between lock and unlock is *)
(* the one that tableLock names, and every thread is somewhere.            *)
ParkingInv ==
    /\ thread \in [Connection -> {"closed", "fgets", "invalid", "lock", "locked", "park",
                                 "unlock", "prompt"}]
    /\ tableLock \in Connection \cup {None}
    /\ Parking!LockHeldInside

(* A step of one thread that starts and ends outside, or inside.           *)
LEMMA ThreadMoves ==
    ASSUME ParkingInv, NEW c \in Connection, UNCHANGED tableLock,
           NEW l \in {"closed", "fgets", "invalid", "lock", "locked", "park", "unlock", "prompt"},
           thread' = [thread EXCEPT ![c] = l],
           thread[c] \in {"locked", "park", "unlock"} <=> l \in {"locked", "park", "unlock"}
    PROVE  ParkingInv'
  BY DEF ParkingInv, Parking!LockHeldInside

LEMMA ParkingNextKeepsInv ==
    ASSUME ParkingInv, NEW c \in Connection,
           \/ Parking!Connect(c) \/ Parking!Quit(c) \/ Parking!ReadCommand(c) \/ Parking!Handle(c)
    PROVE  ParkingInv'
  <1>1. CASE Parking!Connect(c)
    BY <1>1, ThreadMoves DEF Parking!Connect, Parking!Goto
  <1>2. CASE Parking!Quit(c)
    BY <1>2, ThreadMoves DEF Parking!Quit, Parking!Goto
  <1>3. CASE Parking!ReadCommand(c)
    <2>1. \E l \in {"invalid", "lock"} : thread' = [thread EXCEPT ![c] = l]
      BY <1>3 DEF Parking!ReadCommand, Parking!Goto
    <2> QED BY <1>3, <2>1, ThreadMoves DEF Parking!ReadCommand
  <1>4. CASE Parking!Reject(c)
    BY <1>4, ThreadMoves DEF Parking!Reject, Parking!Goto
  <1>5. CASE Parking!Lock(c)
    <2>1. /\ thread[c] = "lock" /\ tableLock = None /\ tableLock' = c
          /\ thread' = [thread EXCEPT ![c] = "locked"]
      BY <1>5 DEF Parking!Lock, Parking!Goto
    <2>2. \A d \in Connection : thread[d] \notin {"locked", "park", "unlock"}
      BY <2>1, ProgramsAssumption DEF ParkingInv, Parking!LockHeldInside, Parking!ParkingConstants
    <2> QED BY <2>1, <2>2 DEF ParkingInv, Parking!LockHeldInside
  <1>6. CASE Parking!CheckDuplicate(c)
    BY <1>6, ThreadMoves DEF Parking!CheckDuplicate, Parking!Answer, Parking!Goto
  <1>7. CASE Parking!Park(c)
    <2>1. thread[c] = "park" /\ thread' = [thread EXCEPT ![c] = "unlock"] /\ UNCHANGED tableLock
      BY <1>7 DEF Parking!Park, Parking!Answer, Parking!Goto
    <2> QED BY <2>1, ThreadMoves
  <1>8. CASE Parking!Leave(c)
    <2>1. thread[c] = "locked" /\ thread' = [thread EXCEPT ![c] = "unlock"] /\ UNCHANGED tableLock
      BY <1>8 DEF Parking!Leave, Parking!Answer, Parking!Goto
    <2> QED BY <2>1, ThreadMoves
  <1>9. CASE Parking!Show(c)
    <2>1. thread[c] = "locked" /\ thread' = [thread EXCEPT ![c] = "unlock"] /\ UNCHANGED tableLock
      BY <1>9 DEF Parking!Show, Parking!Answer, Parking!Goto
    <2> QED BY <2>1, ThreadMoves
  <1>10. CASE Parking!Unlock(c)
    <2>1. /\ thread[c] = "unlock" /\ tableLock' = None
          /\ thread' = [thread EXCEPT ![c] = "fgets"]
      BY <1>10 DEF Parking!Unlock, Parking!NextCommand, Parking!Goto
    <2>2. \A d \in Connection \ {c} : thread[d] \notin {"locked", "park", "unlock"}
      BY <2>1 DEF ParkingInv, Parking!LockHeldInside
    <2> QED BY <2>1, <2>2, ProgramsAssumption
            DEF ParkingInv, Parking!LockHeldInside, Parking!ParkingConstants
  <1>11. CASE Parking!Prompt(c)
    BY <1>11, ThreadMoves DEF Parking!Prompt, Parking!NextCommand, Parking!Goto
  <1> QED BY <1>1, <1>2, <1>3, <1>4, <1>5, <1>6, <1>7, <1>8, <1>9, <1>10, <1>11
          DEF Parking!Handle

LEMMA ParkingInvHolds == AnySpec => []ParkingInv
  <1>1. AnyInit => ParkingInv
    BY ProgramsAssumption
       DEF AnyInit, Parking!Init, ParkingInv, Parking!LockHeldInside, Parking!ParkingConstants
  <1>2. ParkingInv /\ [AnyStep]_<<program, strings, parking, heap, vars>> => ParkingInv'
    <2>1. ParkingInv /\ UNCHANGED parking => ParkingInv'
      BY DEF ParkingInv, Parking!LockHeldInside, parking
    <2>2. ParkingInv /\ ParkingStep => ParkingInv'
      BY ParkingNextKeepsInv DEF ParkingStep, Parking!Next
    <2> QED BY <2>1, <2>2 DEF AnyStep, StringStep, ListStep, HeapStep
  <1> QED BY <1>1, <1>2, PTL DEF AnySpec

(* The quotient that the fee is: enough hours for the stay, and not one    *)
(* too many.                                                               *)
LEMMA HoursBegun ==
    ASSUME NEW hour \in Nat \ {0}, NEW stay \in Nat
    PROVE  LET hours == (stay + hour - 1) \div hour
           IN  hours \in Nat /\ \A h \in Nat : h * hour >= stay <=> h >= hours
  <1> DEFINE x == stay + hour - 1
             hours == x \div hour
  <1>1. x \in Nat /\ x = stay + hour - 1
    OBVIOUS
  <1> HIDE DEF x
  <1>2. hours \in Nat /\ x % hour \in 0 .. hour - 1 /\ x = hour * hours + (x % hour)
    BY <1>1
  <1> HIDE DEF hours
  <1>3. ASSUME NEW h \in Nat, h >= hours PROVE h * hour >= stay
    <2>1. h - hours \in Nat /\ (h - hours) * hour \in Nat /\ hour * hours \in Nat
      BY <1>2, <1>3
    <2>2. h * hour = hour * hours + (h - hours) * hour
      BY <1>2, <2>1
    <2> QED BY <1>1, <1>2, <2>1, <2>2
  <1>4. ASSUME NEW h \in Nat, h < hours PROVE ~(h * hour >= stay)
    <2>1. hours - h - 1 \in Nat /\ (hours - h - 1) * hour \in Nat /\ h * hour \in Nat
      BY <1>2, <1>4
    <2>2. hour * hours = h * hour + hour + (hours - h - 1) * hour
      BY <1>2, <2>1
    <2>3. x >= h * hour + hour
      BY <1>1, <1>2, <2>1, <2>2
    <2> QED BY <1>1, <2>1, <2>3
  <1>5. \A h \in Nat : h * hour >= stay <=> h >= hours
    BY <1>2, <1>3, <1>4
  <1> QED BY <1>2, <1>5 DEF hours, x

LEMMA FeeIsFair ==
    ASSUME NEW stay \in Nat
    PROVE  Parking!Fee(stay) = Parking!Lot!Fee(stay) /\ Parking!Fee(stay) \in Nat
  <1>0. HOUR \in Nat \ {0} /\ MaxHours \in Nat
    BY ProgramsAssumption DEF Parking!ParkingConstants
  <1> DEFINE hours == (stay + HOUR - 1) \div HOUR
             enough == {h \in 0 .. MaxHours : h * HOUR >= stay} \cup {MaxHours}
             fee == IF hours > MaxHours THEN MaxHours ELSE hours
  <1>2. hours \in Nat /\ \A h \in Nat : h * HOUR >= stay <=> h >= hours
    BY <1>0, HoursBegun
  <1>3. Parking!Fee(stay) = fee
    BY DEF Parking!Fee
  <1>4. Parking!Lot!Fee(stay) = CHOOSE h \in enough : \A g \in enough : h <= g
    BY DEF Parking!Lot!Fee, Parking!Lot!Min
  <1> HIDE DEF hours
  <1>5. fee \in Nat /\ fee \in enough /\ \A g \in enough : fee <= g
    BY <1>0, <1>2
  <1>6. \A h \in enough : (\A g \in enough : h <= g) => h = fee
    <2>1. \A h \in enough : h \in Nat
      BY <1>0
    <2> HIDE DEF enough, fee
    <2> QED BY <1>5, <2>1
  <1> HIDE DEF enough, fee
  <1> QED BY <1>3, <1>4, <1>5, <1>6

LEMMA FeesAlwaysFair == Parking!FeesAreFair
  <1>1. \A n \in Int : \A stay \in 0 .. n : stay \in Nat
    OBVIOUS
  <1>2. HOUR * (MaxHours + 2) \in Int
    <2>1. HOUR \in Nat /\ MaxHours \in Nat
      BY ProgramsAssumption DEF Parking!ParkingConstants
    <2> QED BY <2>1
  <1> QED BY <1>1, <1>2, FeeIsFair DEF Parking!FeesAreFair

(* A thread of parkingServer.c touches the table with tableLock held, by   *)
(* every path through a command gives it back, and charges for the hours   *)
(* begun.                                                                  *)
THEOREM ParkingAlwaysSafe == AnySpec => []ParkingIsSafe
  <1>1. ParkingInv => ParkingIsSafe
    BY FeesAlwaysFair DEF ParkingInv, ParkingIsSafe
  <1> QED BY <1>1, ParkingInvHolds, PTL

-----------------------------------------------------------------------------
(* The listing of the parking server.  A loop from m to n has a value at   *)
(* every turn.                                                             *)
IsLoop(f, a, m, n, g) == f[m] = a /\ \A i \in m + 1 .. n : f[i] = g[i][f[i - 1]]

LEMMA LoopExists ==
    ASSUME NEW A, NEW a \in A, NEW m \in Nat, NEW n \in Nat, m <= n,
           NEW g \in [m .. n -> [A -> A]]
    PROVE  \E f \in [m .. n -> A] : IsLoop(f, a, m, n, g)
  <1> DEFINE Upto(k, f) == /\ f \in [m .. m + k -> A]
                           /\ f[m] = a /\ \A i \in m + 1 .. m + k : f[i] = g[i][f[i - 1]]
             S == {k \in Nat : m + k <= n => \E f : Upto(k, f)}
  <1>1. 0 \in S
    <2>1. m + 0 = m
      OBVIOUS
    <2>2. Upto(0, [i \in m .. m |-> a])
      BY <2>1
    <2> QED BY <2>2
  <1>2. ASSUME NEW k \in Nat, k \in S PROVE k + 1 \in S
    <2> SUFFICES ASSUME m + (k + 1) <= n PROVE \E f : Upto(k + 1, f)
      OBVIOUS
    <2>1. m + k <= n
      OBVIOUS
    <2>2. PICK f : Upto(k, f)
      BY <1>2, <2>1
    <2> DEFINE z == m + (k + 1)
               h == [i \in m .. z |-> IF i = z THEN g[z][f[m + k]] ELSE f[i]]
    <2>3. z \in Nat /\ z - 1 = m + k /\ z \in m .. n /\ m + k \in m .. m + k
          /\ \A i \in m .. z : i = z \/ i \in m .. m + k
      OBVIOUS
    <2>4. g[z] \in [A -> A] /\ f[m + k] \in A
      BY <2>2, <2>3
    <2> HIDE DEF z
    <2>5. h \in [m .. z -> A]
      BY <2>2, <2>3, <2>4
    <2>6. h[m] = a
      <3>1. m \in m .. m + k /\ m # z /\ m \in m .. z
        BY <2>3
      <3> QED BY <2>2, <3>1
    <2>7. ASSUME NEW i \in m + 1 .. z PROVE h[i] = g[i][h[i - 1]]
      <3>1. i - 1 \in m .. z /\ i - 1 # z /\ i \in m .. z
        BY <2>3
      <3>2. CASE i = z
        BY <2>3, <3>1, <3>2
      <3>3. CASE i # z
        <4>1. i \in m + 1 .. m + k
          BY <2>3, <3>3
        <4> QED BY <2>2, <3>1, <3>3, <4>1
      <3> QED BY <3>2, <3>3
    <2>8. Upto(k + 1, h)
      BY <2>5, <2>6, <2>7 DEF z
    <2> QED BY <2>8
  <1> HIDE DEF S
  <1>3. n - m \in S
    <2>1. n - m \in Nat
      OBVIOUS
    <2> QED BY <1>1, <1>2, <2>1, NatSetInduction
  <1>4. \E f : Upto(n - m, f)
    <2>1. n - m \in Nat /\ m + (n - m) <= n
      OBVIOUS
    <2> QED BY <1>3, <2>1 DEF S
  <1>5. m + (n - m) = n
    OBVIOUS
  <1> QED BY <1>4, <1>5 DEF IsLoop

LEMMA ParkingAssumption ==
    /\ Time \subseteq Nat /\ parkingCapacity \in Nat
    /\ HOUR \in Nat \ {0} /\ MaxHours \in Nat
  BY ProgramsAssumption DEF Parking!ParkingConstants

(* A listing is a sequence without repetition.                             *)
Row == [plate : Plate, arrivalTime : Time]
Distinct(s) == \A i, j \in 1 .. Len(s) : s[i] = s[j] => i = j

(* What exchanging may do to a sequence from position i on.                *)
Shuffled(s, t, i) ==
    /\ t \in Seq(Row) /\ Len(t) = Len(s) /\ Distinct(t)
    /\ \A k \in 1 .. Len(s) : k < i => t[k] = s[k]
    /\ \A k \in 1 .. Len(s) : i <= k => \E l \in 1 .. Len(s) : i <= l /\ t[k] = s[l]

LEMMA ShuffledAgain ==
    ASSUME NEW s, Len(s) \in Nat, NEW t, NEW u, NEW i \in Nat, Shuffled(s, t, i), Shuffled(t, u, i)
    PROVE  Shuffled(s, u, i)
  <1>1. \A k \in 1 .. Len(s) : k < i => u[k] = s[k]
    BY DEF Shuffled
  <1>2. ASSUME NEW k \in 1 .. Len(s), i <= k
        PROVE  \E l \in 1 .. Len(s) : i <= l /\ u[k] = s[l]
    <2>1. PICK l \in 1 .. Len(s) : i <= l /\ u[k] = t[l]
      BY <1>2 DEF Shuffled
    <2> QED BY <2>1 DEF Shuffled
  <1>3. u \in Seq(Row) /\ Len(u) = Len(s) /\ Distinct(u)
    BY DEF Shuffled
  <1> QED BY <1>1, <1>2, <1>3 DEF Shuffled

LEMMA ExchangeShuffles ==
    ASSUME NEW s \in Seq(Row), Distinct(s), NEW i \in 1 .. Len(s), NEW j \in i + 1 .. Len(s)
    PROVE  LET t == Parking!Exchange(s, i, j)
           IN  /\ Shuffled(s, t, i)
               /\ t[i].arrivalTime <= t[j].arrivalTime
               /\ t[i].arrivalTime <= s[i].arrivalTime
               /\ \A k \in 1 .. Len(s) : k # i /\ k # j => t[k] = s[k]
  <1>0. /\ Len(s) \in Nat /\ j \in 1 .. Len(s) /\ i # j /\ i <= j
        /\ \A k \in 1 .. Len(s) : s[k] \in Row
        /\ \A k \in 1 .. Len(s) : s[k].arrivalTime \in Nat
    <2>1. Len(s) \in Nat
      BY LenProperties
    <2>2. \A k \in 1 .. Len(s) : s[k] \in Row
      BY ElementOfSeq
    <2>3. \A k \in 1 .. Len(s) : s[k].arrivalTime \in Nat
      BY <2>2, ParkingAssumption DEF Row
    <2> QED BY <2>1, <2>2, <2>3
  <1>1. CASE s[j].arrivalTime < s[i].arrivalTime
    <2> DEFINE t == [s EXCEPT ![i] = s[j], ![j] = s[i]]
    <2>1. Parking!Exchange(s, i, j) = t
      BY <1>1 DEF Parking!Exchange
    <2>2. /\ t \in Seq(Row) /\ Len(t) = Len(s) /\ t[i] = s[j] /\ t[j] = s[i]
          /\ \A k \in 1 .. Len(s) : k # i /\ k # j => t[k] = s[k]
      BY <1>0
    <2> HIDE DEF t
    <2>3. Distinct(t)
      BY <1>0, <2>2 DEF Distinct
    <2>4. Shuffled(s, t, i)
      <3>1. ASSUME NEW k \in 1 .. Len(s), i <= k
            PROVE  \E l \in 1 .. Len(s) : i <= l /\ t[k] = s[l]
        BY <1>0, <2>2, <3>1
      <3>2. ASSUME NEW k \in 1 .. Len(s), k < i PROVE t[k] = s[k]
        BY <1>0, <2>2, <3>2
      <3> QED BY <2>2, <2>3, <3>1, <3>2 DEF Shuffled
    <2> QED BY <1>0, <1>1, <2>1, <2>2, <2>4
  <1>2. CASE ~(s[j].arrivalTime < s[i].arrivalTime)
    <2>1. Parking!Exchange(s, i, j) = s
      BY <1>2 DEF Parking!Exchange
    <2> QED BY <1>0, <1>2, <2>1 DEF Shuffled
  <1> QED BY <1>1, <1>2

(* The inner loop moves the earliest row from position i on to i.          *)
LEMMA ComparedPutsFirst ==
    ASSUME NEW s \in Seq(Row), Distinct(s), NEW i \in 1 .. Len(s)
    PROVE  LET t == Parking!Compared(s, i)
           IN  /\ Shuffled(s, t, i)
               /\ \A k \in i .. Len(s) : t[i].arrivalTime <= t[k].arrivalTime
  <1> DEFINE n == Len(s)
             A == {x \in Seq(Row) : Len(x) = n /\ Distinct(x)}
             Turn(x, j) == IF j = i THEN s ELSE Parking!Exchange(x, i, j)
             g == [j \in i .. n |-> [x \in A |-> Turn(x, j)]]
             After(f) == [j \in i .. n |-> Turn(f[j - 1], j)]
             F == CHOOSE f : f = After(f)
  <1>0. n \in Nat /\ i \in Nat /\ i <= n /\ 1 <= i /\ s \in A
    BY LenProperties
  <1>1. ASSUME NEW x \in A, NEW j \in i + 1 .. n
        PROVE  /\ Parking!Exchange(x, i, j) \in A
               /\ Shuffled(x, Parking!Exchange(x, i, j), i)
               /\ Parking!Exchange(x, i, j)[i].arrivalTime <= Parking!Exchange(x, i, j)[j].arrivalTime
               /\ Parking!Exchange(x, i, j)[i].arrivalTime <= x[i].arrivalTime
               /\ \A k \in 1 .. n : k # i /\ k # j => Parking!Exchange(x, i, j)[k] = x[k]
    <2>1. i \in 1 .. Len(x) /\ j \in i + 1 .. Len(x) /\ Len(x) = n
      BY <1>0
    <2> HIDE DEF n
    <2>2. /\ Shuffled(x, Parking!Exchange(x, i, j), i)
          /\ Parking!Exchange(x, i, j)[i].arrivalTime <= Parking!Exchange(x, i, j)[j].arrivalTime
          /\ Parking!Exchange(x, i, j)[i].arrivalTime <= x[i].arrivalTime
          /\ \A k \in 1 .. Len(x) : k # i /\ k # j => Parking!Exchange(x, i, j)[k] = x[k]
      BY <2>1, ExchangeShuffles
    <2>3. Parking!Exchange(x, i, j) \in A
      BY <2>1, <2>2 DEF Shuffled
    <2> QED BY <2>1, <2>2, <2>3
  <1> HIDE DEF A
  <1>2. F = After(F)
    <2>1. g \in [i .. n -> [A -> A]]
      <3>1. \A x \in A, j \in i .. n : Turn(x, j) \in A
        <4> SUFFICES ASSUME NEW x \in A, NEW j \in i .. n PROVE Turn(x, j) \in A
          OBVIOUS
        <4>1. CASE j = i
          BY <1>0, <4>1
        <4>2. CASE j # i
          <5>1. j \in i + 1 .. n
            BY <1>0, <4>2
          <5> QED BY <1>1, <4>2, <5>1
        <4> QED BY <4>1, <4>2
      <3> HIDE DEF Turn
      <3> QED BY <3>1
    <2>2. PICK f \in [i .. n -> A] : f[i] = s /\ \A j \in i + 1 .. n : f[j] = g[j][f[j - 1]]
      <3>1. i \in Nat /\ n \in Nat /\ i <= n /\ s \in A /\ g \in [i .. n -> [A -> A]]
        BY <1>0, <2>1
      <3> HIDE DEF g, n, After, F, Turn
      <3>2. \E f \in [i .. n -> A] : IsLoop(f, s, i, n, g)
        BY <3>1, LoopExists
      <3> QED BY <3>2 DEF IsLoop
    <2>3. ASSUME NEW j \in i .. n PROVE f[j] = Turn(f[j - 1], j)
      <3>1. CASE j = i
        BY <2>2, <3>1
      <3>2. CASE j # i
        <4>1. j \in i + 1 .. n /\ j - 1 \in i .. n
          BY <1>0, <3>2
        <4>2. f[j - 1] \in A
          BY <2>2, <4>1
        <4> HIDE DEF Turn, n
        <4> QED BY <2>2, <4>1, <4>2
      <3> QED BY <3>1, <3>2
    <2> HIDE DEF Turn, n
    <2>4. f = After(f)
      BY <2>2, <2>3
    <2>5. F = CHOOSE h : h = After(h)
      OBVIOUS
    <2> HIDE DEF After, F
    <2> QED BY <2>4, <2>5
  <1>3. Parking!Compared(s, i) = F[n]
    BY DEF Parking!Compared
  <1>4. \A j \in i .. n : F[j] = Turn(F[j - 1], j)
    <2> HIDE DEF F, Turn
    <2> QED BY <1>2
  <1> DEFINE First(j) == /\ F[j] \in A /\ Shuffled(s, F[j], i)
                         /\ \A k \in i .. j : F[j][i].arrivalTime <= F[j][k].arrivalTime
             S == {k \in Nat : i + k <= n => First(i + k)}
  <1>6. 0 \in S
    <2>1. i + 0 = i /\ i \in i .. n /\ \A k \in i .. i : k = i
      BY <1>0
    <2>2. F[i] = s
      BY <1>4, <2>1
    <2>3. Shuffled(s, s, i)
      BY <1>0 DEF Shuffled, A
    <2>4. s[i].arrivalTime <= s[i].arrivalTime
      <3>1. s[i].arrivalTime \in Nat
        <4>1. s[i] \in Row
          BY ElementOfSeq
        <4> QED BY <4>1, ParkingAssumption DEF Row
      <3> QED BY <3>1
    <2> HIDE DEF F
    <2> QED BY <1>0, <2>1, <2>2, <2>3, <2>4
  <1>7. ASSUME NEW k \in Nat, k \in S PROVE k + 1 \in S
    <2> SUFFICES ASSUME i + (k + 1) <= n PROVE First(i + (k + 1))
      OBVIOUS
    <2> DEFINE x == F[i + k]
               y == F[i + (k + 1)]
               j == i + (k + 1)
    <2>1. /\ j \in i + 1 .. n /\ j \in i .. n /\ j # i /\ j - 1 = i + k /\ i + k <= n
          /\ i \in 1 .. n /\ j \in 1 .. n /\ i \in i .. i + k
      BY <1>0
    <2>2. First(i + k)
      BY <1>7, <2>1
    <2>3. y = Parking!Exchange(x, i, j)
      BY <1>4, <2>1
    <2> HIDE DEF F, j, n
    <2>4. x \in A /\ Shuffled(s, x, i) /\ \A l \in i .. i + k : x[i].arrivalTime <= x[l].arrivalTime
      BY <2>2
    <2>5. /\ y \in A /\ Shuffled(x, y, i)
          /\ y[i].arrivalTime <= y[j].arrivalTime /\ y[i].arrivalTime <= x[i].arrivalTime
          /\ \A l \in 1 .. n : l # i /\ l # j => y[l] = x[l]
      BY <1>1, <2>1, <2>3, <2>4
    <2>6. Shuffled(s, y, i)
      BY <1>0, <2>4, <2>5, ShuffledAgain DEF n
    <2>7. \A l \in 1 .. n : x[l].arrivalTime \in Nat /\ y[l].arrivalTime \in Nat
      <3>1. \A z \in A : \A l \in 1 .. n : z[l] \in Row
        BY ElementOfSeq DEF A
      <3> QED BY <2>4, <2>5, <3>1, ParkingAssumption DEF Row
    <2>8. ASSUME NEW l \in i .. j PROVE y[i].arrivalTime <= y[l].arrivalTime
      <3>1. l \in 1 .. n
        BY <1>0, <2>1
      <3>2. CASE l = i
        BY <2>1, <2>7, <3>2
      <3>3. CASE l = j
        BY <2>5, <3>3
      <3>4. CASE l # i /\ l # j
        <4>1. l \in i .. i + k
          BY <1>0, <2>1, <3>4
        <4>2. y[l] = x[l] /\ x[i].arrivalTime <= x[l].arrivalTime
          BY <2>4, <2>5, <3>1, <3>4, <4>1
        <4> QED BY <2>1, <2>5, <2>7, <3>1, <4>2
      <3> QED BY <3>2, <3>3, <3>4
    <2> QED BY <2>5, <2>6, <2>8 DEF j
  <1>8. First(n)
    <2>1. n - i \in Nat /\ i + (n - i) <= n /\ i + (n - i) = n
      BY <1>0
    <2> HIDE DEF S
    <2>2. n - i \in S
      BY <1>6, <1>7, <2>1, NatSetInduction
    <2> HIDE DEF First
    <2> QED BY <2>1, <2>2 DEF S
  <1> QED BY <1>3, <1>8

(* The outer loop: after its round i the first i rows are in place.        *)
InPlace(t, i) ==
    \A k, l \in 1 .. Len(t) : k <= i /\ k < l => t[k].arrivalTime <= t[l].arrivalTime

LEMMA RoundPutsNext ==
    ASSUME NEW s, NEW t, NEW i \in 1 .. Len(s), Len(s) \in Nat,
           Shuffled(s, t, i), InPlace(s, i - 1),
           \A k \in i .. Len(s) : t[i].arrivalTime <= t[k].arrivalTime
    PROVE  InPlace(t, i) /\ Shuffled(s, t, 1)
  <1>0. Len(t) = Len(s) /\ i \in Nat
    BY DEF Shuffled
  <1>1. ASSUME NEW k \in 1 .. Len(s), NEW l \in 1 .. Len(s), k <= i, k < l
        PROVE  t[k].arrivalTime <= t[l].arrivalTime
    <2>1. CASE k = i
      <3>1. l \in i .. Len(s)
        BY <1>0, <1>1, <2>1
      <3> QED BY <2>1, <3>1
    <2>2. CASE k # i /\ l < i
      <3>0. k < i /\ k <= i - 1
        BY <1>0, <1>1, <2>2
      <3>1. t[k] = s[k] /\ t[l] = s[l] /\ k <= i - 1
        BY <2>2, <3>0 DEF Shuffled
      <3> QED BY <1>1, <3>1 DEF InPlace
    <2>3. CASE k # i /\ ~(l < i)
      <3>0. k \in Int /\ l \in Int /\ i \in Int
        BY <1>0
      <3>1. i <= l /\ k < i /\ k <= i - 1
        BY <1>1, <2>3, <3>0
      <3>2. PICK m \in 1 .. Len(s) : i <= m /\ t[l] = s[m]
        BY <3>1 DEF Shuffled
      <3>3. t[k] = s[k]
        BY <3>1 DEF Shuffled
      <3>4. k < m
        BY <1>0, <3>1, <3>2
      <3> QED BY <3>1, <3>2, <3>3, <3>4 DEF InPlace
    <2> QED BY <2>1, <2>2, <2>3
  <1>2. InPlace(t, i)
    BY <1>0, <1>1 DEF InPlace
  <1>3. ASSUME NEW k \in 1 .. Len(s) PROVE \E l \in 1 .. Len(s) : 1 <= l /\ t[k] = s[l]
    <2>1. CASE k < i
      BY <2>1 DEF Shuffled
    <2>2. CASE i <= k
      <3>1. PICK l \in 1 .. Len(s) : i <= l /\ t[k] = s[l]
        BY <2>2 DEF Shuffled
      <3> QED BY <3>1
    <2> QED BY <1>0, <2>1, <2>2
  <1>4. Shuffled(s, t, 1)
    BY <1>3 DEF Shuffled
  <1> QED BY <1>2, <1>4

LEMMA SortedSorts ==
    ASSUME NEW s \in Seq(Row), Distinct(s)
    PROVE  /\ Shuffled(s, Parking!Sorted(s), 1)
           /\ InPlace(Parking!Sorted(s), Len(s))
  <1> DEFINE n == Len(s)
             A == {x \in Seq(Row) : Len(x) = n /\ Distinct(x)}
             Turn(x, i) == IF i = 0 THEN s ELSE Parking!Compared(x, i)
             g == [i \in 0 .. n |-> [x \in A |-> Turn(x, i)]]
             After(f) == [i \in 0 .. n |-> Turn(f[i - 1], i)]
             F == CHOOSE f : f = After(f)
  <1>0. n \in Nat /\ s \in A
    BY LenProperties
  <1>1. ASSUME NEW x \in A, NEW i \in 1 .. n
        PROVE  /\ Parking!Compared(x, i) \in A
               /\ InPlace(x, i - 1) =>
                    InPlace(Parking!Compared(x, i), i) /\ Shuffled(x, Parking!Compared(x, i), 1)
    <2>1. i \in 1 .. Len(x) /\ Len(x) = n /\ Distinct(x) /\ x \in Seq(Row)
      OBVIOUS
    <2> HIDE DEF n, A
    <2>2. /\ Shuffled(x, Parking!Compared(x, i), i)
          /\ \A k \in i .. Len(x) : Parking!Compared(x, i)[i].arrivalTime
                                      <= Parking!Compared(x, i)[k].arrivalTime
      BY <2>1, ComparedPutsFirst
    <2>3. Parking!Compared(x, i) \in A
      BY <2>1, <2>2 DEF Shuffled, A
    <2>4. Len(x) \in Nat
      BY <1>0, <2>1
    <2> QED BY <2>1, <2>2, <2>3, <2>4, RoundPutsNext
  <1> HIDE DEF A
  <1>2. F = After(F)
    <2>1. g \in [0 .. n -> [A -> A]]
      <3>1. \A x \in A, i \in 0 .. n : Turn(x, i) \in A
        <4> SUFFICES ASSUME NEW x \in A, NEW i \in 0 .. n PROVE Turn(x, i) \in A
          OBVIOUS
        <4>1. CASE i = 0
          BY <1>0, <4>1
        <4>2. CASE i # 0
          <5>1. i \in 1 .. n
            BY <1>0, <4>2
          <5> QED BY <1>1, <4>2, <5>1
        <4> QED BY <4>1, <4>2
      <3> HIDE DEF Turn
      <3> QED BY <3>1
    <2>2. PICK f \in [0 .. n -> A] : f[0] = s /\ \A i \in 0 + 1 .. n : f[i] = g[i][f[i - 1]]
      <3>1. 0 \in Nat /\ n \in Nat /\ 0 <= n /\ s \in A /\ g \in [0 .. n -> [A -> A]]
        BY <1>0, <2>1
      <3> HIDE DEF g, n, After, F, Turn
      <3>2. \E f \in [0 .. n -> A] : IsLoop(f, s, 0, n, g)
        BY <3>1, LoopExists
      <3> QED BY <3>2 DEF IsLoop
    <2>3. ASSUME NEW i \in 0 .. n PROVE f[i] = Turn(f[i - 1], i)
      <3>1. CASE i = 0
        BY <2>2, <3>1
      <3>2. CASE i # 0
        <4>1. i \in 0 + 1 .. n /\ i - 1 \in 0 .. n
          BY <1>0, <3>2
        <4>2. f[i - 1] \in A
          BY <2>2, <4>1
        <4> HIDE DEF Turn, n
        <4> QED BY <2>2, <4>1, <4>2
      <3> QED BY <3>1, <3>2
    <2> HIDE DEF Turn, n
    <2>4. f = After(f)
      BY <2>2, <2>3
    <2>5. F = CHOOSE h : h = After(h)
      OBVIOUS
    <2> HIDE DEF After, F
    <2> QED BY <2>4, <2>5
  <1>3. Parking!Sorted(s) = F[n]
    BY DEF Parking!Sorted
  <1>4. \A i \in 0 .. n : F[i] = Turn(F[i - 1], i)
    <2> HIDE DEF F, Turn
    <2> QED BY <1>2
  <1> DEFINE Done(i) == F[i] \in A /\ Shuffled(s, F[i], 1) /\ InPlace(F[i], i)
             S == {i \in Nat : i <= n => Done(i)}
  <1>5. 0 \in S
    <2>1. F[0] = s
      BY <1>0, <1>4
    <2>2. Shuffled(s, s, 1)
      BY <1>0 DEF Shuffled, A
    <2>3. InPlace(s, 0)
      BY <1>0 DEF InPlace
    <2> HIDE DEF F
    <2> QED BY <1>0, <2>1, <2>2, <2>3
  <1>6. ASSUME NEW i \in Nat, i \in S PROVE i + 1 \in S
    <2> SUFFICES ASSUME i + 1 <= n PROVE Done(i + 1)
      OBVIOUS
    <2>1. i + 1 \in 1 .. n /\ i + 1 \in 0 .. n /\ i + 1 # 0 /\ (i + 1) - 1 = i /\ i <= n
      BY <1>0
    <2>2. Done(i)
      BY <1>6, <2>1
    <2>3. F[i + 1] = Parking!Compared(F[i], i + 1)
      BY <1>4, <2>1
    <2> HIDE DEF F, n
    <2>4. /\ F[i + 1] \in A /\ InPlace(F[i + 1], i + 1)
          /\ Shuffled(F[i], F[i + 1], 1)
      BY <1>1, <2>1, <2>2, <2>3
    <2>5. Shuffled(s, F[i + 1], 1)
      <3>1. 1 \in Nat /\ Len(s) \in Nat
        BY <1>0 DEF n
      <3> QED BY <2>2, <2>4, <3>1, ShuffledAgain
    <2> QED BY <2>4, <2>5
  <1>7. Done(n)
    <2> HIDE DEF S
    <2>1. n \in S
      BY <1>0, <1>5, <1>6, NatSetInduction
    <2> HIDE DEF Done
    <2> QED BY <1>0, <2>1 DEF S
  <1> QED BY <1>3, <1>7

(* What the table means: at most one slot has a plate, and the lot has the *)
(* arrivals of the slots in use.                                           *)
TableOK ==
    /\ parkingTable \in [Parking!Slot -> Parking!Record \cup {Parking!EmptySlot}]
    /\ \A i, j \in Parking!Occupied : parkingTable[i].plate = parkingTable[j].plate => i = j

Fits(f) ==
    /\ f = [p \in DOMAIN f |-> f[p]]
    /\ DOMAIN f = {parkingTable[i].plate : i \in Parking!Occupied}
    /\ \A i \in Parking!Occupied : f[parkingTable[i].plate] = parkingTable[i].arrivalTime

LEMMA OccupiedSlot ==
    TableOK => \A i \in Parking!Slot :
        /\ i \in Parking!Occupied => parkingTable[i] \in Parking!Record
        /\ i \in Parking!Occupied <=> parkingTable[i].occupied
        /\ i \notin Parking!Occupied => parkingTable[i] = Parking!EmptySlot
  <1> SUFFICES ASSUME TableOK, NEW i \in Parking!Slot
               PROVE  /\ i \in Parking!Occupied => parkingTable[i] \in Parking!Record
                      /\ i \in Parking!Occupied <=> parkingTable[i].occupied
                      /\ i \notin Parking!Occupied => parkingTable[i] = Parking!EmptySlot
    OBVIOUS
  <1>1. i \in Parking!Occupied <=> parkingTable[i].occupied
    BY DEF Parking!Occupied
  <1>2. parkingTable[i] \in Parking!Record \cup {Parking!EmptySlot}
    BY DEF TableOK
  <1>3. \A r \in Parking!Record : r.occupied = TRUE
    BY DEF Parking!Record
  <1>4. Parking!EmptySlot.occupied = FALSE
    BY DEF Parking!EmptySlot
  <1> QED BY <1>1, <1>2, <1>3, <1>4

LEMMA ParkedIsOne ==
    TableOK => \A i \in Parking!Occupied :
        /\ Parking!Parked(parkingTable[i].plate) = {i}
        /\ Parking!First({i}) = i
  <1> SUFFICES ASSUME TableOK, NEW i \in Parking!Occupied
               PROVE  /\ Parking!Parked(parkingTable[i].plate) = {i}
                      /\ Parking!First({i}) = i
    OBVIOUS
  <1>1. Parking!Parked(parkingTable[i].plate) = {i}
    BY DEF TableOK, Parking!Parked
  <1>2. i <= i
    BY ParkingAssumption DEF Parking!Occupied, Parking!Slot
  <1>3. Parking!First({i}) = i
    BY <1>2 DEF Parking!First
  <1> QED BY <1>1, <1>3

LEMMA CarsFit == TableOK => Fits(Parking!Cars)
  <1> SUFFICES ASSUME TableOK PROVE Fits(Parking!Cars)
    OBVIOUS
  <1>1. DOMAIN Parking!Cars = {q \in Plate : Parking!Parked(q) # {}}
    BY DEF Parking!Cars
  <1>2. ASSUME NEW i \in Parking!Occupied
        PROVE  /\ parkingTable[i].plate \in DOMAIN Parking!Cars
               /\ Parking!Cars[parkingTable[i].plate] = parkingTable[i].arrivalTime
    <2>1. parkingTable[i].plate \in Plate
      BY OccupiedSlot DEF Parking!Occupied, Parking!Record
    <2>2. Parking!Parked(parkingTable[i].plate) = {i} /\ Parking!First({i}) = i
      BY ParkedIsOne
    <2> QED BY <1>1, <2>1, <2>2 DEF Parking!Cars, Parking!Arrival
  <1>3. \A p \in DOMAIN Parking!Cars : \E i \in Parking!Occupied : p = parkingTable[i].plate
    BY <1>1 DEF Parking!Parked
  <1>4. Parking!Cars = [p \in DOMAIN Parking!Cars |-> Parking!Cars[p]]
    BY DEF Parking!Cars
  <1> QED BY <1>2, <1>3, <1>4 DEF Fits

LEMMA FitIsOne == \A f, h : Fits(f) /\ Fits(h) => f = h
  <1> SUFFICES ASSUME NEW f, NEW h, Fits(f), Fits(h) PROVE f = h
    OBVIOUS
  <1>1. DOMAIN f = DOMAIN h
    BY DEF Fits
  <1>2. \A p \in DOMAIN f : f[p] = h[p]
    BY DEF Fits
  <1>3. f = [p \in DOMAIN f |-> f[p]] /\ h = [p \in DOMAIN h |-> h[p]]
    BY DEF Fits
  <1> QED BY <1>1, <1>2, <1>3

LEMMA CarsAre == TableOK => \A f : Fits(f) => Parking!Cars = f
  BY CarsFit, FitIsOne

LEMMA CarsAreNext == (TableOK => \A f : Fits(f) => Parking!Cars = f)'
  BY CarsAre, PTL

(* As many plates, and as many rows, as slots in use.                      *)
LEMMA OneToOne ==
    ASSUME NEW S, NEW T, IsFiniteSet(S), NEW f \in [S -> T],
           \A x, y \in S : f[x] = f[y] => x = y, \A z \in T : \E x \in S : f[x] = z
    PROVE  IsFiniteSet(T) /\ Cardinality(T) = Cardinality(S)
  <1>1. ExistsBijection(S, T)
    BY DEF ExistsBijection, Bijection, Injection, Surjection, IsInjective
  <1> QED BY <1>1, FS_Bijection

Rows == {[plate |-> p, arrivalTime |-> Parking!Cars[p]] : p \in DOMAIN Parking!Cars}
RowOf(i) == [plate |-> parkingTable[i].plate, arrivalTime |-> parkingTable[i].arrivalTime]

LEMMA SlotsFinite ==
    /\ IsFiniteSet(Parking!Slot) /\ Cardinality(Parking!Slot) = parkingCapacity
    /\ IsFiniteSet(Parking!Occupied) /\ Parking!Occupied \subseteq Parking!Slot
  <1>1. IsFiniteSet(Parking!Slot) /\ Cardinality(Parking!Slot) = parkingCapacity
    BY FS_Interval, ParkingAssumption DEF Parking!Slot
  <1>2. Parking!Occupied \subseteq Parking!Slot
    BY DEF Parking!Occupied
  <1> QED BY <1>1, <1>2, FS_Subset

LEMMA CarsCounted ==
    TableOK => /\ IsFiniteSet(DOMAIN Parking!Cars)
               /\ Cardinality(DOMAIN Parking!Cars) = Cardinality(Parking!Occupied)
               /\ Cardinality(Rows) = Cardinality(Parking!Occupied)
               /\ Rows = {RowOf(i) : i \in Parking!Occupied}
  <1> SUFFICES ASSUME TableOK
               PROVE  /\ IsFiniteSet(DOMAIN Parking!Cars)
                      /\ Cardinality(DOMAIN Parking!Cars) = Cardinality(Parking!Occupied)
                      /\ Cardinality(Rows) = Cardinality(Parking!Occupied)
                      /\ Rows = {RowOf(i) : i \in Parking!Occupied}
    OBVIOUS
  <1>1. Fits(Parking!Cars)
    BY CarsFit
  <1> DEFINE f == [i \in Parking!Occupied |-> parkingTable[i].plate]
             g == [i \in Parking!Occupied |-> RowOf(i)]
  <1>2. IsFiniteSet(DOMAIN Parking!Cars)
        /\ Cardinality(DOMAIN Parking!Cars) = Cardinality(Parking!Occupied)
    <2>1. f \in [Parking!Occupied -> DOMAIN Parking!Cars]
      BY <1>1 DEF Fits
    <2>2. \A x, y \in Parking!Occupied : f[x] = f[y] => x = y
      BY DEF TableOK
    <2>3. \A z \in DOMAIN Parking!Cars : \E x \in Parking!Occupied : f[x] = z
      BY <1>1 DEF Fits
    <2> HIDE DEF f
    <2> QED BY <2>1, <2>2, <2>3, OneToOne, SlotsFinite
  <1>3. Rows = {RowOf(i) : i \in Parking!Occupied}
    BY <1>1 DEF Fits, Rows, RowOf
  <1>4. Cardinality(Rows) = Cardinality(Parking!Occupied)
    <2>1. g \in [Parking!Occupied -> Rows]
      BY <1>3
    <2>2. \A x, y \in Parking!Occupied : g[x] = g[y] => x = y
      <3>1. \A x, y \in Parking!Occupied :
              RowOf(x) = RowOf(y) => parkingTable[x].plate = parkingTable[y].plate
        BY DEF RowOf
      <3> QED BY <3>1 DEF TableOK
    <2>3. \A z \in Rows : \E x \in Parking!Occupied : g[x] = z
      BY <1>3
    <2> HIDE DEF g
    <2> QED BY <2>1, <2>2, <2>3, OneToOne, SlotsFinite
  <1> QED BY <1>2, <1>3, <1>4

(* The copy has a row for every slot in use.                               *)
Upto(k) == {i \in Parking!Occupied : i <= k}

CopyOf(l, k) ==
    /\ l \in Seq(Row) /\ Distinct(l)
    /\ Len(l) = Cardinality(Upto(k))
    /\ \A m \in 1 .. Len(l) : \E i \in Upto(k) : l[m] = RowOf(i)

LEMMA CopyAppends ==
    ASSUME TableOK, NEW k \in Nat, k + 1 \in Parking!Occupied, NEW l, CopyOf(l, k)
    PROVE  CopyOf(Append(l, RowOf(k + 1)), k + 1)
  <1> DEFINE r == RowOf(k + 1)
  <1>1. PICK t : t = Append(l, r)
    OBVIOUS
  <1>2. r \in Row
    BY OccupiedSlot, SlotsFinite DEF RowOf, Row, Parking!Record
  <1>3. l \in Seq(Row) /\ Len(l) \in Nat
    BY LenProperties DEF CopyOf
  <1>4. /\ t \in Seq(Row) /\ Len(t) = Len(l) + 1 /\ t[Len(t)] = r
        /\ \A m \in 1 .. Len(l) : t[m] = l[m]
    <2> HIDE DEF r
    <2> QED BY <1>1, <1>2, <1>3
  <1>5. Upto(k + 1) = Upto(k) \cup {k + 1} /\ k + 1 \notin Upto(k)
    <2>1. \A i \in Parking!Occupied : i \in Int
      BY DEF Parking!Occupied, Parking!Slot
    <2> QED BY <2>1 DEF Upto
  <1>6. Cardinality(Upto(k + 1)) = Cardinality(Upto(k)) + 1
    <2>1. IsFiniteSet(Upto(k))
      <3>1. Upto(k) \in SUBSET Parking!Occupied
        BY DEF Upto
      <3> QED BY <3>1, SlotsFinite, FS_Subset
    <2> QED BY <1>5, <2>1, FS_AddElement
  <1>7. \A i \in Upto(k) : RowOf(i) # r
    <2>1. \A i \in Upto(k) : i \in Parking!Occupied /\ i # k + 1
      BY <1>5 DEF Upto
    <2>2. \A x, y : RowOf(x) = RowOf(y) => parkingTable[x].plate = parkingTable[y].plate
      BY DEF RowOf
    <2> QED BY <2>1, <2>2 DEF TableOK
  <1> HIDE DEF r
  <1>8. \A m \in 1 .. Len(l) : t[m] # r
    BY <1>4, <1>7 DEF CopyOf
  <1>9. Distinct(t)
    <2> SUFFICES ASSUME NEW x \in 1 .. Len(t), NEW y \in 1 .. Len(t), t[x] = t[y] PROVE x = y
      BY DEF Distinct
    <2>1. (x \in 1 .. Len(l) \/ x = Len(t)) /\ (y \in 1 .. Len(l) \/ y = Len(t))
      BY <1>3, <1>4
    <2> QED BY <1>4, <1>8, <2>1 DEF CopyOf, Distinct
  <1>10. ASSUME NEW m \in 1 .. Len(t) PROVE \E i \in Upto(k + 1) : t[m] = RowOf(i)
    <2>1. CASE m \in 1 .. Len(l)
      BY <1>4, <1>5, <2>1 DEF CopyOf
    <2>2. CASE m = Len(t)
      BY <1>4, <1>5, <2>2 DEF r
    <2> QED BY <1>3, <1>4, <2>1, <2>2
  <1>11. CopyOf(t, k + 1)
    BY <1>3, <1>4, <1>6, <1>9, <1>10 DEF CopyOf
  <1> QED BY <1>1, <1>11 DEF r

LEMMA CopyLists == TableOK => CopyOf(Parking!Copy, parkingCapacity)
  <1> SUFFICES ASSUME TableOK PROVE CopyOf(Parking!Copy, parkingCapacity)
    OBVIOUS
  <1> DEFINE n == parkingCapacity
             A == Seq(Row)
             Turn(x, i) == IF i = 0 THEN <<>>
                           ELSE IF parkingTable[i].occupied
                                  THEN Append(x, [plate |-> parkingTable[i].plate,
                                                  arrivalTime |-> parkingTable[i].arrivalTime])
                                  ELSE x
             g == [i \in 0 .. n |-> [x \in A |-> Turn(x, i)]]
             After(f) == [i \in 0 .. n |-> Turn(f[i - 1], i)]
             F == CHOOSE f : f = After(f)
  <1>0. n \in Nat /\ <<>> \in A
    BY ParkingAssumption
  <1>1. F = After(F)
    <2>1. g \in [0 .. n -> [A -> A]]
      <3>1. \A x \in A, i \in 0 .. n : Turn(x, i) \in A
        <4> SUFFICES ASSUME NEW x \in A, NEW i \in 0 .. n PROVE Turn(x, i) \in A
          OBVIOUS
        <4>1. CASE i = 0
          BY <1>0, <4>1
        <4>2. CASE i # 0 /\ parkingTable[i].occupied
          <5>1. i \in Parking!Slot
            BY <1>0, <4>2 DEF Parking!Slot
          <5>2. RowOf(i) \in Row
            BY <4>2, <5>1, OccupiedSlot DEF RowOf, Row, Parking!Record
          <5>3. Turn(x, i) = Append(x, RowOf(i))
            BY <4>2 DEF RowOf
          <5> HIDE DEF Turn
          <5> QED BY <5>2, <5>3
        <4>3. CASE i # 0 /\ ~parkingTable[i].occupied
          BY <4>3
        <4> QED BY <4>1, <4>2, <4>3
      <3> HIDE DEF Turn
      <3> QED BY <3>1
    <2>2. PICK f \in [0 .. n -> A] : f[0] = <<>> /\ \A i \in 0 + 1 .. n : f[i] = g[i][f[i - 1]]
      <3>1. 0 \in Nat /\ n \in Nat /\ 0 <= n /\ <<>> \in A /\ g \in [0 .. n -> [A -> A]]
        BY <1>0, <2>1
      <3> HIDE DEF g, n, After, F, Turn, A
      <3>2. \E f \in [0 .. n -> A] : IsLoop(f, <<>>, 0, n, g)
        BY <3>1, LoopExists
      <3> QED BY <3>2 DEF IsLoop
    <2>3. ASSUME NEW i \in 0 .. n PROVE f[i] = Turn(f[i - 1], i)
      <3>1. CASE i = 0
        BY <2>2, <3>1
      <3>2. CASE i # 0
        <4>1. i \in 0 + 1 .. n /\ i - 1 \in 0 .. n
          BY <1>0, <3>2
        <4>2. f[i - 1] \in A
          BY <2>2, <4>1
        <4> HIDE DEF Turn, n, A
        <4> QED BY <2>2, <4>1, <4>2
      <3> QED BY <3>1, <3>2
    <2> HIDE DEF Turn, n
    <2>4. f = After(f)
      BY <2>2, <2>3
    <2>5. F = CHOOSE h : h = After(h)
      OBVIOUS
    <2> HIDE DEF After, F
    <2> QED BY <2>4, <2>5
  <1>2. Parking!Copy = F[n]
    BY DEF Parking!Copy
  <1>3. \A i \in 0 .. n : F[i] = Turn(F[i - 1], i)
    <2> HIDE DEF F, Turn
    <2> QED BY <1>1
  <1> HIDE DEF F
  <1> DEFINE S == {i \in Nat : i <= n => CopyOf(F[i], i)}
  <1>4. 0 \in S
    <2>1. F[0] = <<>>
      <3>1. 0 \in 0 .. n
        BY <1>0
      <3>2. F[0] = Turn(F[0 - 1], 0)
        <4> HIDE DEF Turn
        <4> QED BY <1>3, <3>1
      <3> QED BY <3>2
    <2>2. Upto(0) = {}
      <3>1. \A i \in Parking!Occupied : i \in Int /\ i >= 1
        BY <1>0 DEF Parking!Occupied, Parking!Slot
      <3> QED BY <3>1 DEF Upto
    <2>3. CopyOf(<<>>, 0)
      BY <2>2, FS_EmptySet DEF CopyOf, Distinct
    <2> QED BY <2>1, <2>3
  <1>5. ASSUME NEW i \in Nat, i \in S PROVE i + 1 \in S
    <2> SUFFICES ASSUME i + 1 <= n PROVE CopyOf(F[i + 1], i + 1)
      OBVIOUS
    <2>1. i + 1 \in 0 .. n /\ i + 1 # 0 /\ (i + 1) - 1 = i /\ i <= n /\ i + 1 \in 1 .. n
      BY <1>0
    <2>2. CopyOf(F[i], i)
      BY <1>5, <2>1
    <2>3. F[i + 1] = Turn(F[i], i + 1)
      BY <1>3, <2>1
    <2>4. CASE parkingTable[i + 1].occupied
      <3>1. F[i + 1] = Append(F[i], RowOf(i + 1))
        BY <2>1, <2>3, <2>4 DEF RowOf
      <3>2. i + 1 \in Parking!Occupied
        BY <2>1, <2>4 DEF Parking!Occupied, Parking!Slot
      <3> QED BY <2>2, <3>1, <3>2, CopyAppends
    <2>5. CASE ~parkingTable[i + 1].occupied
      <3>1. F[i + 1] = F[i]
        BY <2>1, <2>3, <2>5
      <3>2. Upto(i + 1) = Upto(i)
        <4>1. \A j \in Parking!Occupied : j \in Int /\ j # i + 1
          BY <2>5 DEF Parking!Occupied, Parking!Slot
        <4> QED BY <4>1 DEF Upto
      <3> QED BY <2>2, <3>1, <3>2 DEF CopyOf
    <2> QED BY <2>4, <2>5
  <1>6. CopyOf(F[n], n)
    <2> HIDE DEF S
    <2>1. n \in S
      BY <1>0, <1>4, <1>5, NatSetInduction
    <2> QED BY <1>0, <2>1 DEF S
  <1> QED BY <1>2, <1>6

LEMMA SameCardinality == \A S : Parking!Lot!Cardinality(S) = Cardinality(S)
  BY DEF Parking!Lot!Cardinality, Cardinality

(* show answers with a listing of the lot.                                 *)
LEMMA ListingIsSorted == TableOK => Parking!Sorted(Parking!Copy) \in Parking!Lot!Listings
  <1> SUFFICES ASSUME TableOK PROVE Parking!Sorted(Parking!Copy) \in Parking!Lot!Listings
    OBVIOUS
  <1> DEFINE s == Parking!Copy
             t == Parking!Sorted(s)
  <1>1. CopyOf(s, parkingCapacity)
    BY CopyLists
  <1>2. Upto(parkingCapacity) = Parking!Occupied
    <2>1. \A i \in Parking!Occupied : i <= parkingCapacity
      BY ParkingAssumption DEF Parking!Occupied, Parking!Slot
    <2> QED BY <2>1 DEF Upto
  <1> HIDE DEF s
  <1>3. s \in Seq(Row) /\ Distinct(s) /\ Len(s) \in Nat
    BY <1>1, LenProperties DEF CopyOf
  <1>4. Shuffled(s, t, 1) /\ InPlace(t, Len(s))
    BY <1>3, SortedSorts
  <1> HIDE DEF t
  <1>5. t \in Seq(Row) /\ Distinct(t) /\ Len(t) = Len(s)
    BY <1>4 DEF Shuffled
  <1>6. Len(t) = Cardinality(Rows)
    BY <1>1, <1>2, <1>5, CarsCounted DEF CopyOf
  <1>7. \A k \in 1 .. Len(t) : t[k] \in Rows
    <2> SUFFICES ASSUME NEW k \in 1 .. Len(t) PROVE t[k] \in Rows
      OBVIOUS
    <2>1. PICK l \in 1 .. Len(s) : t[k] = s[l]
      BY <1>3, <1>4, <1>5 DEF Shuffled
    <2>2. PICK i \in Parking!Occupied : s[l] = RowOf(i)
      BY <1>1, <1>2 DEF CopyOf
    <2> QED BY <2>1, <2>2, CarsCounted
  <1>8. t \in [1 .. Cardinality(Rows) -> Rows]
    <2>1. t = [k \in 1 .. Len(t) |-> t[k]]
      BY <1>5
    <2> QED BY <1>6, <1>7, <2>1
  <1>9. \A i, j \in 1 .. Cardinality(Rows) : i # j => t[i] # t[j]
    BY <1>5, <1>6 DEF Distinct
  <1>10. \A i, j \in 1 .. Len(t) : i < j => t[i].arrivalTime <= t[j].arrivalTime
    BY <1>3, <1>4, <1>5 DEF InPlace
  <1>11. Parking!Lot!SetToSeqs(Rows) =
           {f \in [1 .. Cardinality(Rows) -> Rows] :
               \A i, j \in 1 .. Cardinality(Rows) : i # j => f[i] # f[j]}
    <2>1. Parking!Lot!Cardinality(Rows) = Cardinality(Rows)
      BY SameCardinality
    <2> QED BY <2>1 DEF Parking!Lot!SetToSeqs
  <1>12. Parking!Lot!Listings =
           {l \in Parking!Lot!SetToSeqs(Rows) :
               \A i, j \in 1 .. Len(l) : i < j => l[i].arrivalTime <= l[j].arrivalTime}
    BY DEF Parking!Lot!Listings, Rows
  <1> QED BY <1>8, <1>9, <1>10, <1>11, <1>12 DEF s, t

-----------------------------------------------------------------------------
(* The invariant of the refinement: the table means a lot, and where a     *)
(* thread is tells what it has read and whether it has answered.           *)
Answers == {"ok", "full", "invalid", "not found", None} \cup Nat \cup Seq(Row)

ThreadOK(c) ==
    /\ thread[c] \in {"closed", "fgets"} <=> command[c] = None
    /\ thread[c] \in {"unlock", "prompt"} <=> answer[c] # None
    /\ thread[c] = "invalid" => command[c].name = "invalid"
    /\ thread[c] \in {"lock", "locked"} => command[c].name # "invalid"
    /\ thread[c] = "park" =>
          command[c].name = "park" /\ Parking!Parked(command[c].plate) = {}

LotInv ==
    /\ ParkingInv /\ TableOK
    /\ command \in [Connection -> Parking!Command \cup {None}]
    /\ answer \in [Connection -> Answers]
    /\ \A c \in Connection : ThreadOK(c)

LotNext == \E c \in Connection : Parking!Lot!Ask(c) \/ Parking!Lot!Answer(c) \/ Parking!Lot!Return(c)
LotStep == [LotNext]_<<Parking!Cars, command, answer>>

LEMMA NothingIsNone ==
    /\ None \notin Parking!Command
    /\ None \notin {"ok", "full", "invalid", "not found"} /\ None \notin Nat
    /\ None \notin Seq(Row)
  <1>1. /\ None \notin Parking!Command
        /\ None \notin {"ok", "full", "invalid", "not found"} \cup Nat
        /\ None \notin Seq([plate : Plate, arrivalTime : Time])
    BY ProgramsAssumption DEF Parking!ParkingConstants
  <1> QED BY <1>1 DEF Row

LEMMA CommandIs ==
    \A m \in Parking!Command :
        /\ m.name \in {"park", "leave", "show", "invalid"}
        /\ m.name \in {"park", "leave"} => m.plate \in Plate /\ m.time \in Time
  BY DEF Parking!Command

LEMMA TableUntouched ==
    ASSUME parkingTable' = parkingTable
    PROVE  /\ Parking!Cars' = Parking!Cars
           /\ TableOK => TableOK'
           /\ \A p : (Parking!Parked(p))' = Parking!Parked(p)
  <1>1. Parking!Occupied' = Parking!Occupied
    BY DEF Parking!Occupied
  <1>2. \A p : (Parking!Parked(p))' = Parking!Parked(p)
    BY <1>1 DEF Parking!Parked
  <1>3. \A p : (Parking!Arrival(p))' = Parking!Arrival(p)
    BY <1>1, <1>2 DEF Parking!Arrival
  <1>4. Parking!Cars' = Parking!Cars
    BY <1>2, <1>3 DEF Parking!Cars
  <1>5. TableOK => TableOK'
    BY <1>1 DEF TableOK
  <1> QED BY <1>2, <1>4, <1>5

(* A thread moves, reads or answers, and leaves the table alone.           *)
LEMMA OneMoves ==
    ASSUME LotInv, ParkingInv', NEW c \in Connection, parkingTable' = parkingTable,
           NEW l, NEW m \in Parking!Command \cup {None}, NEW a \in Answers,
           thread' = [thread EXCEPT ![c] = l],
           command' = [command EXCEPT ![c] = m],
           answer' = [answer EXCEPT ![c] = a],
           l \in {"closed", "fgets"} <=> m = None,
           l \in {"unlock", "prompt"} <=> a # None,
           l = "invalid" => m.name = "invalid",
           l \in {"lock", "locked"} => m.name # "invalid",
           l = "park" => m.name = "park" /\ Parking!Parked(m.plate) = {}
    PROVE  LotInv'
  <1>1. TableOK' /\ \A p : (Parking!Parked(p))' = Parking!Parked(p)
    BY TableUntouched DEF LotInv
  <1>2. command' \in [Connection -> Parking!Command \cup {None}]
    BY DEF LotInv
  <1>3. answer' \in [Connection -> Answers]
    BY DEF LotInv
  <1>4. thread'[c] = l /\ command'[c] = m /\ answer'[c] = a
    BY DEF LotInv, ParkingInv
  <1>5. ThreadOK(c)'
    BY <1>1, <1>4 DEF ThreadOK
  <1>6. ASSUME NEW d \in Connection, d # c PROVE ThreadOK(d)'
    <2>1. thread'[d] = thread[d] /\ command'[d] = command[d] /\ answer'[d] = answer[d]
      BY <1>6 DEF LotInv, ParkingInv
    <2> QED BY <1>1, <2>1 DEF LotInv, ThreadOK
  <1>7. (Parking!Command \cup {None})' = Parking!Command \cup {None} /\ Answers' = Answers
    BY DEF Parking!Command, Answers
  <1> QED BY <1>1, <1>2, <1>3, <1>5, <1>6, <1>7 DEF LotInv

(* What the thread that holds the lock answers, whatever it does to the    *)
(* table.                                                                  *)
LEMMA HolderAnswers ==
    ASSUME LotInv, ParkingInv', NEW c \in Connection, thread[c] \in {"locked", "park"},
           TableOK', NEW a \in Answers, a # None,
           thread' = [thread EXCEPT ![c] = "unlock"],
           answer' = [answer EXCEPT ![c] = a], command' = command
    PROVE  LotInv'
  <1>1. thread'[c] = "unlock" /\ answer'[c] = a
    BY DEF LotInv, ParkingInv
  <1>2. ThreadOK(c)'
    BY <1>1 DEF LotInv, ThreadOK
  <1>3. ASSUME NEW d \in Connection, d # c PROVE ThreadOK(d)'
    <2>1. thread'[d] = thread[d] /\ answer'[d] = answer[d]
      BY <1>3 DEF LotInv, ParkingInv
    <2>2. thread[d] # "park"
      BY <1>3 DEF LotInv, ParkingInv, Parking!LockHeldInside
    <2> QED BY <2>1, <2>2 DEF LotInv, ThreadOK
  <1>4. answer' \in [Connection -> Answers]
    BY DEF LotInv
  <1>5. (Parking!Command \cup {None})' = Parking!Command \cup {None} /\ Answers' = Answers
    BY DEF Parking!Command, Answers
  <1> QED BY <1>2, <1>3, <1>4, <1>5 DEF LotInv

(* The abstract answer to each command.                                    *)
LEMMA LotAnswers ==
    ASSUME NEW c \in Connection, command[c] # None, answer[c] = None,
           \/ command[c].name = "park"
                /\ Parking!Lot!Park(c, command[c].plate, command[c].time)
           \/ command[c].name = "leave"
                /\ Parking!Lot!Leave(c, command[c].plate, command[c].time)
           \/ command[c].name = "show" /\ UNCHANGED Parking!Cars
                /\ \E l \in Parking!Lot!Listings : Parking!Lot!Tell(c, l)
           \/ command[c].name = "invalid" /\ UNCHANGED Parking!Cars
                /\ Parking!Lot!Tell(c, "invalid")
    PROVE  LotStep
  <1>1. CASE command[c].name = "park"
    BY <1>1 DEF Parking!Lot!Answer, LotNext, LotStep
  <1>2. CASE command[c].name = "leave"
    BY <1>2 DEF Parking!Lot!Answer, LotNext, LotStep
  <1>3. CASE command[c].name = "show"
    BY <1>3 DEF Parking!Lot!Answer, LotNext, LotStep
  <1>4. CASE command[c].name = "invalid"
    BY <1>4 DEF Parking!Lot!Answer, LotNext, LotStep
  <1> QED BY <1>1, <1>2, <1>3, <1>4

(* Slots are filled ...                                                    *)
LEMMA ParkFillsSlot ==
    ASSUME TableOK, NEW plate \in Plate, NEW time \in Time, Parking!Parked(plate) = {},
           NEW i \in Parking!Slot, i \notin Parking!Occupied,
           parkingTable' = [parkingTable EXCEPT ![i] =
                              [plate |-> plate, arrivalTime |-> time, occupied |-> TRUE]]
    PROVE  /\ TableOK'
           /\ Parking!Cars' = [p \in DOMAIN Parking!Cars \cup {plate} |->
                                 IF p = plate THEN time ELSE Parking!Cars[p]]
  <1> DEFINE r == [plate |-> plate, arrivalTime |-> time, occupied |-> TRUE]
             f == [p \in DOMAIN Parking!Cars \cup {plate} |->
                     IF p = plate THEN time ELSE Parking!Cars[p]]
  <1>0. /\ Parking!Slot' = Parking!Slot /\ Parking!Record' = Parking!Record
        /\ Parking!EmptySlot' = Parking!EmptySlot
    BY DEF Parking!Slot, Parking!Record, Parking!EmptySlot
  <1>1. r \in Parking!Record
    BY DEF Parking!Record
  <1>2. parkingTable' \in [Parking!Slot -> Parking!Record \cup {Parking!EmptySlot}]
    BY <1>1 DEF TableOK
  <1>3. /\ parkingTable'[i] = r
        /\ \A j \in Parking!Slot : j # i => parkingTable'[j] = parkingTable[j]
    BY DEF TableOK
  <1>4. Parking!Occupied' = Parking!Occupied \cup {i}
    <2>1. \A j \in Parking!Slot : parkingTable'[j].occupied <=> parkingTable[j].occupied \/ j = i
      BY <1>3
    <2> QED BY <2>1, <1>0 DEF Parking!Occupied
  <1>5. \A j \in Parking!Occupied : /\ j \in Parking!Slot /\ j # i
                                    /\ parkingTable'[j] = parkingTable[j]
                                    /\ parkingTable[j].plate # plate
    BY <1>3 DEF Parking!Occupied, Parking!Parked
  <1>6. parkingTable'[i].plate = plate /\ parkingTable'[i].arrivalTime = time
    BY <1>3
  <1>7. TableOK'
    <2>1. \A j, k \in Parking!Occupied' :
            parkingTable'[j].plate = parkingTable'[k].plate => j = k
      BY <1>4, <1>5, <1>6 DEF TableOK
    <2> QED BY <1>0, <1>2, <2>1 DEF TableOK
  <1>8. Fits(Parking!Cars)
    BY CarsFit
  <1>9. PICK h : h = f
    OBVIOUS
  <1>10. Fits(h)'
    <2>1. f = [p \in DOMAIN f |-> f[p]]
      OBVIOUS
    <2>2. DOMAIN f = {parkingTable'[j].plate : j \in Parking!Occupied'}
      <3>1. DOMAIN f = {parkingTable[j].plate : j \in Parking!Occupied} \cup {plate}
        BY <1>8 DEF Fits
      <3> HIDE DEF f
      <3> QED BY <1>4, <1>5, <1>6, <3>1
    <2>3. ASSUME NEW j \in Parking!Occupied'
          PROVE  f[parkingTable'[j].plate] = parkingTable'[j].arrivalTime
      <3>1. CASE j = i
        BY <1>6, <3>1
      <3>2. CASE j # i
        <4>1. j \in Parking!Occupied
          BY <1>4, <3>2
        <4>2. /\ parkingTable[j].plate \in DOMAIN Parking!Cars
              /\ Parking!Cars[parkingTable[j].plate] = parkingTable[j].arrivalTime
          BY <1>8, <4>1 DEF Fits
        <4> QED BY <1>5, <4>1, <4>2
      <3> QED BY <3>1, <3>2
    <2> HIDE DEF f
    <2> QED BY <1>9, <2>1, <2>2, <2>3 DEF Fits
  <1> QED BY <1>7, <1>9, <1>10, CarsAreNext

(* ... and emptied.                                                        *)
LEMMA LeaveEmptiesSlot ==
    ASSUME TableOK, NEW i \in Parking!Occupied,
           parkingTable' = [parkingTable EXCEPT ![i] = Parking!EmptySlot]
    PROVE  /\ TableOK'
           /\ Parking!Cars' = [p \in DOMAIN Parking!Cars \ {parkingTable[i].plate} |->
                                 Parking!Cars[p]]
  <1> DEFINE f == [p \in DOMAIN Parking!Cars \ {parkingTable[i].plate} |-> Parking!Cars[p]]
  <1>0. /\ Parking!Slot' = Parking!Slot /\ Parking!Record' = Parking!Record
        /\ Parking!EmptySlot' = Parking!EmptySlot
    BY DEF Parking!Slot, Parking!Record, Parking!EmptySlot
  <1>1. i \in Parking!Slot
    BY DEF Parking!Occupied
  <1>2. parkingTable' \in [Parking!Slot -> Parking!Record \cup {Parking!EmptySlot}]
    BY <1>1 DEF TableOK
  <1>3. /\ ~parkingTable'[i].occupied
        /\ \A j \in Parking!Slot : j # i => parkingTable'[j] = parkingTable[j]
    BY <1>1 DEF TableOK, Parking!EmptySlot
  <1>4. Parking!Occupied' = Parking!Occupied \ {i}
    <2>1. \A j \in Parking!Slot : parkingTable'[j].occupied <=> parkingTable[j].occupied /\ j # i
      BY <1>3
    <2> QED BY <2>1, <1>0 DEF Parking!Occupied
  <1>5. \A j \in Parking!Occupied \ {i} : /\ parkingTable'[j] = parkingTable[j]
                                          /\ parkingTable[j].plate # parkingTable[i].plate
    BY <1>3 DEF TableOK, Parking!Occupied
  <1>6. TableOK'
    <2>1. \A j, k \in Parking!Occupied' :
            parkingTable'[j].plate = parkingTable'[k].plate => j = k
      BY <1>4, <1>5 DEF TableOK
    <2> QED BY <1>0, <1>2, <2>1 DEF TableOK
  <1>7. Fits(Parking!Cars)
    BY CarsFit
  <1>8. PICK h : h = f
    OBVIOUS
  <1>9. Fits(h)'
    <2>1. f = [p \in DOMAIN f |-> f[p]]
      OBVIOUS
    <2>2. DOMAIN f = {parkingTable'[j].plate : j \in Parking!Occupied'}
      <3>1. DOMAIN f = {parkingTable[j].plate : j \in Parking!Occupied} \ {parkingTable[i].plate}
        BY <1>7 DEF Fits
      <3> HIDE DEF f
      <3> QED BY <1>4, <1>5, <3>1
    <2>3. ASSUME NEW j \in Parking!Occupied'
          PROVE  f[parkingTable'[j].plate] = parkingTable'[j].arrivalTime
      <3>1. j \in Parking!Occupied \ {i}
        BY <1>4
      <3>2. /\ parkingTable[j].plate \in DOMAIN Parking!Cars
            /\ Parking!Cars[parkingTable[j].plate] = parkingTable[j].arrivalTime
        BY <1>7, <3>1 DEF Fits
      <3> QED BY <1>5, <3>1, <3>2
    <2> HIDE DEF f
    <2> QED BY <1>8, <2>1, <2>2, <2>3 DEF Fits
  <1> QED BY <1>6, <1>8, <1>9, CarsAreNext

LEMMA FirstIsIn ==
    ASSUME NEW S \in SUBSET Parking!Slot, S # {}
    PROVE  Parking!First(S) \in S
  <1>1. S \subseteq Nat
    BY ParkingAssumption DEF Parking!Slot
  <1>2. \E i \in S : \A j \in S : i <= j
    BY <1>1, LeastOfNat
  <1> QED BY <1>2 DEF Parking!First

(* The lot is full when no slot is free.                                   *)
LEMMA LotIsFull ==
    TableOK => (Parking!Slot \ Parking!Occupied = {}
                  <=> Parking!Lot!Cardinality(DOMAIN Parking!Cars) = parkingCapacity)
  <1> SUFFICES ASSUME TableOK
               PROVE  Parking!Slot \ Parking!Occupied = {}
                        <=> Cardinality(Parking!Occupied) = Cardinality(Parking!Slot)
    BY SameCardinality, CarsCounted, SlotsFinite
  <1>1. Parking!Occupied \in SUBSET Parking!Slot /\ IsFiniteSet(Parking!Slot)
    BY SlotsFinite
  <1>2. Cardinality(Parking!Occupied) = Cardinality(Parking!Slot)
          => Parking!Occupied = Parking!Slot
    BY <1>1, FS_Subset
  <1> QED BY <1>1, <1>2

LEMMA AnswersAre ==
    /\ {"ok", "full", "invalid", "not found", None} \subseteq Answers
    /\ Nat \subseteq Answers /\ Seq(Row) \subseteq Answers
  BY DEF Answers

(* Each step of a thread.                                                  *)
LEMMA ConnectIsHidden ==
    ASSUME LotInv, ParkingInv', NEW c \in Connection, Parking!Connect(c) \/ Parking!Quit(c)
    PROVE  LotInv' /\ LotStep
  <1> DEFINE l == IF Parking!Connect(c) THEN "fgets" ELSE "closed"
  <1>1. /\ thread[c] \in {"closed", "fgets"} /\ thread' = [thread EXCEPT ![c] = l]
        /\ UNCHANGED <<parkingTable, tableLock, command, answer>>
        /\ l \in {"closed", "fgets"}
    BY DEF Parking!Connect, Parking!Quit, Parking!Goto
  <1> HIDE DEF l
  <1>2. /\ command[c] = None /\ answer[c] = None
        /\ command' = [command EXCEPT ![c] = None] /\ answer' = [answer EXCEPT ![c] = None]
    BY <1>1 DEF LotInv, ThreadOK
  <1>3. LotInv'
    BY <1>1, <1>2, OneMoves, AnswersAre
  <1>4. LotStep
    BY <1>1, TableUntouched DEF LotStep
  <1> QED BY <1>3, <1>4

LEMMA ReadCommandAsks ==
    ASSUME LotInv, ParkingInv', NEW c \in Connection, Parking!ReadCommand(c)
    PROVE  LotInv' /\ LotStep
  <1>1. PICK m \in Parking!Command :
          /\ thread[c] = "fgets" /\ command' = [command EXCEPT ![c] = m]
          /\ thread' = [thread EXCEPT ![c] = IF m.name = "invalid" THEN "invalid" ELSE "lock"]
          /\ UNCHANGED <<parkingTable, tableLock, answer>>
    BY DEF Parking!ReadCommand, Parking!Goto
  <1> DEFINE l == IF m.name = "invalid" THEN "invalid" ELSE "lock"
  <1>2. thread' = [thread EXCEPT ![c] = l]
    BY <1>1
  <1>3. /\ l \in {"invalid", "lock"} /\ (l = "invalid" => m.name = "invalid")
        /\ (l = "lock" => m.name # "invalid")
    OBVIOUS
  <1> HIDE DEF l
  <1>4. /\ command[c] = None /\ answer[c] = None
        /\ answer' = [answer EXCEPT ![c] = None] /\ m # None
    BY <1>1, NothingIsNone DEF LotInv, ThreadOK
  <1>5. LotInv'
    <2>1. parkingTable' = parkingTable /\ m \in Parking!Command \cup {None} /\ None \in Answers
      BY <1>1, AnswersAre
    <2>2. command' = [command EXCEPT ![c] = m]
      BY <1>1
    <2>3. /\ l \in {"closed", "fgets"} <=> m = None
          /\ l \in {"unlock", "prompt"} <=> None # None
          /\ l = "invalid" => m.name = "invalid"
          /\ l \in {"lock", "locked"} => m.name # "invalid"
          /\ l = "park" => m.name = "park" /\ Parking!Parked(m.plate) = {}
      BY <1>3, <1>4
    <2> QED BY <1>2, <1>4, <2>1, <2>2, <2>3, OneMoves
  <1>6. Parking!Lot!Ask(c)
    <2>1. m \in Parking!Lot!Command
      BY DEF Parking!Command, Parking!Lot!Command
    <2>2. Parking!Cars' = Parking!Cars
      BY <1>1, TableUntouched
    <2> QED BY <1>1, <1>4, <2>1, <2>2 DEF Parking!Lot!Ask
  <1> QED BY <1>5, <1>6 DEF LotStep, LotNext

LEMMA RejectAnswers ==
    ASSUME LotInv, ParkingInv', NEW c \in Connection, Parking!Reject(c)
    PROVE  LotInv' /\ LotStep
  <1>1. /\ thread[c] = "invalid" /\ thread' = [thread EXCEPT ![c] = "prompt"]
        /\ answer' = [answer EXCEPT ![c] = "invalid"]
        /\ UNCHANGED <<parkingTable, tableLock, command>>
    BY DEF Parking!Reject, Parking!Tell, Parking!Goto
  <1>2. /\ command[c] # None /\ command[c].name = "invalid" /\ answer[c] = None
        /\ command[c] \in Parking!Command \cup {None}
        /\ command' = [command EXCEPT ![c] = command[c]]
    BY <1>1 DEF LotInv, ThreadOK
  <1>3. LotInv'
    BY <1>1, <1>2, OneMoves, AnswersAre, NothingIsNone
  <1>4. Parking!Lot!Tell(c, "invalid") /\ UNCHANGED Parking!Cars
    BY <1>1, TableUntouched DEF Parking!Lot!Tell
  <1> QED BY <1>2, <1>3, <1>4, LotAnswers

LEMMA LockIsHidden ==
    ASSUME LotInv, ParkingInv', NEW c \in Connection, Parking!Lock(c)
    PROVE  LotInv' /\ LotStep
  <1>1. /\ thread[c] = "lock" /\ thread' = [thread EXCEPT ![c] = "locked"]
        /\ UNCHANGED <<parkingTable, command, answer>>
    BY DEF Parking!Lock, Parking!Goto
  <1>2. /\ command[c] # None /\ command[c].name # "invalid" /\ answer[c] = None
        /\ command[c] \in Parking!Command \cup {None}
        /\ command' = [command EXCEPT ![c] = command[c]]
        /\ answer' = [answer EXCEPT ![c] = None]
    BY <1>1 DEF LotInv, ThreadOK
  <1>3. LotInv'
    BY <1>1, <1>2, OneMoves, AnswersAre
  <1>4. LotStep
    BY <1>1, TableUntouched DEF LotStep
  <1> QED BY <1>3, <1>4

LEMMA DuplicateIsRefused ==
    ASSUME LotInv, ParkingInv', NEW c \in Connection, Parking!CheckDuplicate(c)
    PROVE  LotInv' /\ LotStep
  <1>1. /\ thread[c] = "locked" /\ command[c].name = "park"
        /\ UNCHANGED <<parkingTable, tableLock, command>>
    BY DEF Parking!CheckDuplicate
  <1>2. /\ command[c] # None /\ answer[c] = None
        /\ command[c] \in Parking!Command \cup {None}
        /\ command' = [command EXCEPT ![c] = command[c]]
        /\ TableOK
    BY <1>1 DEF LotInv, ThreadOK
  <1>3. CASE Parking!Parked(command[c].plate) # {}
    <2>1. /\ thread' = [thread EXCEPT ![c] = "unlock"]
          /\ answer' = [answer EXCEPT ![c] = "invalid"]
      BY <1>3 DEF Parking!CheckDuplicate, Parking!Answer, Parking!Tell, Parking!Goto
    <2>2. LotInv'
      BY <1>1, <1>2, <2>1, OneMoves, AnswersAre, NothingIsNone
    <2>3. command[c].plate \in DOMAIN Parking!Cars
      <3>1. command[c].plate \in Plate
        BY <1>1, <1>2, CommandIs
      <3> QED BY <1>3, <3>1 DEF Parking!Cars
    <2>4. Parking!Lot!Park(c, command[c].plate, command[c].time)
      BY <1>1, <2>1, <2>3, TableUntouched DEF Parking!Lot!Park, Parking!Lot!Tell
    <2> QED BY <1>1, <1>2, <2>2, <2>4, LotAnswers
  <1>4. CASE Parking!Parked(command[c].plate) = {}
    <2>1. thread' = [thread EXCEPT ![c] = "park"] /\ UNCHANGED answer
      BY <1>4 DEF Parking!CheckDuplicate, Parking!Goto
    <2>2. answer' = [answer EXCEPT ![c] = None]
      BY <1>2, <2>1 DEF LotInv
    <2>3. LotInv'
      BY <1>1, <1>2, <1>4, <2>1, <2>2, OneMoves, AnswersAre
    <2> QED BY <1>1, <2>1, <2>3, TableUntouched DEF LotStep
  <1> QED BY <1>3, <1>4

LEMMA ParkParks ==
    ASSUME LotInv, ParkingInv', NEW c \in Connection, Parking!Park(c)
    PROVE  LotInv' /\ LotStep
  <1> DEFINE plate == command[c].plate
             time == command[c].time
             free == Parking!Slot \ Parking!Occupied
  <1>1. /\ thread[c] = "park" /\ thread' = [thread EXCEPT ![c] = "unlock"]
        /\ UNCHANGED <<tableLock, command>>
    BY DEF Parking!Park, Parking!Answer, Parking!Goto
  <1>2. /\ command[c] # None /\ answer[c] = None /\ command[c].name = "park"
        /\ Parking!Parked(plate) = {} /\ command[c] \in Parking!Command /\ TableOK
    BY <1>1 DEF LotInv, ThreadOK
  <1>3. plate \in Plate /\ time \in Time
    BY <1>2, CommandIs
  <1>4. plate \notin DOMAIN Parking!Cars
    BY <1>2 DEF Parking!Cars
  <1>5. CASE free = {}
    <2>1. answer' = [answer EXCEPT ![c] = "full"] /\ UNCHANGED parkingTable
      BY <1>5 DEF Parking!Park, Parking!Answer, Parking!Tell
    <2>2. LotInv'
      BY <1>1, <1>2, <2>1, HolderAnswers, AnswersAre, NothingIsNone, TableUntouched
    <2>3. Parking!Lot!Cardinality(DOMAIN Parking!Cars) = parkingCapacity
      BY <1>2, <1>5, LotIsFull
    <2>4. Parking!Lot!Park(c, plate, time)
      BY <1>1, <1>4, <2>1, <2>3, TableUntouched DEF Parking!Lot!Park, Parking!Lot!Tell
    <2> QED BY <1>2, <2>2, <2>4, LotAnswers
  <1>6. CASE free # {}
    <2>1. /\ answer' = [answer EXCEPT ![c] = "ok"]
          /\ parkingTable' = [parkingTable EXCEPT ![Parking!First(free)] =
                                [plate |-> plate, arrivalTime |-> time, occupied |-> TRUE]]
      BY <1>6 DEF Parking!Park, Parking!Answer, Parking!Tell
    <2>2. PICK i : i = Parking!First(free)
      OBVIOUS
    <2>3. i \in Parking!Slot /\ i \notin Parking!Occupied
      BY <1>6, <2>2, FirstIsIn
    <2>4. parkingTable' = [parkingTable EXCEPT ![i] =
                                [plate |-> plate, arrivalTime |-> time, occupied |-> TRUE]]
      BY <2>1, <2>2
    <2> HIDE DEF plate, time
    <2>5. /\ TableOK'
          /\ Parking!Cars' = [p \in DOMAIN Parking!Cars \cup {plate} |->
                                 IF p = plate THEN time ELSE Parking!Cars[p]]
      BY <1>2, <1>3, <2>3, <2>4, ParkFillsSlot
    <2>6. LotInv'
      BY <1>1, <2>1, <2>5, HolderAnswers, AnswersAre, NothingIsNone
    <2>7. Parking!Lot!Cardinality(DOMAIN Parking!Cars) # parkingCapacity
      BY <1>2, <1>6, LotIsFull
    <2>8. Parking!Lot!Park(c, plate, time)
      BY <1>1, <1>4, <2>1, <2>5, <2>7 DEF Parking!Lot!Park, Parking!Lot!Tell
    <2> QED BY <1>2, <2>6, <2>8, LotAnswers DEF plate, time
  <1> QED BY <1>5, <1>6

LEMMA LeaveLeaves ==
    ASSUME LotInv, ParkingInv', NEW c \in Connection, Parking!Leave(c)
    PROVE  LotInv' /\ LotStep
  <1> DEFINE plate == command[c].plate
             time == command[c].time
             here == Parking!Parked(plate)
             i == Parking!First(here)
             duration == time - parkingTable[i].arrivalTime
  <1>1. /\ thread[c] = "locked" /\ thread' = [thread EXCEPT ![c] = "unlock"]
        /\ command[c].name = "leave" /\ UNCHANGED <<tableLock, command>>
    BY DEF Parking!Leave, Parking!Answer, Parking!Goto
  <1>2. /\ command[c] # None /\ answer[c] = None
        /\ command[c] \in Parking!Command /\ TableOK
    BY <1>1 DEF LotInv, ThreadOK
  <1>3. plate \in Plate /\ time \in Time
    BY <1>1, <1>2, CommandIs
  <1>4. plate \in DOMAIN Parking!Cars <=> here # {}
    BY <1>3 DEF Parking!Cars
  <1>5. CASE here = {}
    <2>1. answer' = [answer EXCEPT ![c] = "not found"] /\ UNCHANGED parkingTable
      BY <1>5 DEF Parking!Leave, Parking!Answer, Parking!Tell
    <2>2. LotInv'
      BY <1>1, <1>2, <2>1, HolderAnswers, AnswersAre, NothingIsNone, TableUntouched
    <2>3. Parking!Lot!Leave(c, plate, time)
      BY <1>1, <1>4, <1>5, <2>1, TableUntouched DEF Parking!Lot!Leave, Parking!Lot!Tell
    <2> QED BY <1>1, <1>2, <2>2, <2>3, LotAnswers
  <1>6. CASE here # {}
    <2>1. PICK j \in here : TRUE
      BY <1>6
    <2>2. /\ j \in Parking!Occupied /\ parkingTable[j].plate = plate
          /\ here = {j} /\ i = j
      <3>1. j \in Parking!Occupied /\ parkingTable[j].plate = plate
        BY <2>1 DEF Parking!Parked
      <3>2. here = {j} /\ Parking!First({j}) = j
        BY <1>2, <3>1, ParkedIsOne
      <3> QED BY <3>1, <3>2
    <2>3. Parking!Cars[plate] = parkingTable[j].arrivalTime
      BY <1>2, <2>2, CarsFit DEF Fits
    <2>4. parkingTable[j].arrivalTime \in Nat /\ time \in Nat
      BY <1>2, <1>3, <2>2, OccupiedSlot, SlotsFinite, ParkingAssumption DEF Parking!Record
    <2>5. duration = time - Parking!Cars[plate]
      BY <2>2, <2>3
    <2>6. duration < 0 <=> time < Parking!Cars[plate]
      BY <2>3, <2>4, <2>5
    <2>7. CASE duration < 0
      <3>1. answer' = [answer EXCEPT ![c] = "invalid"] /\ UNCHANGED parkingTable
        BY <1>6, <2>7 DEF Parking!Leave, Parking!Answer, Parking!Tell
      <3>2. LotInv'
        BY <1>1, <1>2, <3>1, HolderAnswers, AnswersAre, NothingIsNone, TableUntouched
      <3>3. Parking!Lot!Leave(c, plate, time)
        BY <1>1, <1>4, <1>6, <2>6, <2>7, <3>1, TableUntouched
           DEF Parking!Lot!Leave, Parking!Lot!Tell
      <3> QED BY <1>1, <1>2, <3>2, <3>3, LotAnswers
    <2>8. CASE ~(duration < 0)
      <3>1. /\ answer' = [answer EXCEPT ![c] = Parking!Fee(duration)]
            /\ parkingTable' = [parkingTable EXCEPT ![i] = Parking!EmptySlot]
        BY <1>6, <2>8 DEF Parking!Leave, Parking!Answer, Parking!Tell
      <3>2. duration \in Nat
        BY <2>2, <2>4, <2>8
      <3>3. Parking!Fee(duration) = Parking!Lot!Fee(duration) /\ Parking!Fee(duration) \in Nat
        BY <3>2, FeeIsFair
      <3>4. parkingTable' = [parkingTable EXCEPT ![j] = Parking!EmptySlot]
        BY <2>2, <3>1
      <3> HIDE DEF plate, time, here, duration, i
      <3>5. /\ TableOK'
            /\ Parking!Cars' = [p \in DOMAIN Parking!Cars \ {plate} |-> Parking!Cars[p]]
        BY <1>2, <2>2, <3>4, LeaveEmptiesSlot
      <3>6. LotInv'
        <4>1. Parking!Fee(duration) \in Answers /\ Parking!Fee(duration) # None
          BY <3>3, AnswersAre, NothingIsNone
        <4> QED BY <1>1, <3>1, <3>5, <4>1, HolderAnswers
      <3>7. Parking!Lot!Leave(c, plate, time)
        BY <1>1, <1>4, <1>6, <2>5, <2>6, <2>8, <3>1, <3>3, <3>5
           DEF Parking!Lot!Leave, Parking!Lot!Tell
      <3> QED BY <1>1, <1>2, <3>6, <3>7, LotAnswers DEF plate, time
    <2> QED BY <2>7, <2>8
  <1> QED BY <1>5, <1>6

LEMMA ShowLists ==
    ASSUME LotInv, ParkingInv', NEW c \in Connection, Parking!Show(c)
    PROVE  LotInv' /\ LotStep
  <1>1. /\ thread[c] = "locked" /\ thread' = [thread EXCEPT ![c] = "unlock"]
        /\ command[c].name = "show" /\ UNCHANGED <<parkingTable, tableLock, command>>
        /\ answer' = [answer EXCEPT ![c] = Parking!Sorted(Parking!Copy)]
    BY DEF Parking!Show, Parking!Answer, Parking!Tell, Parking!Goto
  <1>2. command[c] # None /\ answer[c] = None /\ TableOK
    BY <1>1 DEF LotInv, ThreadOK
  <1>3. Parking!Sorted(Parking!Copy) \in Seq(Row)
    <2>1. Parking!Copy \in Seq(Row) /\ Distinct(Parking!Copy)
      BY <1>2, CopyLists DEF CopyOf
    <2> QED BY <2>1, SortedSorts DEF Shuffled
  <1>4. LotInv'
    <2>1. Parking!Sorted(Parking!Copy) \in Answers /\ Parking!Sorted(Parking!Copy) # None
      BY <1>3, AnswersAre, NothingIsNone
    <2> QED BY <1>1, <1>2, <2>1, HolderAnswers, TableUntouched
  <1>5. Parking!Lot!Tell(c, Parking!Sorted(Parking!Copy)) /\ UNCHANGED Parking!Cars
    BY <1>1, TableUntouched DEF Parking!Lot!Tell
  <1> QED BY <1>1, <1>2, <1>4, <1>5, ListingIsSorted, LotAnswers

LEMMA PromptReturns ==
    ASSUME LotInv, ParkingInv', NEW c \in Connection, Parking!Unlock(c) \/ Parking!Prompt(c)
    PROVE  LotInv' /\ LotStep
  <1>1. /\ thread[c] \in {"unlock", "prompt"} /\ thread' = [thread EXCEPT ![c] = "fgets"]
        /\ command' = [command EXCEPT ![c] = None] /\ answer' = [answer EXCEPT ![c] = None]
        /\ UNCHANGED parkingTable
    BY DEF Parking!Unlock, Parking!Prompt, Parking!NextCommand, Parking!Tell, Parking!Goto
  <1>2. answer[c] # None
    BY <1>1 DEF LotInv, ThreadOK
  <1>3. LotInv'
    BY <1>1, OneMoves, AnswersAre
  <1>4. Parking!Lot!Return(c)
    BY <1>1, <1>2, TableUntouched DEF Parking!Lot!Return
  <1> QED BY <1>3, <1>4 DEF LotStep, LotNext

LEMMA ParkingNextIsLot ==
    ASSUME LotInv, ParkingInv', Parking!Next
    PROVE  LotInv' /\ LotStep
  <1>1. PICK c \in Connection : \/ Parking!Connect(c) \/ Parking!Quit(c)
                                \/ Parking!ReadCommand(c) \/ Parking!Handle(c)
    BY DEF Parking!Next
  <1> QED BY <1>1, ConnectIsHidden, ReadCommandAsks, RejectAnswers, LockIsHidden,
             DuplicateIsRefused, ParkParks, LeaveLeaves, ShowLists, PromptReturns
          DEF Parking!Handle

LEMMA LotStarts == AnyInit => LotInv /\ Parking!Lot!LotInit
  <1> SUFFICES ASSUME AnyInit PROVE LotInv /\ Parking!Lot!LotInit
    OBVIOUS
  <1>1. Parking!Init
    BY DEF AnyInit
  <1>2. \A i \in Parking!Slot : parkingTable[i] = Parking!EmptySlot
    BY <1>1 DEF Parking!Init
  <1>3. Parking!Occupied = {}
    BY <1>2 DEF Parking!Occupied, Parking!EmptySlot
  <1>4. TableOK
    BY <1>1, <1>3 DEF Parking!Init, TableOK
  <1>5. Parking!Cars = <<>>
    <2>1. Fits(<<>>)
      BY <1>3 DEF Fits
    <2> QED BY <1>4, <2>1, CarsAre
  <1>6. ParkingInv
    BY <1>1, ProgramsAssumption
       DEF Parking!Init, ParkingInv, Parking!LockHeldInside, Parking!ParkingConstants
  <1>7. \A c \in Connection : thread[c] = "closed" /\ command[c] = None /\ answer[c] = None
    BY <1>1 DEF Parking!Init
  <1>8. LotInv
    BY <1>1, <1>4, <1>6, <1>7 DEF Parking!Init, LotInv, ThreadOK, Answers
  <1>9. Parking!Lot!LotInit
    BY <1>1, <1>5 DEF Parking!Init, Parking!Lot!LotInit
  <1> QED BY <1>8, <1>9

LEMMA LotStepHolds ==
    LotInv /\ ParkingInv' /\ [AnyStep]_<<program, strings, parking, heap, vars>>
      => LotInv' /\ LotStep
  <1>1. LotInv /\ UNCHANGED parking => LotInv' /\ LotStep
    <2> SUFFICES ASSUME LotInv, UNCHANGED parking PROVE LotInv' /\ LotStep
      OBVIOUS
    <2>1. UNCHANGED <<parkingTable, tableLock, thread, command, answer>>
      BY DEF parking
    <2>2. ParkingInv'
      BY <2>1 DEF LotInv, ParkingInv, Parking!LockHeldInside
    <2>3. (Parking!Command \cup {None})' = Parking!Command \cup {None} /\ Answers' = Answers
      BY DEF Parking!Command, Answers
    <2> QED BY <2>1, <2>2, <2>3, TableUntouched DEF LotInv, ThreadOK, LotStep
  <1>2. LotInv /\ ParkingInv' /\ ParkingStep => LotInv' /\ LotStep
    BY ParkingNextIsLot DEF ParkingStep
  <1> QED BY <1>1, <1>2 DEF AnyStep, StringStep, ListStep, HeapStep

LEMMA LotInvHolds == AnySpec => [](LotInv /\ ParkingInv)
  BY LotStarts, LotStepHolds, ParkingInvHolds, PTL DEF AnySpec

(* The clients of parkingServer.c see one lot: every command is answered   *)
(* as the cars ask that are parked when its thread holds tableLock, and    *)
(* parks or removes one car then, or none.                                 *)
THEOREM CarsSeeOneLot == AnySpec => ImplementsParkingLot
  <1>1. AnyInit => Parking!Lot!LotInit
    BY LotStarts
  <1>2. AnySpec => [][LotNext]_<<Parking!Cars, command, answer>>
    BY LotInvHolds, LotStepHolds, PTL DEF AnySpec, LotStep
  <1> QED BY <1>1, <1>2, PTL
          DEF AnySpec, ImplementsParkingLot, Parking!ImplementsParkingLot,
              Parking!Lot!LotSpec, LotNext

-----------------------------------------------------------------------------
(* Arrays that hold strings.  The text is in front, zeros are behind it.   *)
Text(s, n) == [k \in 1 .. n |-> s[k - 1]]

Holds(s, n) ==
    /\ s \in Strings!Buffer
    /\ n \in Nat /\ n < STRING_LIMIT
    /\ \A k \in Strings!Cell : s[k] = NUL <=> n <= k

LEMMA StringAssumption ==
    STRING_LIMIT \in Nat /\ mq_maxmsg \in Nat /\ NUL \notin Char /\ None \notin Strings!Buffer
  BY ProgramsAssumption DEF Strings!StringConstants

LEMMA StrlenIs ==
    ASSUME NEW s, NEW n \in 0 .. STRING_LIMIT,
           \A k \in Strings!Cell : k < n => s[k] # NUL,
           n < STRING_LIMIT => s[n] = NUL
    PROVE  Strings!Strlen(s) = n /\ Strings!Visible(s) = Text(s, n)
  <1>0. STRING_LIMIT \in Nat /\ n \in Nat /\ n <= STRING_LIMIT
    BY StringAssumption
  <1>1. CASE n = STRING_LIMIT
    <2>1. ~Strings!Terminated(s)
      BY <1>0, <1>1 DEF Strings!Terminated, Strings!Cell
    <2> QED BY <1>1, <2>1 DEF Strings!Strlen, Strings!Visible, Text
  <1>2. CASE n < STRING_LIMIT
    <2> DEFINE zeros == {i \in Strings!Cell : s[i] = NUL}
    <2>1. n \in zeros /\ \A i \in zeros : n <= i
      BY <1>0, <1>2 DEF Strings!Cell
    <2>2. \A i \in zeros : i \in Nat
      BY <1>0 DEF Strings!Cell
    <2>3. Strings!Terminated(s)
      BY <2>1 DEF Strings!Terminated
    <2> HIDE DEF zeros
    <2>4. Strings!Min(zeros) = n
      <3>1. \A x \in zeros : (\A y \in zeros : x <= y) => x = n
        BY <1>0, <2>1, <2>2
      <3> QED BY <2>1, <3>1 DEF Strings!Min
    <2>5. Strings!Strlen(s) = n
      BY <2>3, <2>4 DEF Strings!Strlen, zeros
    <2> QED BY <2>5 DEF Strings!Visible, Text
  <1> QED BY <1>0, <1>1, <1>2

LEMMA HoldsText ==
    ASSUME NEW s, NEW n, Holds(s, n)
    PROVE  /\ Strings!Strlen(s) = n /\ Strings!Visible(s) = Text(s, n)
           /\ Strings!Strncpy(s) = s /\ s # None
           /\ Text(s, n) \in Seq(Char) /\ Len(Text(s, n)) = n
  <1>0. STRING_LIMIT \in Nat /\ n \in Nat /\ n < STRING_LIMIT
    BY StringAssumption DEF Holds
  <1>1. Strings!Strlen(s) = n /\ Strings!Visible(s) = Text(s, n)
    <2>1. n \in 0 .. STRING_LIMIT /\ n \in Strings!Cell
      BY <1>0 DEF Strings!Cell
    <2>2. s[n] = NUL
      BY <1>0, <2>1 DEF Holds
    <2>3. \A k \in Strings!Cell : k < n => s[k] # NUL
      BY <1>0 DEF Holds, Strings!Cell
    <2> QED BY <2>1, <2>2, <2>3, StrlenIs
  <1>2. Strings!Strncpy(s) = s
    <2>1. s = [i \in Strings!Cell |-> s[i]]
      BY DEF Holds, Strings!Buffer
    <2>2. ASSUME NEW i \in Strings!Cell PROVE (IF i < n THEN s[i] ELSE NUL) = s[i]
      BY <1>0 DEF Holds, Strings!Cell
    <2>3. Strings!Strncpy(s) = [i \in Strings!Cell |-> IF i < n THEN s[i] ELSE NUL]
      BY <1>1 DEF Strings!Strncpy
    <2> QED BY <2>1, <2>2, <2>3
  <1>3. \A k \in 1 .. n : s[k - 1] \in Char
    <2> SUFFICES ASSUME NEW k \in 1 .. n PROVE s[k - 1] \in Char
      OBVIOUS
    <2>1. k - 1 \in Strings!Cell /\ ~(n <= k - 1)
      BY <1>0 DEF Strings!Cell
    <2>2. s[k - 1] \in Char \cup {NUL} /\ s[k - 1] # NUL
      BY <2>1 DEF Holds, Strings!Buffer
    <2> QED BY <2>2
  <1>4. Text(s, n) \in Seq(Char) /\ Len(Text(s, n)) = n
    BY <1>0, <1>3 DEF Text
  <1>5. s # None
    BY StringAssumption DEF Holds
  <1> QED BY <1>1, <1>2, <1>4, <1>5

(* An array that strncpy would not change holds a string and zeros.        *)
LEMMA PaddedHolds ==
    ASSUME NEW s \in Strings!Buffer, Strings!Terminated(s), s = Strings!Strncpy(s)
    PROVE  Holds(s, Strings!Strlen(s))
  <1> DEFINE zeros == {i \in Strings!Cell : s[i] = NUL}
             n == Strings!Strlen(s)
  <1>0. STRING_LIMIT \in Nat /\ \A i \in Strings!Cell : i \in Nat /\ i < STRING_LIMIT
    BY StringAssumption DEF Strings!Cell
  <1>1. zeros \in SUBSET Nat /\ zeros # {}
    BY <1>0 DEF Strings!Terminated
  <1>2. n = CHOOSE x \in zeros : \A y \in zeros : x <= y
    BY DEF Strings!Strlen, Strings!Min
  <1> HIDE DEF zeros, n
  <1>3. n \in zeros /\ \A y \in zeros : n <= y
    BY <1>1, <1>2, LeastOfNat
  <1>4. n \in Strings!Cell
    BY <1>3 DEF zeros
  <1>5. ASSUME NEW k \in Strings!Cell PROVE s[k] = NUL <=> n <= k
    <2>1. s[k] = NUL => n <= k
      BY <1>3 DEF zeros
    <2>2. s[k] = IF k < n THEN s[k] ELSE NUL
      <3>1. Strings!Strncpy(s)[k] = IF k < n THEN s[k] ELSE NUL
        BY DEF Strings!Strncpy, n
      <3> QED BY <3>1
    <2>3. k \in Nat /\ n \in Nat
      BY <1>0, <1>4
    <2> QED BY <2>1, <2>2, <2>3
  <1> QED BY <1>0, <1>4, <1>5 DEF Holds, n

(* A character inserted into a text, and one deleted from it.              *)
LEMMA InsertedText ==
    ASSUME NEW s, NEW n, Holds(s, n), NEW i \in 0 .. n, NEW c \in Char, NEW t,
           t = [k \in Strings!Cell |-> IF i < k /\ k <= n THEN s[k - 1]
                                       ELSE IF k = i THEN c ELSE s[k]]
    PROVE  /\ t \in Strings!Buffer
           /\ n + 1 < STRING_LIMIT => Holds(t, n + 1)
           /\ Strings!Visible(t) = Heap!InsertAt(Text(s, n), i + 1, c)
  <1>0. /\ STRING_LIMIT \in Nat /\ n \in Nat /\ n < STRING_LIMIT /\ i \in Nat /\ i <= n
        /\ \A k \in Strings!Cell : k \in Nat /\ k < STRING_LIMIT
    BY StringAssumption DEF Holds, Strings!Cell
  <1>1. ASSUME NEW k \in Strings!Cell
        PROVE  /\ t[k] \in Char \cup {NUL}
               /\ t[k] = NUL <=> n + 1 <= k
    <2>1. CASE i < k /\ k <= n
      <3>1. k - 1 \in Strings!Cell /\ t[k] = s[k - 1] /\ ~(n <= k - 1)
        BY <1>0, <2>1 DEF Strings!Cell
      <3> QED BY <1>0, <2>1, <3>1 DEF Holds, Strings!Buffer
    <2>2. CASE k = i
      BY <1>0, <2>2, StringAssumption
    <2>3. CASE k < i
      <3>1. t[k] = s[k] /\ ~(n <= k) /\ ~(n + 1 <= k)
        BY <1>0, <2>3
      <3> QED BY <3>1 DEF Holds, Strings!Buffer
    <2>4. CASE n < k
      <3>1. t[k] = s[k] /\ n <= k /\ n + 1 <= k
        BY <1>0, <2>4
      <3> QED BY <3>1 DEF Holds, Strings!Buffer
    <2> QED BY <1>0, <2>1, <2>2, <2>3, <2>4
  <1>2. t \in Strings!Buffer
    BY <1>1 DEF Strings!Buffer
  <1>3. n + 1 < STRING_LIMIT => Holds(t, n + 1)
    BY <1>0, <1>1, <1>2 DEF Holds
  <1>4. Strings!Visible(t) = Text(t, n + 1)
    <2>1. n + 1 \in 0 .. STRING_LIMIT /\ (n + 1 < STRING_LIMIT => n + 1 \in Strings!Cell)
      BY <1>0 DEF Strings!Cell
    <2>2. \A k \in Strings!Cell : k < n + 1 => t[k] # NUL
      BY <1>0, <1>1
    <2>3. n + 1 < STRING_LIMIT => t[n + 1] = NUL
      BY <1>0, <1>1, <2>1
    <2> QED BY <2>1, <2>2, <2>3, StrlenIs
  <1>5. Text(t, n + 1) = Heap!InsertAt(Text(s, n), i + 1, c)
    <2> DEFINE x == Text(s, n)
               y == Heap!InsertAt(x, i + 1, c)
    <2>1. x \in Seq(Char) /\ Len(x) = n
      BY HoldsText
    <2>2. \A k \in 1 .. n : x[k] = s[k - 1]
      BY DEF Text
    <2> HIDE DEF x
    <2>3. /\ y \in Seq(Char) /\ Len(y) = n + 1
          /\ \A k \in 1 .. n + 1 : y[k] = IF k < i + 1 THEN x[k]
                                         ELSE IF k = i + 1 THEN c ELSE x[k - 1]
      <3>1. PICK j \in 1 .. Len(x) + 1 : j = i + 1
        BY <1>0, <2>1
      <3>2. /\ Heap!InsertAt(x, j, c) \in Seq(Char) /\ Len(Heap!InsertAt(x, j, c)) = Len(x) + 1
            /\ \A k \in 1 .. Len(x) + 1 : Heap!InsertAt(x, j, c)[k] =
                  IF k < j THEN x[k] ELSE IF k = j THEN c ELSE x[k - 1]
        BY <2>1, InsertAtProperties
      <3>3. y = Heap!InsertAt(x, j, c)
        BY <3>1
      <3> HIDE DEF y
      <3> QED BY <2>1, <3>1, <3>2, <3>3
    <2> HIDE DEF y
    <2>4. ASSUME NEW k \in 1 .. n + 1 PROVE t[k - 1] = y[k]
      <3>0. k - 1 \in Strings!Cell /\ (k - 1) - 1 = k - 2
        BY <1>0 DEF Strings!Cell
      <3>1. CASE k < i + 1
        <4>1. k \in 1 .. n /\ ~(i < k - 1) /\ k - 1 # i
          BY <1>0, <3>1
        <4>2. t[k - 1] = s[k - 1]
          <5>1. \A j \in Strings!Cell : ~(i < j) /\ j # i => t[j] = s[j]
            OBVIOUS
          <5> QED BY <3>0, <4>1, <5>1
        <4>3. y[k] = x[k] /\ x[k] = s[k - 1]
          BY <2>2, <2>3, <3>1, <4>1
        <4> QED BY <4>2, <4>3
      <3>2. CASE k = i + 1
        <4>1. k - 1 = i /\ ~(i < k - 1) /\ ~(k < i + 1)
          BY <1>0, <3>2
        <4> QED BY <2>3, <3>0, <3>2, <4>1
      <3>3. CASE i + 1 < k
        <4>1. k - 1 \in 1 .. n /\ i < k - 1 /\ k - 1 <= n /\ ~(k < i + 1) /\ k # i + 1
          BY <1>0, <3>3
        <4>2. t[k - 1] = s[k - 1 - 1]
          <5>1. \A j \in Strings!Cell : i < j /\ j <= n => t[j] = s[j - 1]
            OBVIOUS
          <5> QED BY <3>0, <4>1, <5>1
        <4>3. y[k] = x[k - 1]
          BY <2>3, <4>1
        <4> QED BY <2>2, <4>1, <4>2, <4>3
      <3> QED BY <1>0, <3>1, <3>2, <3>3
    <2>5. Text(t, n + 1) = [k \in 1 .. n + 1 |-> t[k - 1]]
      BY DEF Text
    <2>6. y = [k \in 1 .. n + 1 |-> y[k]]
      BY <1>0, <2>3
    <2>7. Text(t, n + 1) = y
      BY <2>4, <2>5, <2>6
    <2> QED BY <2>7 DEF x, y
  <1> QED BY <1>2, <1>3, <1>4, <1>5

LEMMA DeletedText ==
    ASSUME NEW s, NEW n, Holds(s, n), NEW i \in 0 .. n, NEW t,
           t = [k \in Strings!Cell |-> IF i <= k /\ k < STRING_LIMIT - 1 THEN s[k + 1] ELSE s[k]]
    PROVE  /\ i = n => t = s
           /\ i < n => /\ Holds(t, n - 1)
                       /\ Strings!Visible(t) = Heap!RemoveAt(Text(s, n), i + 1)
  <1>0. /\ STRING_LIMIT \in Nat /\ n \in Nat /\ n < STRING_LIMIT /\ i \in Nat /\ i <= n
        /\ \A k \in Strings!Cell : k \in Nat /\ k < STRING_LIMIT
        /\ \A k \in Nat : k < STRING_LIMIT => k \in Strings!Cell
    BY StringAssumption DEF Holds, Strings!Cell
  <1>s. s = [k \in Strings!Cell |-> s[k]]
    BY DEF Holds, Strings!Buffer
  <1>1. ASSUME i = n PROVE t = s
    <2>1. ASSUME NEW k \in Strings!Cell
          PROVE  (IF i <= k /\ k < STRING_LIMIT - 1 THEN s[k + 1] ELSE s[k]) = s[k]
      <3>1. CASE i <= k /\ k < STRING_LIMIT - 1
        <4>1. k + 1 \in Strings!Cell /\ n <= k /\ n <= k + 1
          BY <1>0, <1>1, <3>1
        <4>2. s[k + 1] = NUL /\ s[k] = NUL
          BY <4>1 DEF Holds
        <4> QED BY <3>1, <4>2
      <3>2. CASE ~(i <= k /\ k < STRING_LIMIT - 1)
        BY <3>2
      <3> QED BY <3>1, <3>2
    <2> QED BY <1>s, <2>1
  <1>2. ASSUME i < n
        PROVE  /\ Holds(t, n - 1)
               /\ Strings!Visible(t) = Heap!RemoveAt(Text(s, n), i + 1)
    <2>1. ASSUME NEW k \in Strings!Cell
          PROVE  t[k] \in Char \cup {NUL} /\ (t[k] = NUL <=> n - 1 <= k)
      <3>1. CASE i <= k /\ k < STRING_LIMIT - 1
        <4>1. k + 1 \in Strings!Cell /\ t[k] = s[k + 1] /\ (n - 1 <= k <=> n <= k + 1)
          BY <1>0, <3>1
        <4> QED BY <4>1 DEF Holds, Strings!Buffer
      <3>2. CASE k < i
        <4>1. t[k] = s[k] /\ ~(n <= k) /\ ~(n - 1 <= k)
          BY <1>0, <1>2, <3>2
        <4> QED BY <4>1 DEF Holds, Strings!Buffer
      <3>3. CASE k = STRING_LIMIT - 1
        <4>1. t[k] = s[k] /\ n <= k /\ n - 1 <= k
          BY <1>0, <3>3
        <4> QED BY <4>1 DEF Holds, Strings!Buffer
      <3>4. k < STRING_LIMIT - 1 \/ k = STRING_LIMIT - 1
        BY <1>0
      <3> QED BY <1>0, <3>1, <3>2, <3>3, <3>4
    <2>2. Holds(t, n - 1)
      <3>1. t \in Strings!Buffer
        BY <2>1 DEF Strings!Buffer
      <3>2. n - 1 \in Nat /\ n - 1 < STRING_LIMIT
        BY <1>0, <1>2
      <3> QED BY <2>1, <3>1, <3>2 DEF Holds
    <2> DEFINE x == Text(s, n)
               y == Heap!RemoveAt(x, i + 1)
    <2>3. x \in Seq(Char) /\ Len(x) = n
      BY HoldsText
    <2>4. \A k \in 1 .. n : x[k] = s[k - 1]
      BY DEF Text
    <2> HIDE DEF x
    <2>5. /\ y \in Seq(Char) /\ Len(y) = n - 1
          /\ \A k \in 1 .. n - 1 : y[k] = IF k < i + 1 THEN x[k] ELSE x[k + 1]
      <3>1. i + 1 \in 1 .. Len(x)
        BY <1>0, <1>2, <2>3
      <3> QED BY <2>3, <3>1, RemoveAtProperties
    <2> HIDE DEF y
    <2>6. ASSUME NEW k \in 1 .. n - 1 PROVE t[k - 1] = y[k]
      <3>0. k - 1 \in Strings!Cell /\ k \in 1 .. n /\ k + 1 \in 1 .. n /\ (k + 1) - 1 = k
            /\ k - 1 < STRING_LIMIT - 1 /\ (k - 1) + 1 = k
        BY <1>0, <1>2
      <3>1. CASE k < i + 1
        <4>1. ~(i <= k - 1)
          BY <1>0, <3>1
        <4> QED BY <2>4, <2>5, <3>0, <3>1, <4>1
      <3>2. CASE i + 1 <= k
        <4>1. i <= k - 1 /\ ~(k < i + 1)
          BY <1>0, <3>2
        <4>2. t[k - 1] = s[k]
          BY <3>0, <4>1
        <4>3. y[k] = x[k + 1] /\ x[k + 1] = s[k]
          BY <2>4, <2>5, <3>0, <4>1
        <4> QED BY <4>2, <4>3
      <3> QED BY <1>0, <3>1, <3>2
    <2>7. Text(t, n - 1) = y
      <3>1. Text(t, n - 1) = [k \in 1 .. n - 1 |-> t[k - 1]]
        BY DEF Text
      <3>2. y = [k \in 1 .. n - 1 |-> y[k]]
        BY <1>0, <1>2, <2>5
      <3> QED BY <2>6, <3>1, <3>2
    <2>8. Strings!Visible(t) = Text(t, n - 1)
      BY <2>2, HoldsText
    <2> QED BY <2>2, <2>7, <2>8 DEF x, y
  <1> QED BY <1>1, <1>2

(* strcpy leaves what was behind the terminator: one zero at the most.     *)
LEMMA CopiedText ==
    ASSUME NEW s, NEW n, Holds(s, n), NEW p, NEW m, Holds(p, m), n <= m + 1
    PROVE  Strings!Strcpy(s, p) = p
  <1>0. /\ STRING_LIMIT \in Nat /\ n \in Nat /\ m \in Nat
        /\ \A k \in Strings!Cell : k \in Nat
    BY StringAssumption DEF Holds, Strings!Cell
  <1>1. Strings!Strlen(p) = m
    BY HoldsText
  <1>2. ASSUME NEW k \in Strings!Cell
        PROVE  (IF k < m THEN p[k] ELSE IF k = m THEN NUL ELSE s[k]) = p[k]
    <2>1. CASE k <= m
      BY <1>0, <2>1 DEF Holds
    <2>2. CASE m < k
      <3>1. n <= k /\ m <= k /\ ~(k < m) /\ k # m
        BY <1>0, <2>2
      <3>2. s[k] = NUL /\ p[k] = NUL
        BY <3>1 DEF Holds
      <3> QED BY <3>1, <3>2
    <2> QED BY <1>0, <2>1, <2>2
  <1>3. p = [k \in Strings!Cell |-> p[k]]
    BY DEF Holds, Strings!Buffer
  <1> QED BY <1>1, <1>2, <1>3 DEF Strings!Strcpy

-----------------------------------------------------------------------------
(* The string server.  Entry 0 is the string, entry i the string before    *)
(* the i last edits.  Every entry that undo may reach is padded with zeros *)
(* and shorter by one at most than the entry before it, so that strcpy     *)
(* leaves nothing of the longer text behind.                               *)
Entry(i) == IF i = 0 THEN string ELSE prev[i]
LengthOf(i) == Strings!Strlen(Entry(i))

Sound ==
    /\ \A i \in 0 .. Strings!Capped : Holds(Entry(i), LengthOf(i))
    /\ \A i \in 1 .. Strings!Capped : LengthOf(i - 1) <= LengthOf(i) + 1

StringInv == Strings!TypeOK /\ (at # "undefined" => Sound)

AskedStep ==
    [Strings!Asked!Insert \/ Strings!Asked!Delete \/ Strings!Asked!DeleteNothing
       \/ Strings!Asked!Undo]_<<Strings!Visible(string), Strings!History>>

LEMMA CappedIs ==
    ASSUME Strings!TypeOK
    PROVE  /\ Strings!Capped \in 0 .. 3
           /\ Strings!Capped = IF num_undos > 3 THEN 3 ELSE num_undos
           /\ Strings!UNDO_LIMIT = 3
           /\ prev = <<prev[1], prev[2], prev[3]>>
           /\ \A i \in 1 .. 3 : prev[i] \in Strings!Buffer \cup {None}
  <1>1. Strings!UNDO_LIMIT = 3 /\ num_undos \in 0 .. 4
    BY DEF Strings!TypeOK, Strings!UNDO_LIMIT
  <1>2. Strings!Capped = IF num_undos > 3 THEN 3 ELSE num_undos
    BY <1>1 DEF Strings!Capped
  <1>3. prev \in Seq(Strings!Buffer \cup {None}) /\ Len(prev) = 3
    BY <1>1 DEF Strings!TypeOK
  <1>4. \A i \in 1 .. 3 : prev[i] \in Strings!Buffer \cup {None}
    <2>1. \A i \in 1 .. Len(prev) : prev[i] \in Strings!Buffer \cup {None}
      BY <1>3, RangeIs
    <2> QED BY <1>3, <2>1
  <1>5. prev = <<prev[1], prev[2], prev[3]>>
    BY <1>3
  <1> QED BY <1>1, <1>2, <1>4, <1>5

LEMMA CopyIsBuffer ==
    ASSUME NEW s \in Strings!Buffer \cup {None}
    PROVE  Strings!CopyOf(s) \in Strings!Buffer \cup {None}
  <1>1. CASE s = None
    BY <1>1 DEF Strings!CopyOf
  <1>2. CASE s \in Strings!Buffer
    <2>1. \A i \in Strings!Cell : (IF i < Strings!Strlen(s) THEN s[i] ELSE NUL) \in Char \cup {NUL}
      BY <1>2 DEF Strings!Buffer
    <2>2. Strings!Strncpy(s) \in Strings!Buffer
      BY <2>1 DEF Strings!Strncpy, Strings!Buffer
    <2> QED BY <2>2 DEF Strings!CopyOf
  <1> QED BY <1>1, <1>2

(* Copies of what the entries hold are what they hold.                     *)
LEMMA CopyIsEntry ==
    ASSUME Sound, NEW i \in 0 .. Strings!Capped
    PROVE  /\ Strings!CopyOf(Entry(i)) = Entry(i)
           /\ Holds(Entry(i), LengthOf(i)) /\ LengthOf(i) \in Nat
  <1>1. Holds(Entry(i), LengthOf(i))
    BY DEF Sound
  <1>2. Strings!Strncpy(Entry(i)) = Entry(i) /\ Entry(i) # None
    BY <1>1, HoldsText
  <1> QED BY <1>1, <1>2 DEF Strings!CopyOf, Holds

(* The oldest of four texts is dropped.                                    *)
LastThree(all) == IF Len(all) > 3 THEN Tail(all) ELSE all
Latest(V, n) == [i \in 1 .. n |-> V[n - i]]

LEMMA LastThreeAre ==
    ASSUME NEW V, NEW c \in 0 .. 3, NEW d, d = IF c < 3 THEN c + 1 ELSE 3,
           NEW before, before = [i \in 1 .. c |-> V[c + 1 - i]]
    PROVE  LastThree(Append(before, V[0])) = Latest(V, d)
  <1> DEFINE S == {V[i] : i \in 0 .. 3}
             all == Append(before, V[0])
  <1>1. /\ before \in Seq(S) /\ Len(before) = c /\ V[0] \in S
        /\ \A i \in 1 .. c : before[i] = V[c + 1 - i]
    <2>1. \A i \in 1 .. c : V[c + 1 - i] \in S
      <3>1. \A i \in 1 .. c : c + 1 - i \in 0 .. 3
        OBVIOUS
      <3> QED BY <3>1
    <2> HIDE DEF S
    <2>2. before \in Seq(S) /\ Len(before) = c
      BY <2>1
    <2>3. V[0] \in S
      BY DEF S
    <2> QED BY <2>2, <2>3
  <1> HIDE DEF S
  <1>2. /\ all \in Seq(S) /\ Len(all) = c + 1
        /\ \A i \in 1 .. c : all[i] = before[i]
        /\ all[c + 1] = V[0]
    BY <1>1, AppendProperties
  <1> HIDE DEF all
  <1>3. ASSUME NEW i \in 1 .. c + 1 PROVE all[i] = V[c + 1 - i]
    <2>1. CASE i \in 1 .. c
      BY <1>1, <1>2, <2>1
    <2>2. CASE i = c + 1
      <3>1. c + 1 - i = 0
        BY <2>2
      <3> QED BY <1>2, <2>2, <3>1
    <2> QED BY <2>1, <2>2
  <1>4. CASE c < 3
    <2>1. d = c + 1 /\ ~(Len(all) > 3)
      BY <1>2, <1>4
    <2>2. all = [i \in 1 .. d |-> all[i]]
      BY <1>2, <2>1
    <2>3. \A i \in 1 .. d : all[i] = V[d - i]
      BY <1>3, <2>1
    <2>4. all = Latest(V, d)
      BY <2>2, <2>3 DEF Latest
    <2> QED BY <2>1, <2>4 DEF LastThree, all
  <1>5. CASE c = 3
    <2>1. d = 3 /\ Len(all) = 4 /\ all # <<>>
      BY <1>2, <1>5
    <2>2. PICK r : r = Tail(all)
      OBVIOUS
    <2>3. /\ r \in Seq(S) /\ Len(r) = Len(all) - 1
          /\ \A i \in 1 .. Len(r) : r[i] = all[i + 1]
      <3>1. /\ Tail(all) \in Seq(S) /\ Len(Tail(all)) = Len(all) - 1
            /\ \A i \in 1 .. Len(Tail(all)) : Tail(all)[i] = all[i + 1]
        BY <1>2, <2>1, HeadTailProperties
      <3> QED BY <2>2, <3>1, Zenon
    <2>4. Len(r) = 3 /\ r = [i \in 1 .. 3 |-> r[i]]
      BY <2>1, <2>3
    <2>5. ASSUME NEW i \in 1 .. 3 PROVE r[i] = V[3 - i]
      <3>1. i + 1 \in 1 .. c + 1 /\ c + 1 - (i + 1) = 3 - i
        BY <1>5
      <3>2. all[i + 1] = V[3 - i]
        BY <1>3, <3>1
      <3> QED BY <2>3, <2>4, <3>2
    <2>6. r = Latest(V, 3)
      BY <2>4, <2>5 DEF Latest
    <2>7. LastThree(all) = r
      BY <2>1, <2>2 DEF LastThree
    <2> QED BY <2>1, <2>6, <2>7 DEF all
  <1> QED BY <1>4, <1>5

(* An edit moves the entries one place on, and the last one falls off.     *)
LEMMA RememberShifts ==
    ASSUME Strings!TypeOK, Sound, Strings!Remember
    PROVE  /\ prev' \in Seq(Strings!Buffer \cup {None}) /\ Len(prev') = 3 /\ num_undos' \in 1 .. 4
           /\ Strings!Capped' = IF Strings!Capped < 3 THEN Strings!Capped + 1 ELSE 3
           /\ \A i \in 1 .. Strings!Capped' : prev'[i] = Entry(i - 1)
           /\ Strings!Asked!Edit
  <1> DEFINE c == Strings!Capped
             d == Strings!Capped'
  <1>0. /\ c \in 0 .. 3 /\ Strings!UNDO_LIMIT = 3
        /\ \A i \in 1 .. 3 : prev[i] \in Strings!Buffer \cup {None}
        /\ string \in Strings!Buffer
    BY CappedIs DEF Strings!TypeOK
  <1>1. /\ prev' = <<Strings!CopyOf(string), Strings!CopyOf(prev[1]), Strings!CopyOf(prev[2])>>
        /\ num_undos' = c + 1
    BY DEF Strings!Remember, Strings!Pushed
  <1>2. /\ Strings!CopyOf(string) \in Strings!Buffer \cup {None}
        /\ Strings!CopyOf(prev[1]) \in Strings!Buffer \cup {None}
        /\ Strings!CopyOf(prev[2]) \in Strings!Buffer \cup {None}
    BY <1>0, CopyIsBuffer
  <1>3. prev' \in Seq(Strings!Buffer \cup {None}) /\ Len(prev') = 3
    BY <1>1, <1>2
  <1>4. d = IF c < 3 THEN c + 1 ELSE 3
    <2>1. Strings!Capped' = IF num_undos' > 3 THEN 3 ELSE num_undos'
      BY <1>0 DEF Strings!Capped, Strings!UNDO_LIMIT
    <2> QED BY <1>0, <1>1, <2>1
  <1>5. ASSUME NEW i \in 1 .. d PROVE prev'[i] = Entry(i - 1)
    <2>1. i \in 1 .. 3 /\ i - 1 \in 0 .. c
      BY <1>0, <1>4
    <2>2. Strings!CopyOf(Entry(i - 1)) = Entry(i - 1)
      BY <2>1, CopyIsEntry
    <2>3. CASE i = 1
      <3>1. Entry(i - 1) = string
        BY <2>3 DEF Entry
      <3> QED BY <1>1, <2>2, <2>3, <3>1
    <2>4. CASE i = 2
      <3>1. Entry(i - 1) = prev[1]
        BY <2>4 DEF Entry
      <3> QED BY <1>1, <2>2, <2>4, <3>1
    <2>5. CASE i = 3
      <3>1. Entry(i - 1) = prev[2]
        BY <2>5 DEF Entry
      <3> QED BY <1>1, <2>2, <2>5, <3>1
    <2> QED BY <2>1, <2>3, <2>4, <2>5
  <1>6. Strings!Asked!Edit
    <2> DEFINE V == [i \in 0 .. 3 |-> Strings!Visible(Entry(i))]
    <2>1. Strings!History = [i \in 1 .. c |-> V[c + 1 - i]]
      <3>1. \A i \in 1 .. c : c + 1 - i \in 0 .. 3 /\ prev[c + 1 - i] = Entry(c + 1 - i)
        BY <1>0 DEF Entry
      <3> QED BY <3>1 DEF Strings!History
    <2>2. Strings!History' = [i \in 1 .. d |-> V[d - i]]
      <3>1. \A i \in 1 .. d : d - i \in 0 .. 3 /\ prev'[d + 1 - i] = Entry(d - i)
        <4> SUFFICES ASSUME NEW i \in 1 .. d
                     PROVE  d - i \in 0 .. 3 /\ prev'[d + 1 - i] = Entry(d - i)
          OBVIOUS
        <4>1. d + 1 - i \in 1 .. d /\ (d + 1 - i) - 1 = d - i /\ d - i \in 0 .. 3
          BY <1>0, <1>4
        <4> QED BY <1>5, <4>1
      <3>2. Strings!History' = [i \in 1 .. d |-> Strings!Visible(prev'[d + 1 - i])]
        BY DEF Strings!History, Strings!Visible, Strings!Strlen, Strings!Terminated
      <3> QED BY <3>1, <3>2
    <2>3. V[0] = Strings!Visible(string)
      BY DEF Entry
    <2> HIDE DEF V, c, d
    <2>4. Strings!Asked!Remembered = Latest(V, d)
      <3>1. LastThree(Append(Strings!History, V[0])) = Latest(V, d)
        BY <1>0, <1>4, <2>1, LastThreeAre
      <3> QED BY <1>0, <2>3, <3>1 DEF Strings!Asked!Remembered, LastThree
    <2> QED BY <2>2, <2>4 DEF Strings!Asked!Edit, Latest
  <1>7. num_undos' \in 1 .. 4
    BY <1>0, <1>1
  <1> QED BY <1>3, <1>4, <1>5, <1>6, <1>7

(* What the entries are after a step decides whether it was sound.         *)
LEMMA SoundNext ==
    ASSUME NEW d \in 0 .. 3, Strings!Capped' = d, NEW e,
           e[0] = string', \A i \in 1 .. d : e[i] = prev'[i],
           \A i \in 0 .. d : Holds(e[i], Strings!Strlen(e[i])),
           \A i \in 1 .. d : Strings!Strlen(e[i - 1]) <= Strings!Strlen(e[i]) + 1
    PROVE  Sound'
  <1>1. \A i \in 0 .. d : Entry(i)' = e[i]
    BY DEF Entry
  <1>2. \A i \in 0 .. d : LengthOf(i)' = Strings!Strlen(e[i])
    BY <1>1 DEF LengthOf, Strings!Strlen, Strings!Terminated
  <1>3. ASSUME NEW i \in 0 .. d PROVE Holds(Entry(i), LengthOf(i))'
    <2>1. Holds(Entry(i)', LengthOf(i)')
      BY <1>1, <1>2
    <2> QED BY <2>1 DEF Holds
  <1>4. ASSUME NEW i \in 1 .. d PROVE (LengthOf(i - 1) <= LengthOf(i) + 1)'
    <2>1. i - 1 \in 0 .. d /\ i \in 0 .. d
      OBVIOUS
    <2> QED BY <1>2, <2>1
  <1> QED BY <1>3, <1>4 DEF Sound

LEMMA EditKeepsSound ==
    ASSUME Strings!TypeOK, Sound, Strings!Remember,
           NEW m, Holds(string', m), m <= LengthOf(0) + 1
    PROVE  Sound'
  <1> DEFINE c == Strings!Capped
             d == Strings!Capped'
             e == [i \in 0 .. 3 |-> IF i = 0 THEN string' ELSE Entry(i - 1)]
  <1>1. c \in 0 .. 3 /\ d = IF c < 3 THEN c + 1 ELSE 3
    BY CappedIs, RememberShifts
  <1>2. e[0] = string' /\ \A i \in 1 .. 3 : e[i] = Entry(i - 1)
    OBVIOUS
  <1>3. \A i \in 1 .. d : prev'[i] = Entry(i - 1)
    BY RememberShifts
  <1>4. Strings!Strlen(e[0]) = m
    BY <1>2, HoldsText
  <1>5. \A i \in 0 .. c : LengthOf(i) = Strings!Strlen(Entry(i)) /\ LengthOf(i) \in Nat
    BY CopyIsEntry DEF LengthOf
  <1> HIDE DEF c, d, e
  <1>6. d \in 0 .. 3 /\ \A i \in 1 .. d : i - 1 \in 0 .. c
    BY <1>1
  <1>7. ASSUME NEW i \in 0 .. d PROVE Holds(e[i], Strings!Strlen(e[i]))
    <2>1. CASE i = 0
      BY <1>2, <1>4, <2>1
    <2>2. CASE i \in 1 .. d
      <3>1. i - 1 \in 0 .. c /\ e[i] = Entry(i - 1)
        BY <1>2, <1>6, <2>2
      <3>2. Holds(Entry(i - 1), LengthOf(i - 1))
        BY <3>1, CopyIsEntry DEF c
      <3> QED BY <1>5, <3>1, <3>2
    <2> QED BY <1>6, <2>1, <2>2
  <1>8. ASSUME NEW i \in 1 .. d PROVE Strings!Strlen(e[i - 1]) <= Strings!Strlen(e[i]) + 1
    <2>1. i - 1 \in 0 .. c /\ e[i] = Entry(i - 1) /\ Strings!Strlen(e[i]) = LengthOf(i - 1)
      BY <1>2, <1>5, <1>6
    <2>2. CASE i = 1
      BY <1>4, <2>1, <2>2
    <2>3. CASE 1 < i
      <3>1. i - 1 \in 1 .. c /\ i - 1 \in 1 .. 3 /\ (i - 1) - 1 \in 0 .. c
        BY <1>1, <1>6, <2>1, <2>3
      <3>2. e[i - 1] = Entry((i - 1) - 1)
        BY <1>2, <3>1
      <3>3. LengthOf((i - 1) - 1) <= LengthOf(i - 1) + 1
        BY <3>1 DEF Sound, c
      <3>4. Strings!Strlen(e[i - 1]) = LengthOf((i - 1) - 1)
        BY <1>5, <3>1, <3>2
      <3> QED BY <2>1, <3>3, <3>4
    <2> QED BY <1>6, <2>2, <2>3
  <1>9. \A i \in 1 .. d : e[i] = prev'[i]
    BY <1>2, <1>3, <1>6
  <1> QED BY <1>2, <1>6, <1>7, <1>8, <1>9, SoundNext DEF d

(* Undo moves the entries one place back.                                  *)
LEMMA UndoShifts ==
    ASSUME Strings!TypeOK, Sound, Strings!Capped > 0,
           string' = Strings!Strcpy(string, prev[1]),
           prev' = <<Strings!CopyOf(prev[2]), Strings!CopyOf(prev[3]), prev[3]>>,
           num_undos' = Strings!Capped - 1
    PROVE  /\ string' \in Strings!Buffer
           /\ prev' \in Seq(Strings!Buffer \cup {None}) /\ Len(prev') = 3 /\ num_undos' \in 0 .. 3
           /\ Sound'
           /\ Strings!Asked!Undo
  <1> DEFINE c == Strings!Capped
             d == Strings!Capped'
  <1>0. /\ c \in 1 .. 3 /\ Strings!UNDO_LIMIT = 3
        /\ \A i \in 1 .. 3 : prev[i] \in Strings!Buffer \cup {None}
    BY CappedIs
  <1>1. num_undos' = c - 1 /\ d = c - 1
    <2>1. d = IF num_undos' > 3 THEN 3 ELSE num_undos'
      BY <1>0 DEF Strings!Capped, Strings!UNDO_LIMIT
    <2> QED BY <1>0, <2>1
  <1>2. /\ Strings!CopyOf(prev[2]) \in Strings!Buffer \cup {None}
        /\ Strings!CopyOf(prev[3]) \in Strings!Buffer \cup {None}
    BY <1>0, CopyIsBuffer
  <1>3. prev' \in Seq(Strings!Buffer \cup {None}) /\ Len(prev') = 3
    BY <1>0, <1>2
  <1>4. string' = Entry(1) /\ string' \in Strings!Buffer
    <2>1. 0 \in 0 .. c /\ 1 \in 0 .. c /\ 1 \in 1 .. c
      BY <1>0
    <2>2. Entry(0) = string /\ Entry(1) = prev[1]
      BY DEF Entry
    <2>3. Holds(string, LengthOf(0)) /\ Holds(prev[1], LengthOf(1))
      BY <2>1, <2>2, CopyIsEntry
    <2>4. LengthOf(0) <= LengthOf(1) + 1
      <3>1. LengthOf(1 - 1) <= LengthOf(1) + 1
        BY <2>1 DEF Sound
      <3> QED BY <3>1
    <2>5. Strings!Strcpy(string, prev[1]) = prev[1]
      BY <2>3, <2>4, CopiedText
    <2> QED BY <2>2, <2>3, <2>5 DEF Holds
  <1>5. ASSUME NEW i \in 1 .. d PROVE prev'[i] = Entry(i + 1)
    <2>1. i \in 1 .. 2 /\ i + 1 \in 0 .. c
      BY <1>0, <1>1
    <2>2. Strings!CopyOf(Entry(i + 1)) = Entry(i + 1)
      BY <2>1, CopyIsEntry
    <2>3. CASE i = 1
      <3>1. Entry(i + 1) = prev[2]
        BY <2>3 DEF Entry
      <3> QED BY <2>2, <2>3, <3>1
    <2>4. CASE i = 2
      <3>1. Entry(i + 1) = prev[3]
        BY <2>4 DEF Entry
      <3> QED BY <2>2, <2>4, <3>1
    <2> QED BY <2>1, <2>3, <2>4
  <1>6. Sound'
    <2> DEFINE e == [i \in 0 .. 2 |-> Entry(i + 1)]
    <2>1. d \in 0 .. 2 /\ d \in 0 .. 3 /\ \A i \in 0 .. d : i + 1 \in 1 .. c /\ e[i] = Entry(i + 1)
      BY <1>0, <1>1
    <2>2. e[0] = string' /\ \A i \in 1 .. d : e[i] = prev'[i]
      <3>1. e[0] = Entry(1)
        OBVIOUS
      <3> QED BY <1>4, <1>5, <2>1, <3>1
    <2>3. \A i \in 0 .. d : Holds(e[i], Strings!Strlen(e[i]))
      BY <2>1 DEF Sound, LengthOf
    <2> HIDE DEF e, c, d
    <2>4. ASSUME NEW i \in 1 .. d PROVE Strings!Strlen(e[i - 1]) <= Strings!Strlen(e[i]) + 1
      <3>1. i - 1 \in 0 .. d /\ i \in 0 .. d /\ (i - 1) + 1 = i /\ i + 1 \in 1 .. c
        BY <2>1
      <3>2. LengthOf((i + 1) - 1) <= LengthOf(i + 1) + 1
        BY <3>1 DEF Sound, c
      <3>3. e[i - 1] = Entry((i + 1) - 1) /\ e[i] = Entry(i + 1)
        BY <2>1, <3>1
      <3> QED BY <3>2, <3>3 DEF LengthOf
    <2> QED BY <2>1, <2>2, <2>3, <2>4, SoundNext DEF d
  <1>7. Strings!Asked!Undo
    <2> DEFINE V == [i \in 0 .. 3 |-> Strings!Visible(Entry(i))]
               h == Strings!History
    <2>1. h = [i \in 1 .. c |-> V[c + 1 - i]]
      <3>1. \A i \in 1 .. c : c + 1 - i \in 0 .. 3 /\ prev[c + 1 - i] = Entry(c + 1 - i)
        BY <1>0 DEF Entry
      <3> QED BY <3>1 DEF Strings!History
    <2>2. Strings!History' = [i \in 1 .. d |-> V[c + 1 - i]]
      <3>1. \A i \in 1 .. d : c + 1 - i \in 0 .. 3 /\ prev'[d + 1 - i] = Entry(c + 1 - i)
        <4> SUFFICES ASSUME NEW i \in 1 .. d
                     PROVE  c + 1 - i \in 0 .. 3 /\ prev'[d + 1 - i] = Entry(c + 1 - i)
          OBVIOUS
        <4>1. d + 1 - i \in 1 .. d /\ (d + 1 - i) + 1 = c + 1 - i /\ c + 1 - i \in 0 .. 3
          BY <1>0, <1>1
        <4> QED BY <1>5, <4>1
      <3>2. Strings!History' = [i \in 1 .. d |-> Strings!Visible(prev'[d + 1 - i])]
        BY DEF Strings!History, Strings!Visible, Strings!Strlen, Strings!Terminated
      <3> QED BY <3>1, <3>2
    <2>3. Strings!Visible(string)' = V[1]
      <3>1. Strings!Visible(string)' = Strings!Visible(string')
        BY DEF Strings!Visible, Strings!Strlen, Strings!Terminated
      <3> QED BY <1>4, <3>1
    <2> HIDE DEF V, c, d, h
    <2>4. Len(h) = c /\ h # <<>> /\ h[c] = V[1]
      BY <1>0, <2>1
    <2>5. Strings!Asked!Last(h) = V[1]
      BY <2>4 DEF Strings!Asked!Last
    <2>6. Strings!Asked!Front(h) = [i \in 1 .. d |-> V[c + 1 - i]]
      <3>1. \A i \in 1 .. d : h[i] = V[c + 1 - i]
        BY <1>0, <1>1, <2>1
      <3>2. Strings!Asked!Front(h) = [i \in 1 .. d |-> h[i]]
        BY <1>0, <1>1, <2>4 DEF Strings!Asked!Front
      <3> QED BY <3>1, <3>2
    <2> QED BY <2>2, <2>3, <2>4, <2>5, <2>6 DEF Strings!Asked!Undo, h
  <1>8. num_undos' \in 0 .. 3
    BY <1>0, <1>1
  <1> QED BY <1>3, <1>4, <1>6, <1>7, <1>8

(* A request that is refused, or only reports, changes no entry.           *)
LEMMA LeftAlone ==
    ASSUME Strings!TypeOK, UNCHANGED <<string, prev>>, num_undos' \in {num_undos, Strings!Capped}
    PROVE  /\ Strings!Capped' = Strings!Capped /\ num_undos' \in 0 .. 4
           /\ Sound => Sound'
           /\ UNCHANGED <<Strings!Visible(string), Strings!History>>
  <1>1. Strings!Capped' = Strings!Capped /\ num_undos' \in 0 .. 4
    <2>1. num_undos \in 0 .. 4
      BY DEF Strings!TypeOK, Strings!UNDO_LIMIT
    <2>2. Strings!Capped' = IF num_undos' > 3 THEN 3 ELSE num_undos'
      BY DEF Strings!Capped, Strings!UNDO_LIMIT
    <2> QED BY <2>1, <2>2, CappedIs
  <1>2. ASSUME Sound PROVE Sound'
    <2>1. \A i : Entry(i)' = Entry(i) /\ LengthOf(i)' = LengthOf(i)
      BY DEF Entry, LengthOf, Strings!Strlen, Strings!Terminated
    <2>2. \A i \in 0 .. Strings!Capped : Holds(Entry(i), LengthOf(i))'
      BY <1>2, <2>1 DEF Sound, Holds
    <2>3. \A i \in 1 .. Strings!Capped : (LengthOf(i - 1) <= LengthOf(i) + 1)'
      BY <1>2, <2>1 DEF Sound
    <2> QED BY <1>1, <2>2, <2>3 DEF Sound
  <1>3. Strings!Visible(string)' = Strings!Visible(string)
    BY DEF Strings!Visible, Strings!Strlen, Strings!Terminated
  <1>4. Strings!History' = Strings!History
    BY <1>1 DEF Strings!History, Strings!Visible, Strings!Strlen, Strings!Terminated
  <1> QED BY <1>1, <1>2, <1>3, <1>4

ProcessedOK ==
    /\ string' \in Strings!Buffer
    /\ prev' \in Seq(Strings!Buffer \cup {None}) /\ Len(prev') = 3 /\ num_undos' \in 0 .. 4
    /\ at' \in {"receive", "send", "stopped", "undefined"}
    /\ at' # "undefined" => Sound'
    /\ AskedStep

LEMMA ProcessKeeps ==
    ASSUME Strings!TypeOK, Sound, NEW r \in Strings!Request, Strings!Process(r)
    PROVE  ProcessedOK
  <1> DEFINE n == LengthOf(0)
  <1>0. /\ Holds(string, n) /\ n = Strings!len /\ n \in Nat /\ n < STRING_LIMIT
        /\ STRING_LIMIT \in Nat /\ Strings!Visible(string) = Text(string, n)
        /\ Len(Strings!Visible(string)) = n
    <2>1. 0 \in 0 .. Strings!Capped /\ Entry(0) = string
      BY CappedIs DEF Entry
    <2>2. Holds(string, n)
      BY <2>1, CopyIsEntry
    <2>3. Strings!Visible(string) = Text(string, n) /\ Len(Text(string, n)) = n
      BY <2>2, HoldsText
    <2> QED BY <2>1, <2>2, <2>3, StringAssumption DEF Holds, Strings!len, LengthOf
  <1>1. Strings!Visible(string)' = Strings!Visible(string')
    BY DEF Strings!Visible, Strings!Strlen, Strings!Terminated
  <1> HIDE DEF n
  <1>2. ASSUME UNCHANGED <<string, prev>>, num_undos' = Strings!Capped,
               at' \in {"send", "undefined"}
        PROVE  ProcessedOK
    <2>1. Sound' /\ num_undos' \in 0 .. 4 /\ AskedStep
      BY <1>2, LeftAlone DEF AskedStep
    <2> QED BY <1>2, <2>1 DEF ProcessedOK, Strings!TypeOK, Strings!UNDO_LIMIT
  <1>3. CASE r.command = "i" /\ r.index <= Strings!len /\ Strings!Remember
             /\ string' = Strings!InsertedAt(r.index, r.character)
             /\ at' = IF Strings!len = STRING_LIMIT - 1 THEN "undefined" ELSE "send"
    <2>1. r.index \in 0 .. n /\ r.character \in Char
      <3>1. r \in [command : {"i"}, index : 0 .. STRING_LIMIT - 1, character : Char]
        BY <1>3 DEF Strings!Request
      <3> QED BY <1>0, <1>3, <3>1
    <2>2. string' = [k \in Strings!Cell |-> IF r.index < k /\ k <= n THEN string[k - 1]
                                            ELSE IF k = r.index THEN r.character ELSE string[k]]
      BY <1>0, <1>3 DEF Strings!InsertedAt
    <2>3. /\ string' \in Strings!Buffer
          /\ n + 1 < STRING_LIMIT => Holds(string', n + 1)
          /\ Strings!Visible(string') = Heap!InsertAt(Text(string, n), r.index + 1, r.character)
      BY <1>0, <2>1, <2>2, InsertedText
    <2>4. Strings!Asked!Insert
      <3>1. r.index + 1 \in 1 .. Len(Strings!Visible(string)) + 1
        BY <1>0, <2>1
      <3>2. Strings!Visible(string)' =
              Strings!Asked!InsertAt(Strings!Visible(string), r.index + 1, r.character)
        BY <1>0, <1>1, <2>3 DEF Strings!Asked!InsertAt, Heap!InsertAt
      <3>3. Strings!Asked!Edit
        BY <1>3, RememberShifts
      <3> QED BY <2>1, <3>1, <3>2, <3>3 DEF Strings!Asked!Insert
    <2>5. ASSUME at' # "undefined" PROVE Sound'
      <3>1. n + 1 < STRING_LIMIT
        BY <1>0, <1>3, <2>5
      <3> QED BY <1>0, <1>3, <2>3, <3>1, EditKeepsSound DEF n
    <2> QED BY <1>3, <2>3, <2>4, <2>5, RememberShifts DEF ProcessedOK, AskedStep
  <1>4. CASE r.command = "d" /\ r.index <= Strings!len /\ Strings!Remember
             /\ string' = Strings!Deleted(r.index) /\ at' = "send"
    <2>1. r.index \in 0 .. n
      <3>1. r \in [command : {"d"}, index : 0 .. STRING_LIMIT - 1]
        BY <1>4 DEF Strings!Request
      <3> QED BY <1>0, <1>4, <3>1
    <2>2. string' = [k \in Strings!Cell |-> IF r.index <= k /\ k < STRING_LIMIT - 1
                                            THEN string[k + 1] ELSE string[k]]
      BY <1>4 DEF Strings!Deleted
    <2>3. /\ r.index = n => string' = string
          /\ r.index < n => /\ Holds(string', n - 1)
                            /\ Strings!Visible(string') = Heap!RemoveAt(Text(string, n), r.index + 1)
      BY <1>0, <2>1, <2>2, DeletedText
    <2>4. Strings!Asked!Edit
      BY <1>4, RememberShifts
    <2>5. CASE r.index = n
      <3>1. Strings!Asked!DeleteNothing
        BY <1>1, <2>3, <2>4, <2>5 DEF Strings!Asked!DeleteNothing
      <3>2. Sound'
        BY <1>0, <1>4, <2>3, <2>5, EditKeepsSound DEF n
      <3> QED BY <1>0, <1>4, <2>3, <2>5, <3>1, <3>2, RememberShifts
              DEF ProcessedOK, AskedStep, Holds
    <2>6. CASE r.index < n
      <3>1. r.index + 1 \in 1 .. Len(Strings!Visible(string))
        BY <1>0, <2>1, <2>6
      <3>2. Strings!Visible(string)' =
              Strings!Asked!RemoveAt(Strings!Visible(string), r.index + 1)
        BY <1>0, <1>1, <2>3, <2>6 DEF Strings!Asked!RemoveAt, Heap!RemoveAt
      <3>3. Strings!Asked!Delete
        BY <2>4, <3>1, <3>2 DEF Strings!Asked!Delete
      <3>4. Sound'
        <4>1. Holds(string', n - 1) /\ n - 1 <= LengthOf(0) + 1
          BY <1>0, <2>3, <2>6 DEF n
        <4> QED BY <1>4, <4>1, EditKeepsSound
      <3> QED BY <1>4, <2>3, <2>6, <3>3, <3>4, RememberShifts DEF ProcessedOK, AskedStep, Holds
    <2> QED BY <1>0, <2>1, <2>5, <2>6
  <1>5. CASE /\ Strings!Capped > 0 /\ string' = Strings!Strcpy(string, prev[1])
             /\ prev' = <<Strings!CopyOf(prev[2]), Strings!CopyOf(prev[3]), prev[3]>>
             /\ num_undos' = Strings!Capped - 1 /\ at' = "send"
    BY <1>5, UndoShifts DEF ProcessedOK, AskedStep
  <1> QED BY <1>2, <1>3, <1>4, <1>5 DEF Strings!Process, Strings!Refused

LEMMA StringsNextKeeps ==
    ASSUME StringInv, Strings!Next
    PROVE  StringInv' /\ AskedStep
  <1>0. /\ Strings!TypeOK /\ STRING_LIMIT \in Nat /\ mq_maxmsg \in Nat
        /\ serverQueue \in 0 .. mq_maxmsg /\ clientQueue \in 0 .. mq_maxmsg
    BY StringAssumption DEF StringInv, Strings!TypeOK
  <1>1. ASSUME ProcessedOK, serving' \in BOOLEAN, request' \in Strings!Request \cup {None},
               serverQueue' \in 0 .. mq_maxmsg, UNCHANGED <<clientQueue, client>>
        PROVE  StringInv' /\ AskedStep
    BY <1>0, <1>1 DEF ProcessedOK, StringInv, Strings!TypeOK, Strings!Buffer, Strings!Cell,
                      Strings!UNDO_LIMIT, Strings!Request
  <1>2. ASSUME UNCHANGED <<string, prev, num_undos>>,
               at' \in {"receive", "send", "stopped"} \/ UNCHANGED at,
               at' # "undefined" => at # "undefined",
               serving' \in BOOLEAN, UNCHANGED request,
               serverQueue' \in 0 .. mq_maxmsg, clientQueue' \in 0 .. mq_maxmsg,
               client' \in [Client -> {"off", "waiting"}]
        PROVE  StringInv' /\ AskedStep
    <2>1. (Sound => Sound') /\ AskedStep
      BY <1>0, <1>2, LeftAlone DEF AskedStep
    <2> QED BY <1>0, <1>2, <2>1 DEF StringInv, Strings!TypeOK, Strings!Buffer, Strings!Cell,
                                    Strings!UNDO_LIMIT, Strings!Request
  <1>3. CASE Strings!Receive
    <2>1. PICK r \in Strings!Request : request' = r /\ Strings!Process(r)
      BY <1>3 DEF Strings!Receive
    <2>2. at # "undefined" /\ serving' \in BOOLEAN /\ serverQueue' \in 0 .. mq_maxmsg
          /\ UNCHANGED <<clientQueue, client>>
      BY <1>0, <1>3 DEF Strings!Receive, Strings!TypeOK
    <2>3. Sound
      BY <2>2 DEF StringInv
    <2> QED BY <1>0, <1>1, <2>1, <2>2, <2>3, ProcessKeeps
  <1>4. CASE Strings!Send
    BY <1>0, <1>2, <1>4 DEF Strings!Send, Strings!edited, Strings!TypeOK
  <1>5. CASE Strings!Interrupt
    BY <1>0, <1>2, <1>5 DEF Strings!Interrupt, Strings!edited, Strings!TypeOK
  <1>6. CASE Strings!InterruptReceive
    <2>1. /\ at = "receive" /\ serving' \in BOOLEAN /\ request' \in Strings!Request \cup {None}
          /\ serverQueue' \in 0 .. mq_maxmsg /\ UNCHANGED <<clientQueue, client>>
      BY <1>0, <1>6 DEF Strings!InterruptReceive, Strings!TypeOK
    <2>2. Sound
      BY <2>1 DEF StringInv
    <2>3. CASE \E r \in Strings!Request : Strings!Process(r)
      BY <1>0, <1>1, <2>1, <2>2, <2>3, ProcessKeeps
    <2>4. CASE Strings!Refused
      <3>1. Sound' /\ num_undos' \in 0 .. 4 /\ AskedStep
        BY <1>0, <2>2, <2>4, LeftAlone DEF AskedStep, Strings!Refused
      <3>2. ProcessedOK
        BY <1>0, <2>4, <3>1 DEF ProcessedOK, Strings!Refused, Strings!TypeOK, Strings!UNDO_LIMIT
      <3> QED BY <1>1, <2>1, <3>2
    <2>5. \/ \E r \in Strings!Request : Strings!Process(r)
          \/ Strings!Refused
      BY <1>0, <1>6 DEF Strings!InterruptReceive, Strings!TypeOK
    <2> QED BY <2>3, <2>4, <2>5
  <1>7. CASE Strings!InterruptSend
    BY <1>0, <1>2, <1>7 DEF Strings!InterruptSend, Strings!edited, Strings!TypeOK
  <1>8. CASE Strings!Ended
    BY <1>0, <1>2, <1>8 DEF Strings!Ended, Strings!vars, Strings!edited, Strings!TypeOK
  <1>9. ASSUME NEW c \in Client, Strings!Ask(c) \/ Strings!TakeAnswer(c) \/ Strings!KillClient(c)
        PROVE  StringInv' /\ AskedStep
    BY <1>0, <1>2, <1>9
       DEF Strings!Ask, Strings!TakeAnswer, Strings!KillClient, Strings!edited, Strings!TypeOK
  <1> QED BY <1>3, <1>4, <1>5, <1>6, <1>7, <1>8, <1>9 DEF Strings!Next, Strings!Server

LEMMA StringsStart == AnyInit => StringInv /\ Strings!Asked!EditingInit
  <1> SUFFICES ASSUME AnyInit PROVE StringInv /\ Strings!Asked!EditingInit
    OBVIOUS
  <1>1. /\ string \in Strings!Buffer /\ Strings!Terminated(string)
        /\ string = Strings!Strncpy(string) /\ Strings!InitRest
    BY DEF AnyInit, Strings!Init
  <1>2. Strings!TypeOK
    BY <1>1, StringAssumption DEF Strings!InitRest, Strings!TypeOK, Strings!UNDO_LIMIT
  <1>3. Strings!Capped = 0
    BY <1>1 DEF Strings!Capped, Strings!InitRest, Strings!UNDO_LIMIT
  <1>4. Holds(string, Strings!Strlen(string))
    BY <1>1, PaddedHolds
  <1>5. Sound
    BY <1>3, <1>4 DEF Sound, Entry, LengthOf
  <1>6. Strings!Visible(string) \in Seq(Char)
    BY <1>4, HoldsText
  <1>7. Strings!History = <<>>
    BY <1>3 DEF Strings!History
  <1> QED BY <1>2, <1>5, <1>6, <1>7 DEF StringInv, Strings!Asked!EditingInit

LEMMA StringsStep ==
    StringInv /\ [AnyStep]_<<program, strings, parking, heap, vars>> => StringInv' /\ AskedStep
  <1> SUFFICES ASSUME StringInv, [AnyStep]_<<program, strings, parking, heap, vars>>
               PROVE  StringInv' /\ AskedStep
    OBVIOUS
  <1>1. CASE Strings!Next
    BY <1>1, StringsNextKeeps
  <1>2. CASE UNCHANGED strings
    <2>1. Strings!TypeOK
      BY DEF StringInv
    <2>2. (Sound => Sound') /\ AskedStep
      BY <1>2, <2>1, LeftAlone DEF AskedStep, strings
    <2> QED BY <1>2, <2>2 DEF StringInv, Strings!TypeOK, strings, Strings!Buffer, Strings!Cell,
                              Strings!UNDO_LIMIT, Strings!Request
  <1> QED BY <1>1, <1>2 DEF AnyStep, StringStep, ParkingStep, ListStep, HeapStep

LEMMA StringInvHolds == AnySpec => []StringInv
  BY StringsStart, StringsStep, PTL DEF AnySpec

(* hw2/server.c: whatever is asked, and whenever the server is             *)
(* interrupted, there are only zeros behind the text, on which insert and  *)
(* undo rely.                                                              *)
THEOREM ZerosAlwaysBehindText == AnySpec => []ZerosBehindText
  <1>1. StringInv => ZerosBehindText
    <2> SUFFICES ASSUME StringInv, at # "undefined" PROVE string = Strings!Strncpy(string)
      BY DEF ZerosBehindText, Strings!ZerosBehindText
    <2>1. Sound /\ 0 \in 0 .. Strings!Capped /\ Entry(0) = string
      BY CappedIs DEF StringInv, Entry
    <2>2. Holds(string, LengthOf(0))
      BY <2>1, CopyIsEntry
    <2> QED BY <2>2, HoldsText
  <1> QED BY <1>1, StringInvHolds, PTL

(* Every request to hw2/server.c edits the text as it asks, and undo goes  *)
(* back to exactly the text before the last edit that is remembered.       *)
THEOREM StringsAreEdited == AnySpec => ImplementsEditing
  <1>1. AnyInit => Strings!Asked!EditingInit
    BY StringsStart
  <1>2. AnySpec => [][Strings!Asked!Insert \/ Strings!Asked!Delete \/ Strings!Asked!DeleteNothing
                       \/ Strings!Asked!Undo]_<<Strings!Visible(string), Strings!History>>
    BY StringInvHolds, StringsStep, PTL DEF AnySpec, AskedStep
  <1> QED BY <1>1, <1>2, PTL
          DEF AnySpec, ImplementsEditing, Strings!ImplementsEditing, Strings!Asked!ServerSpec

-----------------------------------------------------------------------------
(* The list of ex08.  A path is a queue that the links of the list spell   *)
(* out, from the head to a node that ends it.                              *)
Path(q) ==
    /\ q \in Seq(Node) /\ q # <<>>
    /\ \A i, j \in 1 .. Len(q) : q[i] = q[j] => i = j
    /\ q[1] = head
    /\ \A i \in 1 .. Len(q) - 1 : q[i] \notin Fresh /\ next[q[i]] = q[i + 1]
    /\ q[Len(q)] \in Fresh \/ next[q[Len(q)]] = NULL

Queue == SubSeq(Walk, 1, Length)

LEMMA PathFits ==
    ASSUME NEW q, Path(q)
    PROVE  /\ Len(q) \in 1 .. LIST_LEN
           /\ \A i \in 1 .. Len(q) : q[i] \in Node
  <1>1. Len(q) \in Nat /\ Len(q) # 0 /\ LIST_LEN \in Nat
    BY LenProperties, NodesLeft DEF Path
  <1>2. \A i \in 1 .. Len(q) : q[i] \in Node
    BY ElementOfSeq DEF Path
  <1>3. Len(q) <= LIST_LEN
    <2>1. q \in Injection(1 .. Len(q), Node)
      <3>1. q \in [1 .. Len(q) -> Node]
        BY <1>2, LenProperties DEF Path
      <3> QED BY <3>1 DEF Path, Injection, IsInjective
    <2>2. /\ IsFiniteSet(Node) /\ Cardinality(Node) = LIST_LEN
          /\ Cardinality(1 .. Len(q)) = Len(q)
      <3>1. \A n \in Nat : IsFiniteSet(1 .. n) /\ Cardinality(1 .. n) = n
        BY FS_Interval
      <3> QED BY <1>1, <3>1 DEF Node
    <2>3. Cardinality(1 .. Len(q)) <= Cardinality(Node)
      BY <2>1, <2>2, FS_Injection
    <2> QED BY <2>2, <2>3
  <1> QED BY <1>1, <1>2, <1>3

(* Following the links finds the path, and nothing else.                   *)
LEMMA WalkFindsPath ==
    ASSUME NEW q, Path(q)
    PROVE  Queue = q
  <1> DEFINE m == Len(q)
             w == [k \in Node |-> IF k <= m THEN q[k] ELSE NULL]
             After(f) == [k \in Node |-> IF k = 1 THEN head
                                         ELSE IF f[k - 1] \in Fresh \cup {NULL} THEN NULL
                                         ELSE next[f[k - 1]]]
  <1>0. /\ m \in 1 .. LIST_LEN /\ LIST_LEN \in Nat /\ NULL \notin Node
        /\ \A i \in 1 .. m : q[i] \in Node
        /\ \A i \in Node : i \in Nat /\ 1 <= i /\ i <= LIST_LEN
    BY PathFits, NodesLeft DEF Node
  <1>1. w = After(w)
    <2> SUFFICES ASSUME NEW k \in Node PROVE w[k] = After(w)[k]
      OBVIOUS
    <2>1. CASE k = 1
      BY <1>0, <2>1 DEF Path
    <2>2. CASE 1 < k /\ k <= m
      <3>1. k - 1 \in 1 .. Len(q) - 1 /\ k - 1 \in Node /\ k - 1 <= m /\ (k - 1) + 1 = k
        BY <1>0, <2>2 DEF Node
      <3>2. w[k - 1] = q[k - 1] /\ q[k - 1] \in Node
        BY <1>0, <3>1
      <3>3. q[k - 1] \notin Fresh /\ next[q[k - 1]] = q[(k - 1) + 1]
        BY <3>1 DEF Path
      <3>4. w[k - 1] \notin Fresh \cup {NULL} /\ next[w[k - 1]] = q[k]
        BY <1>0, <3>1, <3>2, <3>3
      <3> QED BY <2>2, <3>4
    <2>3. CASE k = m + 1
      <3>1. k - 1 = m /\ k - 1 \in Node /\ k # 1 /\ ~(k <= m)
        BY <1>0, <2>3 DEF Node
      <3>2. w[k - 1] = q[m]
        BY <3>1
      <3>3. (IF q[m] \in Fresh \cup {NULL} THEN NULL ELSE next[q[m]]) = NULL
        BY DEF Path
      <3> QED BY <3>1, <3>2, <3>3
    <2>4. CASE m + 1 < k
      <3>1. k - 1 \in Node /\ ~(k - 1 <= m) /\ ~(k <= m) /\ k # 1
        BY <1>0, <2>4 DEF Node
      <3>2. w[k - 1] = NULL
        BY <3>1
      <3> QED BY <3>1, <3>2
    <2> QED BY <1>0, <2>1, <2>2, <2>3, <2>4
  <1>2. Walk = After(Walk)
    <2>1. Walk = CHOOSE f : f = After(f)
      BY DEF Walk
    <2> HIDE DEF After, w
    <2> QED BY <1>1, <2>1
  <1>3. \A k \in Node : Walk[k] = w[k]
    <2> DEFINE S == {n \in Nat : n + 1 \in Node => Walk[n + 1] = w[n + 1]}
    <2>1. ASSUME NEW k \in Node PROVE Walk[k] = After(Walk)[k] /\ w[k] = After(w)[k]
      BY <1>1, <1>2
    <2>2. 0 \in S
      <3>1. 1 \in Node => Walk[1] = head /\ w[1] = head
        BY <2>1
      <3> QED BY <3>1
    <2>3. ASSUME NEW n \in Nat, n \in S PROVE n + 1 \in S
      <3> SUFFICES ASSUME (n + 1) + 1 \in Node PROVE Walk[(n + 1) + 1] = w[(n + 1) + 1]
        OBVIOUS
      <3>1. PICK k \in Node : k = (n + 1) + 1
        OBVIOUS
      <3>2. n + 1 \in Node /\ k # 1 /\ k - 1 = n + 1
        BY <1>0, <3>1 DEF Node
      <3>3. Walk[n + 1] = w[n + 1]
        BY <2>3, <3>2
      <3> HIDE DEF w
      <3>4. After(Walk)[k] = After(w)[k]
        BY <3>2, <3>3
      <3> QED BY <2>1, <3>1, <3>4
    <2> HIDE DEF w, S
    <2>4. Nat \subseteq S
      BY <2>2, <2>3, NatSetInduction
    <2>5. ASSUME NEW k \in Node PROVE Walk[k] = w[k]
      <3>1. k - 1 \in Nat /\ (k - 1) + 1 = k
        BY <1>0
      <3> QED BY <2>4, <3>1 DEF S
    <2> QED BY <2>5
  <1>4. Walk = w
    <2>1. Walk = [k \in Node |-> Walk[k]]
      <3> HIDE DEF w
      <3>1. After(Walk) = [k \in Node |-> After(Walk)[k]]
        OBVIOUS
      <3> HIDE DEF After
      <3> QED BY <1>2, <3>1, Zenon
    <2> QED BY <1>3, <2>1
  <1>5. Length = m
    <2>1. {k \in Node : w[k] # NULL} = 1 .. m
      BY <1>0 DEF Node
    <2>2. Cardinality(1 .. m) = m
      BY <1>0, FS_Interval
    <2> QED BY <1>4, <2>1, <2>2 DEF Length
  <1>6. SubSeq(w, 1, m) = q
    <2>1. w \in Seq(Node \cup {NULL}) /\ Len(w) = LIST_LEN
      BY <1>0 DEF Node
    <2> HIDE DEF w
    <2>2. SubSeq(w, 1, m) = [i \in 1 .. m |-> w[i]]
      BY <1>0, <2>1
    <2>3. q = [i \in 1 .. m |-> q[i]]
      BY DEF Path
    <2>4. \A i \in 1 .. m : w[i] = q[i]
      BY <1>0 DEF w, Node
    <2> QED BY <2>2, <2>3, <2>4
  <1> QED BY <1>4, <1>5, <1>6 DEF Queue

LEMMA PathIsQueue == \A q : Path(q) => Queue = q
  BY WalkFindsPath

LEMMA PathIsQueueNext == (\A q : Path(q) => Queue = q)'
  BY PathIsQueue, PTL

(* What the threads have besides: no node is in two places, none is lost,  *)
(* and tail is behind a node that is just being put back.                  *)
Listed(q) ==
    /\ \A t \in Thread : pc[t] = "unlink" => node[t] = head
    /\ \A t \in Thread : pc[t] = "linked" =>
          Len(q) > 1 /\ node[t] = q[Len(q)] /\ tail = q[Len(q) - 1]
    /\ (\A t \in Thread : pc[t] # "linked") => tail = q[Len(q)]
    /\ \A n \in Node : (\E i \in 1 .. Len(q) : q[i] = n) \/ \E t \in Thread : Held[t] = n
    /\ \A t \in Thread : Held[t] # NULL => \A i \in 1 .. Len(q) : q[i] # Held[t]
    /\ \A t, u \in Thread : Held[t] # NULL /\ Held[t] = Held[u] => t = u

Critical == {"take", "unlink", "taken", "link", "linked", "put"}

(* One thread at a time is between the two halves of the spin lock.        *)
LockInv ==
    /\ TypeOK
    /\ \A t \in Thread : pc[t] \in Critical => lock = 1
    /\ \A t, u \in Thread : pc[t] \in Critical /\ pc[u] \in Critical => t = u
    /\ \A t \in Thread : node[t] = NULL <=> pc[t] \in {"while", "dequeue", "take", "done"}

ListInv == LockInv /\ Path(Queue) /\ Listed(Queue)

QueueStep == [\E t \in Thread : Nodes!Take(t) \/ Nodes!PutBack(t)]_<<Queue, Held>>

(* Where a step leads that leaves the list alone.                          *)
LEMMA LockKept ==
    ASSUME LockInv, NEW t \in Thread, CycleList(t), head \in Node
    PROVE  LockInv'
  <1>0. /\ TypeOK /\ t \in Thread /\ NULL \notin Node
    BY NodesLeft DEF LockInv, Node
  <1>1. \A u \in Thread : u # t => pc'[u] = pc[u] /\ node'[u] = node[u]
    BY <1>0 DEF TypeOK, CycleList, Step, Continue, LockTestAndSet, TakeHead, Unlink, Link, SetTail,
                LockRelease
  <1>2. CASE Continue(t)
    BY <1>0, <1>1, <1>2 DEF LockInv, TypeOK, Step, Continue, Critical
  <1>3. CASE LockTestAndSet(t)
    BY <1>0, <1>1, <1>3 DEF LockInv, TypeOK, Step, LockTestAndSet, Critical
  <1>4. CASE TakeHead(t)
    BY <1>0, <1>1, <1>4 DEF LockInv, TypeOK, Step, TakeHead, Critical
  <1>5. CASE Unlink(t)
    BY <1>0, <1>1, <1>5 DEF LockInv, TypeOK, Step, Unlink, Critical
  <1>6. CASE Link(t)
    BY <1>0, <1>1, <1>6 DEF LockInv, TypeOK, Step, Link, Critical
  <1>7. CASE SetTail(t)
    BY <1>0, <1>1, <1>7 DEF LockInv, TypeOK, Step, SetTail, Critical
  <1>8. CASE LockRelease(t)
    BY <1>0, <1>1, <1>8 DEF LockInv, TypeOK, Step, LockRelease, Released, Critical
  <1> QED BY <1>2, <1>3, <1>4, <1>5, <1>6, <1>7, <1>8 DEF CycleList

LEMMA QueueUntouched ==
    ASSUME NEW q, Path(q), Listed(q), UNCHANGED <<head, tail, next>>,
           \A u \in Thread : pc'[u] = "linked" <=> pc[u] = "linked",
           \A u \in Thread : pc[u] = "linked" => node'[u] = node[u],
           \A u \in Thread : pc'[u] = "unlink" => node'[u] = head,
           Held' = Held
    PROVE  Path(q)' /\ Listed(q)'
  <1>1. Fresh' = Fresh
    BY DEF Fresh
  <1>2. Path(q)'
    BY <1>1 DEF Path
  <1>3. Listed(q)'
    BY DEF Listed
  <1> QED BY <1>2, <1>3

(* dequeueNode takes the first node, and another one stays: fewer threads  *)
(* than nodes hold one.                                                    *)
LEMMA AnotherNodeLeft ==
    ASSUME LockInv, NEW q, Path(q), Listed(q), NEW t \in Thread, pc[t] = "unlink"
    PROVE  Len(q) > 1
  <1> SUFFICES ASSUME ~(Len(q) > 1) PROVE FALSE
    OBVIOUS
  <1>0. Len(q) = 1
    <2>1. Len(q) \in 1 .. LIST_LEN /\ LIST_LEN \in Nat
      BY PathFits, NodesLeft
    <2> QED BY <2>1
  <1> DEFINE f == [u \in Thread |-> IF u = t THEN q[1] ELSE Held[u]]
             S == {u \in Thread : f[u] \in Node}
             g == [u \in S |-> f[u]]
  <1>1. Held[t] = NULL /\ NULL \notin Node /\ q[1] \in Node
    BY PathFits, NodesLeft DEF Held, Node
  <1>2. ASSUME NEW n \in Node PROVE \E u \in S : g[u] = n
    <2>1. CASE n = q[1]
      <3>1. t \in S /\ g[t] = n
        BY <1>1, <2>1
      <3> QED BY <3>1
    <2>2. CASE n # q[1]
      <3>1. PICK u \in Thread : Held[u] = n
        BY <2>2 DEF Listed
      <3>2. u # t
        BY <1>1, <3>1
      <3>3. u \in S /\ g[u] = n
        BY <3>1, <3>2
      <3> QED BY <3>3
    <2> QED BY <2>1, <2>2
  <1>3. g \in Surjection(S, Node)
    BY <1>2 DEF Surjection
  <1>4. IsFiniteSet(S) /\ Cardinality(S) <= Cardinality(Thread)
    <2>1. S \in SUBSET Thread
      OBVIOUS
    <2> HIDE DEF S
    <2> QED BY <2>1, NodesLeft, FS_Subset
  <1> HIDE DEF S, g
  <1>5. Cardinality(Node) <= Cardinality(S)
    BY <1>3, <1>4, FS_Surjection
  <1>6. Cardinality(Node) = LIST_LEN
    <2>1. \A n \in Nat : Cardinality(1 .. n) = n
      BY FS_Interval
    <2> QED BY <2>1, NodesLeft DEF Node
  <1>7. Cardinality(S) \in Nat /\ Cardinality(Thread) \in Nat
    <2>1. \A T : IsFiniteSet(T) => Cardinality(T) \in Nat
      BY FS_CardinalityType
    <2> QED BY <1>4, <2>1, NodesLeft
  <1> QED BY <1>4, <1>5, <1>6, <1>7, NodesLeft

LEMMA UnlinkTakes ==
    ASSUME LockInv, NEW q, Path(q), Listed(q), NEW t \in Thread, Unlink(t)
    PROVE  /\ Path(Tail(q))' /\ Listed(Tail(q))' /\ q # <<>>
           /\ Held[t] = NULL /\ Held'[t] # NULL /\ Held' = [Held EXCEPT ![t] = Head(q)]
  <1> DEFINE n == Len(q)
  <1>0. /\ t \in Thread /\ pc[t] = "unlink" /\ pc' = [pc EXCEPT ![t] = "taken"]
        /\ pc \in [Thread -> {"while", "dequeue", "take", "unlink", "taken",
                              "enqueue", "link", "linked", "put", "done"}]
        /\ UNCHANGED <<tail, next, node>> /\ head' = next[head] /\ NULL \notin Node
        /\ n \in Nat /\ n > 1 /\ q \in Seq(Node) /\ q # <<>>
        /\ \A i \in 1 .. n : q[i] \in Node
    BY PathFits, AnotherNodeLeft, NodesLeft DEF Unlink, Step, Path, LockInv, TypeOK, Node
  <1>1. \A u \in Thread : pc[u] # "linked" /\ pc'[u] # "linked" /\ pc'[u] # "unlink"
    BY <1>0 DEF LockInv, Critical
  <1>2. Fresh = {} /\ Fresh' = {}
    BY <1>1 DEF Fresh
  <1>3. PICK r : r = Tail(q)
    OBVIOUS
  <1>4. /\ r \in Seq(Node) /\ Len(r) = n - 1
        /\ \A i \in 1 .. n - 1 : r[i] = q[i + 1]
    <2>1. /\ Tail(q) \in Seq(Node) /\ Len(Tail(q)) = Len(q) - 1
          /\ \A i \in 1 .. Len(Tail(q)) : Tail(q)[i] = q[i + 1]
      BY <1>0, HeadTailProperties
    <2>2. /\ r \in Seq(Node) /\ Len(r) = Len(q) - 1
          /\ \A i \in 1 .. Len(r) : r[i] = q[i + 1]
      BY <1>3, <2>1, Zenon
    <2> QED BY <2>2
  <1>5. /\ q[1] = head /\ q[1] = node[t] /\ Head(q) = q[1]
        /\ \A i \in 1 .. n - 1 : next[q[i]] = q[i + 1]
        /\ next[q[n]] = NULL /\ tail = q[n]
        /\ \A i, j \in 1 .. n : q[i] = q[j] => i = j
    BY <1>0, <1>1, <1>2 DEF Path, Listed
  <1>6. Held[t] = NULL /\ Held' = [Held EXCEPT ![t] = q[1]]
    BY <1>0, <1>5 DEF Held
  <1> HIDE DEF n
  <1>7. Path(r)'
    <2>1. r # <<>> /\ r[1] = head' /\ r[n - 1] = q[n]
      <3>1. 1 \in 1 .. n - 1 /\ n - 1 \in 1 .. n - 1 /\ (n - 1) + 1 = n
        BY <1>0
      <3>2. r[1] = q[2] /\ r[n - 1] = q[n] /\ next[q[1]] = q[2]
        <4>1. r[1] = q[1 + 1] /\ r[n - 1] = q[(n - 1) + 1] /\ next[q[1]] = q[1 + 1]
          BY <1>4, <1>5, <3>1
        <4> QED BY <3>1, <4>1
      <3>3. Len(r) # 0
        BY <1>0, <1>4
      <3> QED BY <1>0, <1>5, <3>2, <3>3
    <2>2. ASSUME NEW i \in 1 .. Len(r), NEW j \in 1 .. Len(r), r[i] = r[j] PROVE i = j
      <3>1. i + 1 \in 1 .. n /\ j + 1 \in 1 .. n /\ q[i + 1] = q[j + 1]
        BY <1>0, <1>4, <2>2
      <3>2. i + 1 = j + 1
        BY <1>5, <3>1
      <3> QED BY <1>0, <1>4, <3>2
    <2>3. ASSUME NEW i \in 1 .. Len(r) - 1 PROVE next'[r[i]] = r[i + 1]
      <3>1. i \in 1 .. n - 1 /\ i + 1 \in 1 .. n - 1 /\ (i + 1) + 1 \in 1 .. n
        BY <1>0, <1>4
      <3>2. r[i] = q[i + 1] /\ r[i + 1] = q[(i + 1) + 1] /\ next[q[i + 1]] = q[(i + 1) + 1]
        BY <1>4, <1>5, <3>1
      <3> QED BY <1>0, <3>2
    <2>4. next'[r[Len(r)]] = NULL
      BY <1>0, <1>4, <1>5, <2>1
    <2> QED BY <1>2, <1>4, <2>1, <2>2, <2>3, <2>4 DEF Path
  <1>8. Listed(r)'
    <2>1. tail' = r[Len(r)]
      <3>1. n - 1 \in 1 .. n - 1 /\ (n - 1) + 1 = n
        BY <1>0
      <3>2. r[n - 1] = q[(n - 1) + 1]
        BY <1>4, <3>1
      <3> QED BY <1>0, <1>4, <1>5, <3>1, <3>2
    <2>2. ASSUME NEW m \in Node
          PROVE  (\E i \in 1 .. Len(r) : r[i] = m) \/ \E u \in Thread : Held'[u] = m
      <3>1. CASE \E u \in Thread : Held[u] = m
        <4>1. PICK u \in Thread : Held[u] = m
          BY <3>1
        <4>2. u # t
          BY <1>0, <1>6, <4>1
        <4> QED BY <1>6, <4>1, <4>2 DEF Held
      <3>2. CASE \E i \in 1 .. n : q[i] = m
        <4>1. PICK i \in 1 .. n : q[i] = m
          BY <3>2
        <4>2. CASE i = 1
          BY <1>6, <4>1, <4>2 DEF Held
        <4>3. CASE i > 1
          <5>1. i - 1 \in 1 .. n - 1 /\ (i - 1) + 1 = i
            BY <1>0, <4>3
          <5>2. r[i - 1] = q[(i - 1) + 1]
            BY <1>4, <5>1
          <5> QED BY <1>4, <4>1, <5>1, <5>2
        <4> QED BY <4>2, <4>3
      <3> QED BY <3>1, <3>2 DEF Listed, n
    <2>3. ASSUME NEW u \in Thread, Held'[u] # NULL, NEW i \in 1 .. Len(r)
          PROVE  r[i] # Held'[u]
      <3>1. i + 1 \in 1 .. n /\ i + 1 # 1 /\ 1 \in 1 .. n /\ r[i] = q[i + 1]
        BY <1>0, <1>4
      <3>2. CASE u = t
        <4>1. q[i + 1] # q[1]
          BY <1>5, <3>1
        <4> QED BY <1>6, <3>1, <3>2, <4>1 DEF Held
      <3>3. CASE u # t
        <4>1. Held'[u] = Held[u]
          BY <1>6, <3>3 DEF Held
        <4> QED BY <2>3, <3>1, <4>1 DEF Listed, n
      <3> QED BY <3>2, <3>3
    <2>4. ASSUME NEW u \in Thread, NEW v \in Thread, Held'[u] # NULL, Held'[u] = Held'[v]
          PROVE  u = v
      <3>1. \A x \in Thread : Held'[x] = IF x = t THEN q[1] ELSE Held[x]
        BY <1>6 DEF Held
      <3>2. \A x \in Thread : Held[x] # q[1]
        <4>1. 1 \in 1 .. n /\ q[1] # NULL
          BY <1>0
        <4> QED BY <4>1 DEF Listed, n
      <3> QED BY <2>4, <3>1, <3>2 DEF Listed
    <2> QED BY <1>1, <2>1, <2>2, <2>3, <2>4 DEF Listed
  <1>9. Held'[t] # NULL
    BY <1>0, <1>5, <1>6 DEF Held
  <1> QED BY <1>0, <1>3, <1>5, <1>6, <1>7, <1>8, <1>9

(* enqueueNode puts the node of its thread behind the last one.            *)
LEMMA LinkPuts ==
    ASSUME LockInv, NEW q, Path(q), Listed(q), NEW t \in Thread, Link(t)
    PROVE  /\ \E r : r = Append(q, node[t]) /\ Path(r)' /\ Listed(r)'
           /\ Held[t] # NULL /\ Held[t] = node[t] /\ Held' = [Held EXCEPT ![t] = NULL]
  <1> DEFINE n == Len(q)
  <1>r. PICK r : r = Append(q, node[t])
    OBVIOUS
  <1>0. /\ t \in Thread /\ pc[t] = "link" /\ pc' = [pc EXCEPT ![t] = "linked"]
        /\ pc \in [Thread -> {"while", "dequeue", "take", "unlink", "taken",
                              "enqueue", "link", "linked", "put", "done"}]
        /\ UNCHANGED <<head, tail, node>> /\ next' = [next EXCEPT ![tail] = node[t]]
        /\ node[t] \in Node /\ next \in [Node -> Node \cup {NULL}] /\ NULL \notin Node
        /\ n \in Nat /\ n > 0 /\ q \in Seq(Node) /\ q # <<>>
        /\ \A i \in 1 .. n : q[i] \in Node
    <2>1. /\ n \in Nat /\ n > 0 /\ \A i \in 1 .. n : q[i] \in Node
      <3>1. n \in 1 .. LIST_LEN /\ \A i \in 1 .. n : q[i] \in Node
        BY PathFits
      <3> QED BY <3>1, NodesLeft
    <2>2. node[t] \in Node /\ NULL \notin Node
      BY NodesLeft DEF Link, Step, LockInv, TypeOK, Node
    <2> HIDE DEF n
    <2> QED BY <2>1, <2>2 DEF Link, Step, Path, LockInv, TypeOK
  <1>1. \A u \in Thread : /\ pc[u] # "linked" /\ pc'[u] # "unlink"
                          /\ pc'[u] = "linked" <=> u = t
    BY <1>0 DEF LockInv, Critical
  <1>2. Fresh = {} /\ Fresh' = {node[t]}
    BY <1>0, <1>1 DEF Fresh
  <1>3. /\ r \in Seq(Node) /\ Len(r) = n + 1 /\ r[n + 1] = node[t]
        /\ \A i \in 1 .. n : r[i] = q[i]
    <2>1. \A e \in Node : /\ Append(q, e) \in Seq(Node) /\ Len(Append(q, e)) = n + 1
                          /\ Append(q, e)[n + 1] = e /\ \A i \in 1 .. n : Append(q, e)[i] = q[i]
      BY <1>0, AppendProperties
    <2> QED BY <1>r, <1>0, <2>1
  <1>4. /\ Held[t] = node[t] /\ Held' = [Held EXCEPT ![t] = NULL]
        /\ \A i \in 1 .. n : q[i] # node[t]
    <2>1. Held[t] = node[t] /\ Held' = [Held EXCEPT ![t] = NULL]
      BY <1>0 DEF Held
    <2> QED BY <1>0, <2>1 DEF Listed
  <1>5. /\ q[1] = head /\ tail = q[n]
        /\ \A i \in 1 .. n - 1 : next[q[i]] = q[i + 1]
        /\ \A i, j \in 1 .. n : q[i] = q[j] => i = j
    BY <1>1 DEF Path, Listed
  <1> HIDE DEF n
  <1>6. Path(r)'
    <2>1. r # <<>> /\ r[1] = head' /\ r[Len(r)] \in Fresh'
      <3>1. 1 \in 1 .. n /\ Len(r) # 0
        BY <1>0, <1>3
      <3> QED BY <1>0, <1>2, <1>3, <1>5, <3>1
    <2>2. ASSUME NEW i \in 1 .. Len(r), NEW j \in 1 .. Len(r), r[i] = r[j] PROVE i = j
      <3>1. \A k \in 1 .. Len(r) : k \in 1 .. n \/ k = n + 1
        BY <1>0, <1>3
      <3>2. CASE i \in 1 .. n /\ j \in 1 .. n
        BY <1>3, <1>5, <2>2, <3>2
      <3>3. CASE i \in 1 .. n /\ j = n + 1
        BY <1>3, <1>4, <2>2, <3>3
      <3>4. CASE i = n + 1 /\ j \in 1 .. n
        BY <1>3, <1>4, <2>2, <3>4
      <3>5. CASE i = n + 1 /\ j = n + 1
        BY <3>5
      <3> QED BY <3>1, <3>2, <3>3, <3>4, <3>5
    <2>3. ASSUME NEW i \in 1 .. Len(r) - 1
          PROVE  r[i] \notin Fresh' /\ next'[r[i]] = r[i + 1]
      <3>0. i \in 1 .. n /\ n \in 1 .. n /\ r[i] = q[i]
        BY <1>0, <1>3
      <3>1. r[i] \notin Fresh'
        BY <1>2, <1>4, <3>0
      <3>2. CASE i = n
        <4>1. next'[q[n]] = node[t]
          BY <1>0, <1>5, <3>0
        <4> QED BY <1>3, <3>0, <3>1, <3>2, <4>1
      <3>3. CASE i < n
        <4>1. i \in 1 .. n - 1 /\ i + 1 \in 1 .. n /\ i # n
          BY <1>0, <3>0, <3>3
        <4>2. q[i] # tail
          BY <1>5, <3>0, <4>1
        <4>3. next'[q[i]] = q[i + 1]
          BY <1>0, <1>5, <3>0, <4>1, <4>2
        <4> QED BY <1>3, <3>0, <3>1, <4>1, <4>3
      <3> QED BY <1>0, <3>0, <3>2, <3>3
    <2> QED BY <1>3, <2>1, <2>2, <2>3 DEF Path
  <1>7. Listed(r)'
    <2>0. /\ \A x \in Thread : Held'[x] = IF x = t THEN NULL ELSE Held[x]
          /\ n \in 1 .. n /\ Len(r) - 1 = n /\ r[n] = q[n]
      <3>1. \A x \in Thread : Held'[x] = IF x = t THEN NULL ELSE Held[x]
        BY <1>4 DEF Held
      <3>2. n \in 1 .. n /\ Len(r) - 1 = n
        BY <1>0, <1>3
      <3> QED BY <1>3, <3>1, <3>2
    <2>1. ASSUME NEW u \in Thread, pc'[u] = "linked"
          PROVE  Len(r) > 1 /\ node'[u] = r[Len(r)] /\ tail' = r[Len(r) - 1]
      BY <1>0, <1>1, <1>3, <1>5, <2>0, <2>1
    <2>2. ~\A u \in Thread : pc'[u] # "linked"
      BY <1>1
    <2>3. ASSUME NEW m \in Node
          PROVE  (\E i \in 1 .. Len(r) : r[i] = m) \/ \E u \in Thread : Held'[u] = m
      <3>1. CASE \E i \in 1 .. n : q[i] = m
        <4>1. \A i \in 1 .. n : i \in 1 .. Len(r)
          BY <1>0, <1>3
        <4> QED BY <1>3, <3>1, <4>1
      <3>2. CASE \E u \in Thread : Held[u] = m
        <4>1. PICK u \in Thread : Held[u] = m
          BY <3>2
        <4>2. CASE u = t
          <5>1. n + 1 \in 1 .. Len(r)
            BY <1>0, <1>3
          <5> QED BY <1>3, <1>4, <4>1, <4>2, <5>1
        <4>3. CASE u # t
          BY <2>0, <4>1, <4>3
        <4> QED BY <4>2, <4>3
      <3> QED BY <3>1, <3>2 DEF Listed, n
    <2>4. ASSUME NEW u \in Thread, Held'[u] # NULL, NEW i \in 1 .. Len(r)
          PROVE  r[i] # Held'[u]
      <3>1. u # t /\ Held'[u] = Held[u]
        BY <2>0, <2>4
      <3>2. CASE i \in 1 .. n
        BY <1>3, <2>4, <3>1, <3>2 DEF Listed, n
      <3>3. CASE i = n + 1
        <4>1. Held[u] # Held[t]
          BY <2>4, <3>1 DEF Listed
        <4> QED BY <1>3, <1>4, <3>1, <3>3, <4>1
      <3> QED BY <1>0, <1>3, <3>2, <3>3
    <2>5. ASSUME NEW u \in Thread, NEW v \in Thread, Held'[u] # NULL, Held'[u] = Held'[v]
          PROVE  u = v
      BY <2>0, <2>5 DEF Listed
    <2>6. \A u \in Thread : pc'[u] # "unlink"
      BY <1>1
    <2> QED BY <2>1, <2>2, <2>3, <2>4, <2>5, <2>6 DEF Listed
  <1>8. node[t] # NULL
    BY <1>0
  <1> QED BY <1>r, <1>4, <1>6, <1>7, <1>8

LEMMA SetTailKeeps ==
    ASSUME LockInv, NEW q, Path(q), Listed(q), NEW t \in Thread, SetTail(t)
    PROVE  Path(q)' /\ Listed(q)' /\ Held' = Held
  <1> DEFINE n == Len(q)
  <1>0. /\ t \in Thread /\ pc[t] = "linked" /\ pc' = [pc EXCEPT ![t] = "put"]
        /\ pc \in [Thread -> {"while", "dequeue", "take", "unlink", "taken",
                              "enqueue", "link", "linked", "put", "done"}]
        /\ UNCHANGED <<head, node>> /\ tail' = node[t]
        /\ next' = [next EXCEPT ![node[t]] = NULL]
        /\ node[t] \in Node \cup {NULL} /\ next \in [Node -> Node \cup {NULL}]
        /\ n \in Nat /\ n > 1 /\ node[t] = q[n] /\ q \in Seq(Node) /\ q # <<>>
        /\ \A i \in 1 .. n : q[i] \in Node
    BY PathFits, NodesLeft DEF SetTail, Step, Path, Listed, LockInv, TypeOK, Node
  <1>1. \A u \in Thread : pc'[u] # "linked" /\ pc'[u] # "unlink"
    BY <1>0 DEF LockInv, Critical
  <1>2. Fresh' = {}
    BY <1>1 DEF Fresh
  <1>3. Held' = Held
    BY <1>0 DEF Held
  <1>4. Path(q)'
    <2>1. ASSUME NEW i \in 1 .. n - 1 PROVE next'[q[i]] = q[i + 1]
      <3>1. i \in 1 .. n /\ n \in 1 .. n /\ i # n
        BY <1>0
      <3>2. q[i] # q[n] /\ next[q[i]] = q[i + 1]
        BY <3>1 DEF Path
      <3> QED BY <1>0, <3>1, <3>2
    <2>2. n \in 1 .. n
      BY <1>0
    <2>3. next'[q[n]] = NULL
      BY <1>0, <2>2
    <2>4. q[1] = head' /\ \A i, j \in 1 .. Len(q) : q[i] = q[j] => i = j
      BY <1>0 DEF Path
    <2>5. \A i \in 1 .. Len(q) - 1 : q[i] \notin Fresh' /\ next'[q[i]] = q[i + 1]
      BY <1>2, <2>1
    <2>6. q \in Seq(Node) /\ q # <<>> /\ next'[q[Len(q)]] = NULL
      BY <1>0, <2>3
    <2> HIDE DEF n
    <2> QED BY <2>4, <2>5, <2>6 DEF Path, Node
  <1>5. Listed(q)'
    BY <1>0, <1>1, <1>3 DEF Listed
  <1> QED BY <1>3, <1>4, <1>5

LEMMA ListStart == Init => ListInv /\ Queue = [i \in 1 .. LIST_LEN |-> i]
  <1> SUFFICES ASSUME Init PROVE ListInv /\ Queue = [i \in 1 .. LIST_LEN |-> i]
    OBVIOUS
  <1> DEFINE q == [i \in 1 .. LIST_LEN |-> i]
  <1>0. LIST_LEN \in Nat /\ LIST_LEN > 0 /\ NULL \notin Node
    <2>1. \A T : IsFiniteSet(T) => Cardinality(T) \in Nat
      BY FS_CardinalityType
    <2>2. Cardinality(Thread) \in Nat
      BY <2>1, NodesLeft
    <2> QED BY <2>2, NodesLeft DEF Node
  <1>1. LockInv
    BY <1>0 DEF Init, LockInv, TypeOK, Node, Critical
  <1>2. q \in Seq(Node) /\ Len(q) = LIST_LEN /\ \A i \in 1 .. LIST_LEN : q[i] = i
    BY <1>0 DEF Node
  <1>3. Fresh = {} /\ \A t \in Thread : Held[t] = NULL
    BY DEF Init, Fresh, Held
  <1> HIDE DEF q
  <1>4. Path(q)
    <2>1. q # <<>> /\ q[1] = head
      BY <1>0, <1>2 DEF Init
    <2>2. \A i \in 1 .. Len(q) - 1 : next[q[i]] = q[i + 1]
      <3> SUFFICES ASSUME NEW i \in 1 .. LIST_LEN - 1 PROVE next[q[i]] = q[i + 1]
        BY <1>2
      <3>1. i \in 1 .. LIST_LEN /\ i + 1 \in 1 .. LIST_LEN /\ i # LIST_LEN
        BY <1>0
      <3> QED BY <1>2, <3>1 DEF Init, Node
    <2>3. LIST_LEN \in 1 .. LIST_LEN /\ next[q[Len(q)]] = NULL
      BY <1>0, <1>2 DEF Init, Node
    <2> QED BY <1>2, <1>3, <2>1, <2>2, <2>3 DEF Path
  <1>5. Listed(q)
    <2>1. tail = q[Len(q)]
      BY <1>0, <1>2 DEF Init
    <2>2. \A m \in Node : \E i \in 1 .. Len(q) : q[i] = m
      BY <1>2 DEF Node
    <2>3. \A t \in Thread : pc[t] = "while"
      BY DEF Init
    <2> QED BY <1>3, <2>1, <2>2, <2>3 DEF Listed
  <1>6. Queue = q
    BY <1>4, PathIsQueue
  <1> QED BY <1>1, <1>4, <1>5, <1>6 DEF ListInv, q

LEMMA QueueBecomes ==
    ASSUME NEW s, LockInv', Path(s)', Listed(s)'
    PROVE  ListInv' /\ Queue' = s
  <1>1. Path(s)' /\ Listed(s)' /\ s = Queue'
    BY PathIsQueueNext
  <1>2. Path(Queue)'
    BY <1>1, Zenon DEF Path
  <1>3. Listed(Queue)'
    BY <1>1, Zenon DEF Listed
  <1> QED BY <1>1, <1>2, <1>3 DEF ListInv

LEMMA ListNext ==
    ASSUME ListInv, Next \/ UNCHANGED vars
    PROVE  ListInv' /\ QueueStep
  <1> PICK q : q = Queue
    OBVIOUS
  <1>0. LockInv /\ Path(q) /\ Listed(q) /\ head \in Node /\ TypeOK
    <2>1. Path(q) /\ Listed(q)
      BY DEF ListInv
    <2>2. head \in Node
      <3>1. 1 \in 1 .. Len(q)
        <4>1. Len(q) \in 1 .. LIST_LEN /\ LIST_LEN \in Nat
          BY <2>1, PathFits, NodesLeft
        <4> QED BY <4>1
      <3> QED BY <2>1, <3>1, PathFits DEF Path
    <2> QED BY <2>1, <2>2 DEF ListInv, LockInv
  <1>1. ASSUME LockInv', Path(q)', Listed(q)', Held' = Held
        PROVE  ListInv' /\ QueueStep
    BY <1>1, QueueBecomes DEF QueueStep
  <1>2. ASSUME NEW t \in Thread, Continue(t) \/ LockTestAndSet(t) \/ TakeHead(t) \/ LockRelease(t)
        PROVE  ListInv' /\ QueueStep
    <2>1. LockInv' /\ pc \in [Thread -> {"while", "dequeue", "take", "unlink", "taken",
                                         "enqueue", "link", "linked", "put", "done"}]
          /\ node \in [Thread -> Node \cup {NULL}]
      BY <1>0, <1>2, LockKept DEF CycleList, TypeOK
    <2>2. /\ UNCHANGED <<head, tail, next>>
          /\ \A u \in Thread : pc'[u] = "linked" <=> pc[u] = "linked"
          /\ \A u \in Thread : pc[u] = "linked" => node'[u] = node[u]
          /\ \A u \in Thread : pc'[u] = "unlink" => node'[u] = head
      BY <1>0, <1>2, <2>1
         DEF Continue, LockTestAndSet, TakeHead, LockRelease, Step, Listed
    <2>3. Held' = Held
      <3>1. ASSUME NEW u \in Thread
            PROVE  (IF pc'[u] \in {"taken", "enqueue", "link"} THEN node'[u] ELSE NULL) =
                   (IF pc[u] \in {"taken", "enqueue", "link"} THEN node[u] ELSE NULL)
        BY <1>2, <2>1 DEF Continue, LockTestAndSet, TakeHead, LockRelease, Step
      <3> QED BY <3>1 DEF Held
    <2>4. Path(q)' /\ Listed(q)'
      BY <1>0, <2>2, <2>3, QueueUntouched
    <2> QED BY <1>1, <2>1, <2>3, <2>4
  <1>3. ASSUME NEW t \in Thread, Unlink(t) PROVE ListInv' /\ QueueStep
    <2>1. LockInv'
      BY <1>0, <1>3, LockKept DEF CycleList
    <2>2. /\ Path(Tail(q))' /\ Listed(Tail(q))' /\ q # <<>>
          /\ Held[t] = NULL /\ Held'[t] # NULL /\ Held' = [Held EXCEPT ![t] = Head(q)]
      BY <1>0, <1>3, UnlinkTakes
    <2>3. PICK r : r = Tail(q)
      OBVIOUS
    <2>4. ListInv' /\ Queue' = r
      <3>1. Path(r)' /\ Listed(r)'
        BY <2>2, <2>3, Zenon
      <3> QED BY <2>1, <3>1, QueueBecomes
    <2>5. Nodes!Take(t)
      BY <2>2, <2>3, <2>4, Zenon DEF Nodes!Take, Queue
    <2> QED BY <2>4, <2>5 DEF QueueStep
  <1>4. ASSUME NEW t \in Thread, Link(t) PROVE ListInv' /\ QueueStep
    <2>1. LockInv'
      BY <1>0, <1>4, LockKept DEF CycleList
    <2>2. Held[t] # NULL /\ Held[t] = node[t] /\ Held' = [Held EXCEPT ![t] = NULL]
      BY <1>0, <1>4, LinkPuts
    <2>3. PICK r : r = Append(q, node[t]) /\ Path(r)' /\ Listed(r)'
      BY <1>0, <1>4, LinkPuts
    <2>4. ListInv' /\ Queue' = r
      BY <2>1, <2>3, QueueBecomes
    <2>5. Nodes!PutBack(t)
      BY <2>2, <2>3, <2>4, Zenon DEF Nodes!PutBack, Queue
    <2> QED BY <2>4, <2>5 DEF QueueStep
  <1>5. ASSUME NEW t \in Thread, SetTail(t) PROVE ListInv' /\ QueueStep
    <2>1. LockInv'
      BY <1>0, <1>5, LockKept DEF CycleList
    <2> QED BY <1>0, <1>1, <1>5, <2>1, SetTailKeeps
  <1>6. ASSUME UNCHANGED <<lock, head, tail, next, pc, node>>, running' \in BOOLEAN
        PROVE  ListInv' /\ QueueStep
    <2>1. LockInv'
      BY <1>0, <1>6 DEF LockInv, TypeOK, Node
    <2>2. Held' = Held
      BY <1>6 DEF Held
    <2>3. Path(q)' /\ Listed(q)'
      BY <1>0, <1>6, <2>2, QueueUntouched DEF Listed
    <2> QED BY <1>1, <2>1, <2>2, <2>3
  <1>7. AskToStop \/ Joined \/ UNCHANGED vars
          => UNCHANGED <<lock, head, tail, next, pc, node>> /\ running' \in BOOLEAN
    BY <1>0 DEF AskToStop, Joined, vars, TypeOK
  <1> QED BY <1>2, <1>3, <1>4, <1>5, <1>6, <1>7 DEF Next, CycleList

LEMMA ListKept ==
    ListInv /\ [AnyStep]_<<program, strings, parking, heap, vars>> => ListInv' /\ QueueStep
  BY ListNext DEF AnyStep, StringStep, ParkingStep, ListStep, HeapStep

LEMMA ListInvHolds == AnySpec => []ListInv
  <1>1. AnyInit => ListInv
    BY ListStart DEF AnyInit
  <1> QED BY <1>1, ListKept, PTL DEF AnySpec

(* The threads of critical.c see a queue: no node is lost or given to two  *)
(* of them, whatever the order in which they get the spin lock.            *)
THEOREM ListIsAQueue == AnySpec => ImplementsQueue
  <1>1. AnyInit => Queue = [i \in 1 .. LIST_LEN |-> i] /\ Held = [t \in Thread |-> NULL]
    BY ListStart DEF AnyInit, Init, Held
  <1>2. AnySpec => [][\E t \in Thread : Nodes!Take(t) \/ Nodes!PutBack(t)]_<<Queue, Held>>
    BY ListInvHolds, ListKept, PTL DEF AnySpec, QueueStep
  <1> QED BY <1>1, <1>2, PTL DEF AnySpec, ImplementsQueue, Nodes!QueueSpec, Queue

-----------------------------------------------------------------------------
LEMMA HeapTypes == HeapInv => Heap!TypeOK
  <1>1. HeapInv => Heap!TypeOK
    BY HeapConstantsHold, InvImpliesType
  <1>2. Heap!Block = Heap!Block
    BY DEF Heap!Block, Heap!Block
  <1> QED BY <1>1, <1>2 DEF Heap!TypeOK, Heap!TypeOK

LEMMA ParkingTypes == LotInv => Parking!TypeOK
  BY DEF LotInv, TableOK, ParkingInv, ThreadOK, Parking!TypeOK

(* The variables of the four programs keep their types.                    *)
THEOREM ProgramTypesCorrect == AnySpec => []AllTypesOK
  <1>1. ListInv => TypeOK
    BY DEF ListInv, LockInv
  <1>2. StringInv => Strings!TypeOK
    BY DEF StringInv
  <1>3. TypeOK /\ Strings!TypeOK /\ Parking!TypeOK /\ Heap!TypeOK => AllTypesOK
    BY DEF AllTypesOK
  <1> QED BY <1>1, <1>2, <1>3, HeapTypes, ParkingTypes, ListInvHolds, StringInvHolds,
             LotInvHolds, HeapInvHolds, PTL
=============================================================================
