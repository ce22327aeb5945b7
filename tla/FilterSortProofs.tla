-------------------------- MODULE FilterSortProofs --------------------------
(* Proofs about the filter of hw1, the three sorts, of an array, of a      *)
(* linked list and of a mapped file, and the readers of a floppy's image,  *)
(* with variables of their own.                                            *)
EXTENDS Integers, Sequences, FiniteSets, FiniteSetTheorems, TLAPS

CONSTANTS
    LINE_LIMIT, LINES_LIMIT, MaxInput, BufferSize,          \* filter
    MaxLength, MaxNodes, Value, NULL,                       \* array and list
    MaxRecords, Distance, NaN, SIZE_MAX,                    \* mapped file
    SECTORS, Entries, Clusters, Images                      \* floppy readers

VARIABLES
    source, excludedLineIdx, fetched, buffer, bufferAt, wholeFile, lineNo, colNo, wrote, sure,
    given, sequence, sorts, lap, lows,
    vals, link, frames, result,
    distance, plist, outer, inner, tmp, step,
    reader, disk, filePos, levels, report

Filter == INSTANCE Exclude WITH
    input <- source, taken <- fetched, i <- bufferAt, j <- lineNo, h <- colNo,
    written <- wrote, defined <- sure
Arrays == INSTANCE ArraySort WITH
    input <- given, seq <- sequence, calls <- sorts, i <- lap, lower <- lows
Lists == INSTANCE ListSort WITH
    val <- vals, next <- link, stack <- frames, sorted <- result
Mapped == INSTANCE MappedSort WITH i <- outer, j <- inner, phase <- step
Floppy == INSTANCE FloppyDir WITH
    version <- reader, image <- disk, pos <- filePos, stack <- levels, lines <- report

-----------------------------------------------------------------------------
(* Sequences and their values.                                             *)
LEMMA SequenceIsFunction ==
    ASSUME NEW S, NEW s \in Seq(S) PROVE s \in [1 .. Len(s) -> S]
  OBVIOUS

LEMMA ConcatFacts ==
    ASSUME NEW S, NEW s \in Seq(S), NEW t \in Seq(S)
    PROVE  /\ s \o t \in Seq(S) /\ Len(s \o t) = Len(s) + Len(t)
           /\ Len(s) \in Nat /\ Len(t) \in Nat
           /\ \A m \in 1 .. Len(s) : (s \o t)[m] = s[m]
           /\ \A m \in 1 .. Len(t) : (s \o t)[Len(s) + m] = t[m]
  OBVIOUS

LEMMA SubSeqFacts ==
    ASSUME NEW S, NEW s \in Seq(S), NEW a \in Nat, NEW n \in Nat, a + n <= Len(s)
    PROVE  /\ SubSeq(s, a + 1, a + n) \in Seq(S) /\ Len(SubSeq(s, a + 1, a + n)) = n
           /\ \A m \in 1 .. n : SubSeq(s, a + 1, a + n)[m] = s[a + m]
  OBVIOUS

LEMMA FunctionIsSequence ==
    ASSUME NEW S, NEW n \in Nat, NEW s \in [1 .. n -> S] PROVE s \in Seq(S) /\ Len(s) = n
  OBVIOUS

LEMMA TailFacts ==
    ASSUME NEW S, NEW s \in Seq(S), Len(s) # 0
    PROVE  /\ Tail(s) \in Seq(S) /\ Len(Tail(s)) = Len(s) - 1
           /\ \A k \in 1 .. Len(s) - 1 : Tail(s)[k] = s[k + 1]
  OBVIOUS

(* The first n values of a sequence.                                       *)
FirstOf(f, n) == {f[k] : k \in 1 .. n}

LEMMA InjectiveCounts ==
    ASSUME NEW n \in Nat, NEW f, \A a, b \in 1 .. n : f[a] = f[b] => a = b
    PROVE  IsFiniteSet(FirstOf(f, n)) /\ Cardinality(FirstOf(f, n)) = n
  <1> DEFINE g == [i \in 1 .. n |-> f[i]]
  <1>1. g \in Surjection(1 .. n, FirstOf(f, n)) /\ g \in Injection(1 .. n, FirstOf(f, n))
    BY DEF Surjection, Injection, IsInjective, FirstOf
  <1>2. IsFiniteSet(1 .. n) /\ Cardinality(1 .. n) = n
    BY FS_Interval
  <1> HIDE DEF g
  <1> QED BY <1>1, <1>2, FS_Surjection

-----------------------------------------------------------------------------
(* The filter of hw1.                                                      *)
FilterConstants ==
    LINE_LIMIT \in Nat /\ LINES_LIMIT \in Nat /\ MaxInput \in Nat /\ BufferSize \in Nat

Glyph == {"x", "\n"}

(* How much of the source has been stored, and where its last line begins.  *)
Stored == fetched - Len(buffer) + bufferAt
LineStart == Stored - colNo

EndsLine(k) == source[k] = "\n"
Ends(p) == {k \in 1 .. p : EndsLine(k)}
LineOf(k) == Cardinality(Ends(k - 1))
KeptUpTo(b) == {k \in 1 .. b : LineOf(k) # excludedLineIdx}
Rank(K, k) == Cardinality({n \in K : n <= k})

(* The output has the kept characters in their order.                      *)
WrittenAre(w, K) ==
    /\ w \in Seq(Glyph) /\ Len(w) = Cardinality(K)
    /\ \A k \in K : w[Rank(K, k)] = source[k]

FilterShape ==
    /\ source \in Seq(Glyph) /\ Len(source) <= MaxInput
    /\ excludedLineIdx \in Nat
    /\ fetched \in 0 .. Len(source)
    /\ buffer \in Seq(Glyph) /\ Len(buffer) <= fetched
    /\ bufferAt \in 0 .. Len(buffer)
    /\ colNo \in 0 .. Stored
    /\ wholeFile \in [Filter!Address -> {"0", "x", "\n"}]
    /\ sure \in BOOLEAN
Buffered == \A m \in 1 .. Len(buffer) : buffer[m] = source[fetched - Len(buffer) + m]
LineInMemory ==
    \A m \in 1 .. colNo : /\ ~EndsLine(LineStart + m)
                      /\ lineNo * LINE_LIMIT + m - 1 \in Filter!Address
                      /\ wholeFile[lineNo * LINE_LIMIT + m - 1] = source[LineStart + m]

FilterInv ==
    /\ FilterShape /\ Buffered /\ LineInMemory
    /\ LineStart # 0 => EndsLine(LineStart)
    /\ lineNo = Cardinality(Ends(Stored))
    /\ WrittenAre(wrote, KeptUpTo(LineStart))

LEMMA EndsCount == \A p \in Nat : IsFiniteSet(Ends(p)) /\ Cardinality(Ends(p)) \in 0 .. p
  <1> TAKE p \in Nat
  <1>1. Ends(p) \subseteq 1 .. p
    BY DEF Ends
  <1>2. IsFiniteSet(1 .. p) /\ Cardinality(1 .. p) = p
    BY FS_Interval
  <1>3. IsFiniteSet(Ends(p)) /\ Cardinality(Ends(p)) <= p
    BY <1>1, <1>2, FS_Subset
  <1>4. Cardinality(Ends(p)) \in Nat
    BY <1>3, FS_CardinalityType
  <1> QED BY <1>3, <1>4

LEMMA EndsGrow ==
    ASSUME NEW p \in Nat
    PROVE  /\ EndsLine(p + 1) => Cardinality(Ends(p + 1)) = Cardinality(Ends(p)) + 1
           /\ ~EndsLine(p + 1) => Ends(p + 1) = Ends(p)
  <1>1. \A k : k \in 1 .. p + 1 <=> k \in 1 .. p \/ k = p + 1
    OBVIOUS
  <1>2. ASSUME EndsLine(p + 1) PROVE Cardinality(Ends(p + 1)) = Cardinality(Ends(p)) + 1
    <2>1. Ends(p + 1) = Ends(p) \cup {p + 1}
      BY <1>1, <1>2 DEF Ends
    <2>2. p + 1 \notin Ends(p)
      BY DEF Ends
    <2> QED BY <2>1, <2>2, EndsCount, FS_AddElement
  <1>3. ASSUME ~EndsLine(p + 1) PROVE Ends(p + 1) = Ends(p)
    BY <1>1, <1>3 DEF Ends
  <1> QED BY <1>2, <1>3

LEMMA NoEndBetween ==
    ASSUME NEW b \in Nat, NEW p \in Nat, b <= p, \A m \in b + 1 .. p : ~EndsLine(m)
    PROVE  Ends(p) = Ends(b)
  <1>1. \A k : k \in 1 .. p <=> k \in 1 .. b \/ k \in b + 1 .. p
    OBVIOUS
  <1> QED BY <1>1 DEF Ends

LEMMA RanksOfMore ==
    ASSUME NEW b \in Nat, NEW c \in Nat, b <= c, NEW K \in SUBSET (1 .. b)
    PROVE  /\ IsFiniteSet(K) /\ Cardinality(K) \in Nat
           /\ Cardinality(K \cup (b + 1 .. c)) = Cardinality(K) + (c - b)
           /\ \A k \in K : /\ Rank(K \cup (b + 1 .. c), k) = Rank(K, k)
                           /\ Rank(K, k) \in 1 .. Cardinality(K)
           /\ \A k \in b + 1 .. c : Rank(K \cup (b + 1 .. c), k) = Cardinality(K) + (k - b)
  <1>1. IsFiniteSet(K) /\ Cardinality(K) \in Nat
    <2>1. IsFiniteSet(1 .. b)
      BY FS_Interval
    <2> QED BY <2>1, FS_Subset, FS_CardinalityType
  <1>2. ASSUME NEW d \in Nat, b <= d
        PROVE  Cardinality(K \cup (b + 1 .. d)) = Cardinality(K) + (d - b)
    <2>1. K \cap (b + 1 .. d) = {}
      OBVIOUS
    <2>2. IsFiniteSet(b + 1 .. d) /\ Cardinality(b + 1 .. d) = d - b
      <3>1. b + 1 \in Int /\ d \in Int
        OBVIOUS
      <3>2. IsFiniteSet(b + 1 .. d)
            /\ Cardinality(b + 1 .. d) = IF b + 1 > d THEN 0 ELSE d - (b + 1) + 1
        BY <3>1, FS_Interval
      <3> QED BY <1>2, <3>2
    <2>3. Cardinality({}) = 0
      BY FS_EmptySet
    <2>4. Cardinality(K \cup (b + 1 .. d))
            = Cardinality(K) + Cardinality(b + 1 .. d) - Cardinality(K \cap (b + 1 .. d))
      BY <1>1, <2>2, FS_Union
    <2>5. Cardinality(K \cup (b + 1 .. d)) = Cardinality(K) + (d - b) - 0
      BY <2>1, <2>2, <2>3, <2>4, Zenon
    <2> QED BY <1>1, <2>5
  <1>3. ASSUME NEW k \in K
        PROVE  /\ Rank(K \cup (b + 1 .. c), k) = Rank(K, k)
               /\ Rank(K, k) \in 1 .. Cardinality(K)
    <2>1. {n \in K \cup (b + 1 .. c) : n <= k} = {n \in K : n <= k}
      OBVIOUS
    <2> DEFINE low == {n \in K : n <= k}
    <2>2. low \subseteq K /\ k \in low
      OBVIOUS
    <2> HIDE DEF low
    <2>3. IsFiniteSet(low) /\ Cardinality(low) <= Cardinality(K)
      BY <1>1, <2>2, FS_Subset
    <2>4. Cardinality(low) \in Nat /\ Cardinality(low) # 0
      BY <2>2, <2>3, FS_CardinalityType, FS_EmptySet
    <2>5. Cardinality(low) \in 1 .. Cardinality(K)
      BY <1>1, <2>3, <2>4
    <2> QED BY <2>1, <2>5 DEF Rank, low
  <1>4. ASSUME NEW k \in b + 1 .. c
        PROVE  Rank(K \cup (b + 1 .. c), k) = Cardinality(K) + (k - b)
    <2>0. \A n : n \in K => n \in Int /\ n <= k
      OBVIOUS
    <2>3. \A n : n \in b + 1 .. c /\ n <= k <=> n \in b + 1 .. k
      OBVIOUS
    <2>1. {n \in K \cup (b + 1 .. c) : n <= k} = K \cup (b + 1 .. k)
      BY <2>0, <2>3, Zenon
    <2>2. k \in Nat /\ b <= k
      OBVIOUS
    <2> QED BY <1>2, <2>1, <2>2 DEF Rank
  <1> QED BY <1>1, <1>2, <1>3, <1>4

LEMMA GlyphsFollow ==
    \A s, t \in Seq(Glyph) :
        /\ s \o t \in Seq(Glyph) /\ Len(s \o t) = Len(s) + Len(t)
        /\ Len(s) \in Nat
        /\ \A m \in 1 .. Len(s) : (s \o t)[m] = s[m]
        /\ \A m \in 1 .. Len(t) : (s \o t)[Len(s) + m] = t[m]
  BY ConcatFacts

(* A line is appended to what is wrote.                                  *)
LEMMA LineIsAppended ==
    ASSUME NEW b \in Nat, NEW c \in Nat, b <= c, NEW K \in SUBSET (1 .. b),
           NEW w, WrittenAre(w, K),
           NEW line \in Seq(Glyph), Len(line) = c - b,
           \A m \in 1 .. c - b : line[m] = source[b + m]
    PROVE  WrittenAre(w \o line, K \cup (b + 1 .. c))
  <1> DEFINE L == K \cup (b + 1 .. c)
             u == w \o line
  <1>1. w \in Seq(Glyph) /\ Len(w) = Cardinality(K) /\ \A k \in K : w[Rank(K, k)] = source[k]
    BY DEF WrittenAre
  <1>2. /\ u \in Seq(Glyph) /\ Len(u) = Len(w) + Len(line) /\ Len(w) \in Nat
        /\ \A m \in 1 .. Len(w) : u[m] = w[m]
        /\ \A m \in 1 .. Len(line) : u[Len(w) + m] = line[m]
    <2>1. w \in Seq(Glyph)
      BY <1>1
    <2>2. line \in Seq(Glyph)
      OBVIOUS
    <2>3. /\ w \o line \in Seq(Glyph) /\ Len(w \o line) = Len(w) + Len(line)
          /\ Len(w) \in Nat
          /\ \A m \in 1 .. Len(w) : (w \o line)[m] = w[m]
          /\ \A m \in 1 .. Len(line) : (w \o line)[Len(w) + m] = line[m]
      BY <2>1, <2>2, GlyphsFollow, Zenon
    <2> QED BY <2>3
  <1>3. /\ Cardinality(K) \in Nat /\ Cardinality(L) = Cardinality(K) + (c - b)
        /\ \A k \in K : Rank(L, k) = Rank(K, k) /\ Rank(K, k) \in 1 .. Cardinality(K)
        /\ \A k \in b + 1 .. c : Rank(L, k) = Cardinality(K) + (k - b)
    BY RanksOfMore
  <1> HIDE DEF u
  <1>4. ASSUME NEW k \in L PROVE u[Rank(L, k)] = source[k]
    <2>1. CASE k \in K
      BY <1>1, <1>2, <1>3, <2>1
    <2>2. CASE k \in b + 1 .. c
      <3>1. k - b \in 1 .. c - b /\ b + (k - b) = k
        BY <2>2
      <3>2. Rank(L, k) = Len(w) + (k - b) /\ k - b \in 1 .. Len(line)
        BY <1>1, <1>3, <2>2, <3>1
      <3> QED BY <1>2, <3>1, <3>2
    <2> QED BY <2>1, <2>2
  <1>5. Len(u) = Cardinality(L)
    BY <1>1, <1>2, <1>3
  <1> QED BY <1>2, <1>4, <1>5 DEF WrittenAre, u

LEMMA FilterStart == FilterConstants /\ Filter!Init => FilterInv
  <1> SUFFICES ASSUME FilterConstants, Filter!Init PROVE FilterInv
    OBVIOUS
  <1>1. PICK n \in 0 .. MaxInput : source \in [1 .. n -> {"x", "\n"}]
    BY DEF Filter!Init
  <1>2. source \in [1 .. n -> Glyph] /\ n \in Nat
    BY <1>1 DEF Glyph, FilterConstants
  <1>3. source \in Seq(Glyph) /\ Len(source) = n
    BY <1>2, FunctionIsSequence
  <1>4. /\ excludedLineIdx \in 0 .. 2 /\ fetched = 0 /\ buffer = <<>> /\ bufferAt = 0 /\ lineNo = 0 /\ colNo = 0
        /\ wrote = <<>> /\ sure = TRUE
        /\ wholeFile = [a \in Filter!Address |-> "0"]
    BY DEF Filter!Init
  <1>5. Len(buffer) = 0 /\ buffer \in Seq(Glyph) /\ wrote \in Seq(Glyph) /\ Len(wrote) = 0
    BY <1>4
  <1>6. Stored = 0 /\ LineStart = 0
    <2>1. fetched = 0 /\ bufferAt = 0 /\ colNo = 0 /\ Len(buffer) = 0
      BY <1>4, <1>5
    <2>2. Stored = 0 - 0 + 0
      BY <2>1, Zenon DEF Stored
    <2> QED BY <2>1, <2>2 DEF LineStart
  <1>7. wholeFile \in [Filter!Address -> {"0", "x", "\n"}]
    BY <1>4
  <1>8. FilterShape
    BY <1>1, <1>3, <1>4, <1>5, <1>6, <1>7 DEF FilterShape, FilterConstants
  <1>9. Buffered /\ LineInMemory
    BY <1>4, <1>5 DEF Buffered, LineInMemory
  <1>10. KeptUpTo(0) = {} /\ Ends(0) = {}
    BY DEF KeptUpTo, Ends
  <1>11. Cardinality({}) = 0
    BY FS_EmptySet
  <1>12. WrittenAre(wrote, KeptUpTo(0))
    BY <1>5, <1>10, <1>11 DEF WrittenAre
  <1> QED BY <1>4, <1>6, <1>8, <1>9, <1>10, <1>11, <1>12 DEF FilterInv

(* The parts of the invariant that only look at the source, over a step.    *)
LEMMA InputStays ==
    ASSUME source' = source, excludedLineIdx' = excludedLineIdx
    PROVE  /\ \A k : EndsLine(k)' <=> EndsLine(k)
           /\ \A p : Ends(p)' = Ends(p)
           /\ \A b : KeptUpTo(b)' = KeptUpTo(b)
           /\ \A w, K : WrittenAre(w, K)' <=> WrittenAre(w, K)
  BY DEF EndsLine, Ends, LineOf, KeptUpTo, WrittenAre, Rank

LEMMA FilterReads ==
    ASSUME FilterConstants, FilterInv, Filter!Read PROVE FilterInv'
  <1>1. PICK n \in 1 .. BufferSize :
           /\ fetched + n <= Len(source) /\ fetched' = fetched + n
           /\ buffer' = SubSeq(source, fetched + 1, fetched + n)
    BY DEF Filter!Read
  <1>2. bufferAt = Len(buffer) /\ bufferAt' = 0
        /\ UNCHANGED <<source, excludedLineIdx, wholeFile, lineNo, colNo, wrote, sure>>
    BY DEF Filter!Read
  <1>3. FilterShape
    BY DEF FilterInv
  <1>4. source \in Seq(Glyph) /\ fetched \in Nat /\ n \in Nat /\ Len(source) \in Nat
    BY <1>3 DEF FilterShape, FilterConstants
  <1>5. /\ buffer' \in Seq(Glyph) /\ Len(buffer') = n
        /\ \A m \in 1 .. n : buffer'[m] = source[fetched + m]
    BY <1>1, <1>4, SubSeqFacts
  <1>6. Len(buffer) \in Nat
    BY <1>3 DEF FilterShape
  <1>7. Stored' = Stored /\ LineStart' = LineStart
    BY <1>1, <1>2, <1>4, <1>5, <1>6 DEF Stored, LineStart
  <1>8. fetched' \in 0 .. Len(source) /\ Len(buffer') <= fetched' /\ 0 \in 0 .. Len(buffer')
    <2>1. fetched + n <= Len(source) /\ fetched' = fetched + n
      BY <1>1
    <2>2. fetched' \in 0 .. Len(source) /\ n <= fetched' /\ 0 \in 0 .. n
      BY <1>4, <2>1
    <2> QED BY <1>5, <2>2, Zenon
  <1>9. FilterShape'
    BY <1>2, <1>3, <1>5, <1>7, <1>8 DEF FilterShape, Filter!Address
  <1>10. Buffered'
    BY <1>1, <1>2, <1>4, <1>5 DEF Buffered
  <1>11. LineInMemory'
    BY <1>2, <1>7 DEF FilterInv, LineInMemory, EndsLine, Filter!Address
  <1>12. (LineStart # 0 => EndsLine(LineStart))'
    BY <1>2, <1>7 DEF FilterInv, EndsLine
  <1>13. (lineNo = Cardinality(Ends(Stored)))'
    BY <1>2, <1>7 DEF FilterInv, EndsLine, Ends
  <1>14. WrittenAre(wrote, KeptUpTo(LineStart))'
    <2>1. WrittenAre(wrote, KeptUpTo(LineStart))
      BY DEF FilterInv
    <2>2. wrote' = wrote /\ source' = source /\ excludedLineIdx' = excludedLineIdx
      BY <1>2
    <2> QED BY <2>1, <2>2, <1>7, InputStays, Zenon
  <1> QED BY <1>9, <1>10, <1>11, <1>12, <1>13, <1>14 DEF FilterInv

(* What is kept of the line that a "\n" at Stored + 1 ends.                *)
LEMMA LineIsKept ==
    ASSUME FilterInv, FilterConstants
    PROVE  LET all == LineStart + 1 .. Stored + 1
           IN  KeptUpTo(Stored + 1) = IF lineNo # excludedLineIdx THEN KeptUpTo(LineStart) \cup all
                                      ELSE KeptUpTo(LineStart)
  <1> DEFINE b == LineStart
             c == Stored + 1
  <1>1. b \in Nat /\ Stored \in Nat /\ c \in Nat /\ b <= Stored /\ colNo \in 0 .. Stored /\ Stored - b = colNo
    BY DEF FilterInv, FilterShape, Stored, LineStart
  <1>2. \A m \in b + 1 .. Stored : ~EndsLine(m)
    <2> TAKE m \in b + 1 .. Stored
    <2>1. m - b \in 1 .. colNo /\ b + (m - b) = m
      BY <1>1
    <2>2. ~EndsLine(LineStart + (m - b))
      BY <2>1 DEF FilterInv, LineInMemory
    <2> QED BY <2>1, <2>2
  <1>3. Ends(Stored) = Ends(b)
    BY <1>1, <1>2, NoEndBetween
  <1> HIDE DEF b
  <1>4. ASSUME NEW k \in b + 1 .. c PROVE LineOf(k) = lineNo
    <2>1. k - 1 \in Nat /\ b <= k - 1 /\ \A m \in b + 1 .. k - 1 : m \in b + 1 .. Stored
      BY <1>1
    <2>2. \A m \in b + 1 .. k - 1 : ~EndsLine(m)
      BY <1>2, <2>1
    <2>3. Ends(k - 1) = Ends(b)
      BY <1>1, <2>1, <2>2, NoEndBetween
    <2>4. lineNo = Cardinality(Ends(Stored))
      BY DEF FilterInv
    <2> QED BY <1>3, <2>3, <2>4 DEF LineOf
  <1>5. \A k : k \in 1 .. c <=> k \in 1 .. b \/ k \in b + 1 .. c
    BY <1>1
  <1>6. KeptUpTo(c) = IF lineNo # excludedLineIdx THEN KeptUpTo(b) \cup (b + 1 .. c) ELSE KeptUpTo(b)
    <2>1. \A k : k \in KeptUpTo(c) <=> k \in 1 .. c /\ LineOf(k) # excludedLineIdx
      BY DEF KeptUpTo
    <2>2. \A k : k \in KeptUpTo(b) <=> k \in 1 .. b /\ LineOf(k) # excludedLineIdx
      BY DEF KeptUpTo
    <2>3. CASE lineNo # excludedLineIdx
      <3>1. \A k : k \in KeptUpTo(c) <=> k \in KeptUpTo(b) \/ k \in b + 1 .. c
        BY <1>4, <1>5, <2>1, <2>2, <2>3
      <3>2. KeptUpTo(c) = KeptUpTo(b) \cup (b + 1 .. c)
        BY <3>1, Zenon
      <3> QED BY <2>3, <3>2
    <2>4. CASE lineNo = excludedLineIdx
      <3>1. \A k : k \in KeptUpTo(c) <=> k \in KeptUpTo(b)
        BY <1>4, <1>5, <2>1, <2>2, <2>4
      <3>2. KeptUpTo(c) = KeptUpTo(b)
        BY <3>1, Zenon DEF KeptUpTo
      <3> QED BY <2>4, <3>2
    <2> QED BY <2>3, <2>4
  <1> QED BY <1>6 DEF b

LEMMA FilterStores ==
    ASSUME FilterConstants, FilterInv, Filter!Store PROVE FilterInv'
  <1> DEFINE c == buffer[bufferAt + 1]
             base == lineNo * LINE_LIMIT
             memory == [wholeFile EXCEPT ![base + colNo] = c]
  <1>1. /\ bufferAt < Len(buffer) /\ UNCHANGED <<source, excludedLineIdx, fetched, buffer>>
        /\ base + colNo \notin Filter!Address =>
              sure' = FALSE /\ UNCHANGED <<bufferAt, wholeFile, lineNo, colNo, wrote>>
        /\ base + colNo \in Filter!Address =>
              /\ wholeFile' = memory /\ bufferAt' = bufferAt + 1
              /\ wrote' = IF c = "\n" /\ lineNo # excludedLineIdx
                            THEN wrote \o Filter!Line(colNo + 1, memory) ELSE wrote
              /\ lineNo' = IF c = "\n" THEN lineNo + 1 ELSE lineNo
              /\ colNo' = IF c = "\n" THEN 0 ELSE colNo + 1
              /\ UNCHANGED sure
    BY DEF Filter!Store
  <1>2. FilterShape /\ Buffered /\ LineInMemory /\ (LineStart # 0 => EndsLine(LineStart))
        /\ lineNo = Cardinality(Ends(Stored)) /\ WrittenAre(wrote, KeptUpTo(LineStart))
    BY DEF FilterInv
  <1>3. CASE base + colNo \notin Filter!Address
    <2>1. sure' = FALSE /\ UNCHANGED <<source, excludedLineIdx, fetched, buffer, bufferAt, wholeFile, lineNo, colNo, wrote>>
      BY <1>1, <1>3
    <2>2. Stored' = Stored /\ LineStart' = LineStart
      BY <2>1 DEF Stored, LineStart
    <2>3. FilterShape'
      BY <1>2, <2>1, <2>2 DEF FilterShape, Filter!Address
    <2>4. Buffered' /\ LineInMemory'
      BY <1>2, <2>1, <2>2 DEF Buffered, LineInMemory, EndsLine, Filter!Address
    <2>5. (LineStart # 0 => EndsLine(LineStart))' /\ (lineNo = Cardinality(Ends(Stored)))'
      BY <1>2, <2>1, <2>2, InputStays, Zenon
    <2>6. WrittenAre(wrote, KeptUpTo(LineStart))'
      BY <1>2, <2>1, <2>2, InputStays, Zenon
    <2> QED BY <2>3, <2>4, <2>5, <2>6 DEF FilterInv
  <1>4. CASE base + colNo \in Filter!Address
    <2>0. /\ fetched \in Nat /\ Len(buffer) \in Nat /\ bufferAt \in Nat /\ Len(source) \in Nat
          /\ fetched <= Len(source) /\ Len(buffer) <= fetched /\ colNo \in Nat /\ colNo <= Stored
          /\ Stored \in Nat /\ LineStart \in Nat /\ Stored = LineStart + colNo
      BY <1>2 DEF FilterShape, Stored, LineStart
    <2>1. wholeFile' = memory /\ bufferAt' = bufferAt + 1 /\ UNCHANGED sure
      BY <1>1, <1>4
    <2>2. bufferAt + 1 \in 1 .. Len(buffer) /\ Stored' = Stored + 1 /\ Stored + 1 <= Len(source)
          /\ fetched - Len(buffer) + (bufferAt + 1) = Stored + 1
      BY <1>1, <2>0, <2>1 DEF Stored
    <2>3. c = source[Stored + 1] /\ (c = "\n" <=> EndsLine(Stored + 1)) /\ c \in Glyph
      <3>1. buffer[bufferAt + 1] = source[fetched - Len(buffer) + (bufferAt + 1)]
        BY <1>2, <2>2, Zenon DEF Buffered
      <3>2. buffer \in Seq(Glyph)
        BY <1>2 DEF FilterShape
      <3>3. c \in Glyph
        BY <2>2, <3>2
      <3> QED BY <2>2, <3>1, <3>3, Zenon DEF EndsLine
    <2> HIDE DEF c
    <2>4. memory \in [Filter!Address -> {"0", "x", "\n"}] /\ memory[base + colNo] = c
          /\ \A a \in Filter!Address : a # base + colNo => memory[a] = wholeFile[a]
      <3>1. wholeFile \in [Filter!Address -> {"0", "x", "\n"}] /\ c \in {"0", "x", "\n"}
        BY <1>2, <2>3 DEF FilterShape, Glyph
      <3> QED BY <1>4, <3>1
    <2>5. base \in Int
      <3>1. lineNo \in Nat /\ LINE_LIMIT \in Nat
        BY <1>2, <2>0, EndsCount DEF FilterConstants
      <3> QED BY <3>1
    <2> HIDE DEF memory
    <2> DEFINE Cell(m) == base + m - 1
    <2>6. \A m \in 1 .. colNo : /\ ~EndsLine(LineStart + m) /\ Cell(m) \in Filter!Address
                            /\ memory[Cell(m)] = source[LineStart + m]
      <3> TAKE m \in 1 .. colNo
      <3>1. ~EndsLine(LineStart + m) /\ Cell(m) \in Filter!Address
            /\ wholeFile[Cell(m)] = source[LineStart + m]
        BY <1>2 DEF LineInMemory
      <3>2. Cell(m) # base + colNo
        BY <2>0, <2>5
      <3> QED BY <2>4, <3>1, <3>2
    <2> HIDE DEF base
    <2>7. \A m \in 1 .. colNo + 1 : /\ Cell(m) \in Filter!Address
                                /\ memory[Cell(m)] = source[LineStart + m]
      <3> TAKE m \in 1 .. colNo + 1
      <3>1. CASE m = colNo + 1
        <4>1. Cell(m) = base + colNo /\ LineStart + m = Stored + 1
          BY <2>0, <2>5, <3>1
        <4> QED BY <1>4, <2>3, <2>4, <4>1, Zenon
      <3>2. CASE m \in 1 .. colNo
        BY <2>6, <3>2
      <3> QED BY <2>0, <3>1, <3>2
    <2>8. (lineNo = Cardinality(Ends(Stored)))'
      <3>1. lineNo' = IF EndsLine(Stored + 1) THEN lineNo + 1 ELSE lineNo
        BY <1>1, <1>4, <2>3, Zenon
      <3>2. lineNo = Cardinality(Ends(Stored))
        BY <1>2
      <3>3. lineNo' = Cardinality(Ends(Stored + 1))
        BY <2>0, <3>1, <3>2, EndsGrow, Zenon
      <3>4. Ends(Stored)' = Ends(Stored + 1)
        BY <1>1, <2>2, InputStays, Zenon
      <3> QED BY <3>3, <3>4
    <2>9. colNo' \in 0 .. Stored' => FilterShape'
      BY <1>1, <1>2, <2>1, <2>2, <2>4 DEF FilterShape, Filter!Address
    <2>10. Buffered'
      BY <1>1, <1>2, <2>1 DEF Buffered
    <2>11. CASE EndsLine(Stored + 1)
      <3>1. colNo' = 0 /\ LineStart' = Stored + 1 /\ Stored' \in Nat
        BY <1>1, <1>4, <2>0, <2>2, <2>3, <2>11 DEF LineStart
      <3>2. LineInMemory' /\ colNo' \in 0 .. Stored'
        BY <3>1 DEF LineInMemory
      <3>3. EndsLine(LineStart)'
        BY <1>1, <2>11, <3>1, InputStays, Zenon
      <3> DEFINE line == Filter!Line(colNo + 1, memory)
                 K == KeptUpTo(LineStart)
                 d == Stored + 1
                 b == LineStart
      <3>4. WrittenAre(wrote', KeptUpTo(Stored + 1))
        <4>1. KeptUpTo(d) = IF lineNo # excludedLineIdx THEN K \cup (b + 1 .. d) ELSE K
          BY LineIsKept
        <4>2. line = [m \in 1 .. colNo + 1 |-> memory[Cell(m)]]
          <5>1. line = [k \in 1 .. colNo + 1 |-> memory[lineNo * LINE_LIMIT + k - 1]]
            BY DEF Filter!Line
          <5> QED BY <5>1, Zenon DEF base
        <4> HIDE DEF line
        <4>3. colNo + 1 \in Nat /\ d - b = colNo + 1 /\ b <= d /\ d \in Nat
              /\ \A m \in 1 .. colNo + 1 : LineStart + m \in 1 .. Len(source)
          BY <2>0, <2>2
        <4>4. \A m \in 1 .. colNo + 1 : source[LineStart + m] \in Glyph
          <5>1. source \in Seq(Glyph)
            BY <1>2 DEF FilterShape
          <5> QED BY <4>3, <5>1
        <4>5. line \in [1 .. colNo + 1 -> Glyph] /\ \A m \in 1 .. colNo + 1 : line[m] = source[LineStart + m]
          BY <2>7, <4>2, <4>4
        <4>6. line \in Seq(Glyph) /\ Len(line) = d - b
          BY <4>3, <4>5, FunctionIsSequence
        <4>7. \A m \in 1 .. d - b : line[m] = source[b + m]
          BY <4>3, <4>5
        <4>8. K \in SUBSET (1 .. b) /\ WrittenAre(wrote, K)
          BY <1>2 DEF KeptUpTo
        <4> HIDE DEF K, d, b
        <4>9. WrittenAre(wrote \o line, K \cup (b + 1 .. d))
          <5>1. b \in Nat /\ d \in Nat
            BY <2>0, <4>3 DEF b
          <5> QED BY <5>1, <4>3, <4>6, <4>7, <4>8, LineIsAppended
        <4>10. wrote' = IF lineNo # excludedLineIdx THEN wrote \o line ELSE wrote
          BY <1>1, <1>4, <2>3, <2>11, Zenon DEF line
        <4>11. WrittenAre(wrote', KeptUpTo(d))
          BY <4>1, <4>8, <4>9, <4>10, Zenon
        <4> QED BY <4>11 DEF d
      <3>5. WrittenAre(wrote, KeptUpTo(LineStart))'
        BY <1>1, <3>1, <3>4, InputStays, Zenon
      <3> QED BY <2>8, <2>9, <2>10, <3>2, <3>3, <3>5 DEF FilterInv
    <2>12. CASE ~EndsLine(Stored + 1)
      <3>1. colNo' = colNo + 1 /\ UNCHANGED <<lineNo, wrote>>
        BY <1>1, <1>4, <2>3, <2>12, Zenon
      <3>2. LineStart' = LineStart /\ colNo' \in 0 .. Stored'
        BY <2>0, <2>2, <3>1 DEF LineStart
      <3>3. LineInMemory'
        <4> SUFFICES ASSUME NEW m \in 1 .. colNo + 1
                     PROVE  /\ ~EndsLine(LineStart + m)
                            /\ Cell(m) \in Filter!Address
                            /\ memory[Cell(m)] = source[LineStart + m]
          <5>1. \A m \in 1 .. colNo + 1 : ~EndsLine(LineStart + m)' <=> ~EndsLine(LineStart + m)
            BY <1>1, <3>2 DEF EndsLine
          <5> QED BY <1>1, <2>1, <3>1, <3>2, <5>1 DEF LineInMemory, base, Filter!Address
        <4>1. CASE m = colNo + 1
          <5>1. LineStart + m = Stored + 1
            BY <2>0, <4>1
          <5> QED BY <2>7, <2>12, <5>1, Zenon
        <4>2. CASE m \in 1 .. colNo
          BY <2>6, <2>7, <4>2
        <4> QED BY <2>0, <4>1, <4>2
      <3>4. (LineStart # 0 => EndsLine(LineStart))'
        BY <1>1, <1>2, <3>2, InputStays, Zenon
      <3>5. WrittenAre(wrote, KeptUpTo(LineStart))'
        BY <1>1, <1>2, <3>1, <3>2, InputStays, Zenon
      <3> QED BY <2>8, <2>9, <2>10, <3>2, <3>3, <3>4, <3>5 DEF FilterInv
    <2> QED BY <2>11, <2>12
  <1> QED BY <1>3, <1>4

LEMMA FilterInvSuffices ==
    ASSUME FilterConstants, FilterInv PROVE Filter!TypeOK /\ Filter!LinesKept
  <1>0. FilterShape /\ Buffered /\ LineInMemory /\ (LineStart # 0 => EndsLine(LineStart))
        /\ lineNo = Cardinality(Ends(Stored)) /\ WrittenAre(wrote, KeptUpTo(LineStart))
    BY DEF FilterInv
  <1>1. /\ fetched \in Nat /\ Len(buffer) \in Nat /\ bufferAt \in 0 .. Len(buffer) /\ Len(source) \in Nat
        /\ fetched <= Len(source) /\ Len(buffer) <= fetched /\ colNo \in Nat /\ colNo <= Stored
        /\ Stored \in Nat /\ LineStart \in Nat /\ Stored = LineStart + colNo /\ Stored <= Len(source)
        /\ Len(source) <= MaxInput /\ MaxInput \in Nat
    BY <1>0 DEF FilterShape, Stored, LineStart, FilterConstants
  <1>2. lineNo \in 0 .. MaxInput /\ colNo \in 0 .. MaxInput
    <2>1. lineNo \in 0 .. Stored
      BY <1>0, <1>1, EndsCount
    <2> QED BY <1>1, <2>1
  <1>3. Filter!TypeOK
    BY <1>0, <1>1, <1>2 DEF Filter!TypeOK, FilterShape
  <1> DEFINE newlines == {k \in DOMAIN source : source[k] = "\n"}
             lineOf(k) == Cardinality({n \in newlines : n < k})
             kept == {k \in DOMAIN source :
                         lineOf(k) # excludedLineIdx /\ \E n \in newlines : k <= n}
  <1>4. ASSUME Filter!Ended, sure
        PROVE  /\ Len(wrote) = Cardinality(kept)
               /\ \A k \in kept : wrote[Cardinality({n \in kept : n <= k})] = source[k]
    <2>1. bufferAt = Len(buffer) /\ fetched = Len(source)
      BY <1>4 DEF Filter!Ended
    <2>2. Stored = Len(source)
      BY <1>1, <2>1 DEF Stored
    <2>3. DOMAIN source = 1 .. Stored
      <3>1. source \in Seq(Glyph)
        BY <1>0 DEF FilterShape
      <3> QED BY <2>2, <3>1
    <2>4. \A n : n \in newlines <=> n \in 1 .. Stored /\ EndsLine(n)
      BY <2>3 DEF EndsLine
    <2> HIDE DEF newlines
    <2>5. ASSUME NEW k \in 1 .. Stored PROVE {n \in newlines : n < k} = Ends(k - 1)
      <3>1. \A n : n \in 1 .. Stored /\ n < k <=> n \in 1 .. k - 1
        BY <1>1
      <3>2. \A n : n \in {m \in newlines : m < k} <=> n \in Ends(k - 1)
        BY <2>4, <3>1 DEF Ends
      <3> QED BY <3>2
    <2>6. \A k \in 1 .. Stored : lineOf(k) = LineOf(k)
      BY <2>5 DEF LineOf
    <2>7. ASSUME NEW k \in 1 .. Stored PROVE (\E n \in newlines : k <= n) <=> k \in 1 .. LineStart
      <3>1. CASE k \in 1 .. LineStart
        <4>1. LineStart # 0 /\ LineStart \in 1 .. Stored /\ k <= LineStart
          BY <1>1, <3>1
        <4>2. LineStart \in newlines
          BY <1>0, <2>4, <4>1
        <4> QED BY <3>1, <4>1, <4>2
      <3>2. CASE k \notin 1 .. LineStart
        <4> SUFFICES ASSUME NEW n \in newlines, k <= n PROVE FALSE
          BY <3>2
        <4>1. n \in 1 .. Stored /\ EndsLine(n)
          BY <2>4
        <4>2. n - LineStart \in 1 .. colNo /\ LineStart + (n - LineStart) = n
          BY <1>1, <3>2, <4>1
        <4>3. ~EndsLine(LineStart + (n - LineStart))
          BY <1>0, <4>2 DEF LineInMemory
        <4> QED BY <4>1, <4>2, <4>3
      <3> QED BY <3>1, <3>2
    <2> HIDE DEF lineOf
    <2>8. kept = KeptUpTo(LineStart)
      <3>1. \A k : k \in 1 .. LineStart => k \in 1 .. Stored
        BY <1>1
      <3>2. \A k : k \in kept <=> /\ k \in 1 .. Stored
                                  /\ lineOf(k) # excludedLineIdx /\ \E n \in newlines : k <= n
        BY <2>3
      <3> HIDE DEF kept
      <3>3. \A k : k \in kept <=> k \in KeptUpTo(LineStart)
        BY <2>6, <2>7, <3>1, <3>2 DEF KeptUpTo
      <3> QED BY <3>3, Zenon DEF kept, KeptUpTo
    <2> HIDE DEF kept
    <2> QED BY <1>0, <2>8 DEF WrittenAre, Rank
  <1>5. Filter!LinesKept
    <2> DEFINE cond == Filter!Ended /\ sure
    <2> HIDE DEF newlines, lineOf, kept
    <2>1. (Filter!Ended /\ sure) =>
            /\ Len(wrote) = Cardinality(kept)
            /\ \A k \in kept : wrote[Cardinality({n \in kept : n <= k})] = source[k]
      BY <1>4
    <2> QED BY <2>1, Zenon DEF Filter!LinesKept, newlines, lineOf, kept, Filter!Cardinality, Cardinality
  <1> QED BY <1>3, <1>5

(* assignments/hw1/exclude.c: every complete line but the excluded one is  *)
(* wrote, in order, wherever the reads cut the source.                    *)
THEOREM LinesAreKept ==
    FilterConstants /\ Filter!Spec => [](Filter!TypeOK /\ Filter!LinesKept)
  <1> SUFFICES ASSUME FilterConstants
               PROVE  Filter!Spec => [](Filter!TypeOK /\ Filter!LinesKept)
    OBVIOUS
  <1>1. Filter!Init => FilterInv
    BY FilterStart
  <1>2. FilterInv /\ [Filter!Next]_Filter!vars => FilterInv'
    <2>1. ASSUME FilterInv, UNCHANGED Filter!vars PROVE FilterInv'
      <3>1. UNCHANGED <<source, excludedLineIdx, fetched, buffer, bufferAt, wholeFile, lineNo, colNo, wrote, sure>>
        BY <2>1 DEF Filter!vars
      <3>2. Stored' = Stored /\ LineStart' = LineStart
        BY <3>1 DEF Stored, LineStart
      <3>3. FilterShape' /\ Buffered' /\ LineInMemory'
        BY <2>1, <3>1, <3>2
        DEF FilterInv, FilterShape, Buffered, LineInMemory, EndsLine, Filter!Address
      <3>4. (LineStart # 0 => EndsLine(LineStart))' /\ (lineNo = Cardinality(Ends(Stored)))'
            /\ WrittenAre(wrote, KeptUpTo(LineStart))'
        <4>1. (LineStart # 0 => EndsLine(LineStart)) /\ lineNo = Cardinality(Ends(Stored))
              /\ WrittenAre(wrote, KeptUpTo(LineStart))
          BY <2>1 DEF FilterInv
        <4> QED BY <3>1, <3>2, <4>1, InputStays, Zenon
      <3> QED BY <3>3, <3>4 DEF FilterInv
    <2> QED BY <2>1, FilterReads, FilterStores DEF Filter!Next
  <1>3. FilterInv => Filter!TypeOK /\ Filter!LinesKept
    BY FilterInvSuffices
  <1> QED BY <1>1, <1>2, <1>3, PTL DEF Filter!Spec

-----------------------------------------------------------------------------
(* The quicksort of an array.                                              *)
ArrayConstants == MaxLength \in Nat /\ Value \subseteq Int

(* t is s with the elements a and b exchanged.                             *)
Exchanged(s, t, a, b) ==
    /\ Len(t) = Len(s) /\ t[a] = s[b] /\ t[b] = s[a]
    /\ \A k \in 1 .. Len(s) : k # a /\ k # b => t[k] = s[k]

LEMMA SwapExchanges ==
    ASSUME NEW S, NEW s \in Seq(S), NEW a \in 1 .. Len(s), NEW b \in 1 .. Len(s)
    PROVE  Arrays!Swap(s, a, b) \in Seq(S) /\ Exchanged(s, Arrays!Swap(s, a, b), a, b)
  <1> DEFINE t == [k \in 1 .. Len(s) |-> IF k = b THEN s[a] ELSE IF k = a THEN s[b] ELSE s[k]]
  <1>0. s \in [1 .. Len(s) -> S] /\ Len(s) \in Nat
    BY SequenceIsFunction
  <1>1. Arrays!Swap(s, a, b) = t
    BY <1>0 DEF Arrays!Swap
  <1>2. t \in [1 .. Len(s) -> S]
    BY <1>0
  <1>3. t[a] = s[b] /\ t[b] = s[a] /\ \A k \in 1 .. Len(s) : k # a /\ k # b => t[k] = s[k]
    OBVIOUS
  <1> HIDE DEF t
  <1>4. t \in Seq(S) /\ Len(t) = Len(s)
    BY <1>0, <1>2, FunctionIsSequence
  <1> QED BY <1>1, <1>3, <1>4 DEF Exchanged

Places(s, v) == {k \in 1 .. Len(s) : s[k] = v}

LEMMA ExchangedHasAll ==
    ASSUME NEW s, NEW t, NEW a \in 1 .. Len(s), NEW b \in 1 .. Len(s), Len(s) \in Nat,
           Exchanged(s, t, a, b), NEW v
    PROVE  Cardinality(Places(s, v)) <= Cardinality(Places(t, v))
  <1> DEFINE f == [k \in Places(s, v) |-> IF k = a THEN b ELSE IF k = b THEN a ELSE k]
  <1>1. \A k \in Places(s, v) : f[k] \in Places(t, v)
    BY DEF Places, Exchanged
  <1>2. f \in Injection(Places(s, v), Places(t, v))
    BY <1>1 DEF Injection, IsInjective
  <1>3. IsFiniteSet(Places(t, v))
    <2>1. Places(t, v) \subseteq 1 .. Len(s)
      BY DEF Places, Exchanged
    <2>2. IsFiniteSet(1 .. Len(s))
      BY FS_Interval
    <2> QED BY <2>1, <2>2, FS_Subset
  <1> HIDE DEF f
  <1> QED BY <1>2, <1>3, FS_Injection

LEMMA ExchangedHasSame ==
    ASSUME NEW s, NEW t, NEW a \in 1 .. Len(s), NEW b \in 1 .. Len(s), Len(s) \in Nat,
           Exchanged(s, t, a, b), NEW v
    PROVE  Cardinality(Places(s, v)) = Cardinality(Places(t, v))
  <1>1. Exchanged(t, s, a, b) /\ Len(t) \in Nat /\ a \in 1 .. Len(t) /\ b \in 1 .. Len(t)
    BY DEF Exchanged
  <1>2. Cardinality(Places(s, v)) <= Cardinality(Places(t, v))
    BY ExchangedHasAll
  <1>3. Cardinality(Places(t, v)) <= Cardinality(Places(s, v))
    BY <1>1, ExchangedHasAll
  <1>4. Cardinality(Places(s, v)) \in Nat /\ Cardinality(Places(t, v)) \in Nat
    <2>1. Places(t, v) \subseteq 1 .. Len(s) /\ Places(s, v) \subseteq 1 .. Len(s)
      BY DEF Places, Exchanged
    <2>2. IsFiniteSet(1 .. Len(s))
      BY FS_Interval
    <2>3. IsFiniteSet(Places(s, v)) /\ IsFiniteSet(Places(t, v))
      BY <2>1, <2>2, FS_Subset
    <2> QED BY <2>3, FS_CardinalityType
  <1> QED BY <1>2, <1>3, <1>4

-----------------------------------------------------------------------------
CallIn(c) == c.base \in Nat \ {0} /\ c.n \in Nat /\ c.base + c.n <= Len(sequence) + 1
In(k, c) == c.base <= k /\ k < c.base + c.n
Apart(c, d) == c.base + c.n <= d.base \/ d.base + d.n <= c.base

ArrayShape ==
    /\ given \in Seq(Value) /\ Len(given) <= MaxLength
    /\ sequence \in Seq(Value) /\ Len(sequence) = Len(given)
    /\ sorts \in Seq([base : Nat, n : Nat])
    /\ \A k \in 1 .. Len(sorts) : CallIn(sorts[k])
    /\ \A k, l \in 1 .. Len(sorts) : k # l => Apart(sorts[k], sorts[l])
    /\ lap \in Nat /\ lows \in Nat /\ (lap = 0 => lows = 0)
(* Values out of order are in the part of one call.                        *)
Unsorted ==
    \A a, b \in 1 .. Len(sequence) :
        a < b => \/ sequence[a] <= sequence[b]
                 \/ \E k \in 1 .. Len(sorts) : In(a, sorts[k]) /\ In(b, sorts[k])
SameValues == \A v : Cardinality(Places(sequence, v)) = Cardinality(Places(given, v))
Partitioned ==
    lap # 0 => LET c == sorts[1]
             IN  /\ Len(sorts) # 0 /\ lows < lap /\ lap <= c.n
                 /\ \A m \in 1 .. lows : sequence[c.base + m] < sequence[c.base]
                 /\ \A m \in lows + 1 .. lap - 1 : sequence[c.base] <= sequence[c.base + m]

ArrayInv == ArrayShape /\ Unsorted /\ SameValues /\ Partitioned

LEMMA ValuesStay ==
    ASSUME SameValues, sequence' = sequence, given' = given PROVE SameValues'
  <1>1. ASSUME NEW v PROVE Cardinality(Places(sequence', v)) = Cardinality(Places(given', v))
    <2>1. Cardinality(Places(sequence, v)) = Cardinality(Places(given, v))
      BY DEF SameValues
    <2> QED BY <2>1, Zenon
  <1> QED BY <1>1, Zenon DEF SameValues

LEMMA UnsortedStays ==
    ASSUME Unsorted, sequence' = sequence, sorts' = sorts PROVE Unsorted'
  BY DEF Unsorted, In

LEMMA ArrayStart == ArrayConstants /\ Arrays!Init => ArrayInv
  <1> SUFFICES ASSUME ArrayConstants, Arrays!Init PROVE ArrayInv
    OBVIOUS
  <1>1. PICK n \in 0 .. MaxLength : given \in [1 .. n -> Value]
    BY DEF Arrays!Init
  <1>2. given \in Seq(Value) /\ Len(given) = n /\ n \in Nat /\ n <= MaxLength
    <2>1. n \in Nat /\ n <= MaxLength
      BY DEF ArrayConstants
    <2> QED BY <1>1, <2>1, FunctionIsSequence
  <1>3. sequence = given /\ sorts = <<[base |-> 1, n |-> Len(given)]>> /\ lap = 0 /\ lows = 0
    BY DEF Arrays!Init
  <1>4. /\ sorts \in Seq([base : Nat, n : Nat]) /\ Len(sorts) = 1
        /\ sorts[1].base = 1 /\ sorts[1].n = Len(given)
    BY <1>2, <1>3
  <1>5. \A k \in 1 .. Len(sorts) : k = 1
    BY <1>4
  <1>6. CallIn(sorts[1])
    BY <1>2, <1>3, <1>4 DEF CallIn
  <1>7. ArrayShape
    BY <1>2, <1>3, <1>4, <1>5, <1>6 DEF ArrayShape
  <1>8. Unsorted
    <2>1. \A a \in 1 .. Len(sequence) : In(a, sorts[1])
      BY <1>2, <1>3, <1>4 DEF In
    <2>2. 1 \in 1 .. Len(sorts)
      BY <1>4
    <2> QED BY <2>1, <2>2, Zenon DEF Unsorted
  <1>9. SameValues /\ Partitioned
    BY <1>3 DEF SameValues, Partitioned
  <1> QED BY <1>7, <1>8, <1>9 DEF ArrayInv

(* What the first call is, while there is one.                             *)
LEMMA FirstCall ==
    ASSUME ArrayInv, sorts # <<>>
    PROVE  /\ Len(sorts) \in Nat \ {0} /\ 1 \in 1 .. Len(sorts) /\ Head(sorts) = sorts[1]
           /\ Arrays!base = sorts[1].base /\ Arrays!n = sorts[1].n
           /\ sorts[1].base \in Nat \ {0} /\ sorts[1].n \in Nat
           /\ sorts[1].base + sorts[1].n <= Len(sequence) + 1 /\ Len(sequence) \in Nat
  <1>1. sorts \in Seq([base : Nat, n : Nat]) /\ sequence \in Seq(Value)
    BY DEF ArrayInv, ArrayShape
  <1>2. Len(sorts) \in Nat \ {0} /\ 1 \in 1 .. Len(sorts) /\ Head(sorts) = sorts[1]
    BY <1>1
  <1>3. CallIn(sorts[1])
    BY <1>2 DEF ArrayInv, ArrayShape
  <1>4. Len(sequence) \in Nat
    BY <1>1
  <1> QED BY <1>2, <1>3, <1>4 DEF CallIn, Arrays!base, Arrays!n

(* An exchange inside the first call's part.                               *)
LEMMA ExchangeInPart ==
    ASSUME ArrayInv, sorts # <<>>, NEW p, NEW q, In(p, sorts[1]), In(q, sorts[1]),
           p \in Int, q \in Int,
           sequence' = Arrays!Swap(sequence, p, q), given' = given, ArrayConstants
    PROVE  /\ sequence' \in Seq(Value) /\ Len(sequence') = Len(sequence)
           /\ sequence'[p] = sequence[q] /\ sequence'[q] = sequence[p]
           /\ \A k \in 1 .. Len(sequence) : k # p /\ k # q => sequence'[k] = sequence[k]
           /\ SameValues'
           /\ \A a, b \in 1 .. Len(sequence) :
                 a < b => \/ sequence'[a] <= sequence'[b]
                          \/ \E k \in 1 .. Len(sorts) : In(a, sorts[k]) /\ In(b, sorts[k])
  <1>0. sequence \in Seq(Value) /\ Len(sequence) \in Nat
    BY FirstCall DEF ArrayInv, ArrayShape
  <1>1. p \in 1 .. Len(sequence) /\ q \in 1 .. Len(sequence)
    BY FirstCall DEF In
  <1>2. sequence' \in Seq(Value) /\ Exchanged(sequence, sequence', p, q)
    BY <1>0, <1>1, SwapExchanges
  <1>3. /\ Len(sequence') = Len(sequence) /\ sequence'[p] = sequence[q] /\ sequence'[q] = sequence[p]
        /\ \A k \in 1 .. Len(sequence) : k # p /\ k # q => sequence'[k] = sequence[k]
    BY <1>2 DEF Exchanged
  <1>4. SameValues'
    <2>1. \A v : Cardinality(Places(sequence', v)) = Cardinality(Places(sequence, v))
      BY <1>0, <1>1, <1>2, ExchangedHasSame
    <2>2. \A v : Cardinality(Places(sequence, v)) = Cardinality(Places(given, v))
      BY DEF ArrayInv, SameValues
    <2>3. \A v : Cardinality(Places(sequence', v)) = Cardinality(Places(given', v))
      BY <2>1, <2>2, Zenon
    <2> QED BY <2>3 DEF SameValues, Places
  <1>5. ASSUME NEW a \in 1 .. Len(sequence), NEW b \in 1 .. Len(sequence), a < b,
               ~\E k \in 1 .. Len(sorts) : In(a, sorts[k]) /\ In(b, sorts[k])
        PROVE  sequence'[a] <= sequence'[b]
    <2>1. 1 \in 1 .. Len(sorts) /\ sorts[1].base \in Nat /\ sorts[1].n \in Nat
      BY FirstCall
    <2>2. ~(In(a, sorts[1]) /\ In(b, sorts[1]))
      BY <1>5, <2>1
    <2>3. \A x, y \in 1 .. Len(sequence) :
             x < y /\ ~(\E k \in 1 .. Len(sorts) : In(x, sorts[k]) /\ In(y, sorts[k]))
                => sequence[x] <= sequence[y]
      BY DEF ArrayInv, Unsorted
    <2>4. ASSUME NEW x \in 1 .. Len(sequence), NEW y \in 1 .. Len(sequence), NEW k \in 1 .. Len(sorts),
                 In(x, sorts[1]), In(x, sorts[k])
          PROVE  k = 1
      <3> SUFFICES ASSUME k # 1 PROVE FALSE
        OBVIOUS
      <3>1. Apart(sorts[k], sorts[1]) /\ CallIn(sorts[k])
        BY <2>1 DEF ArrayInv, ArrayShape
      <3>2. sorts[k].base \in Nat /\ sorts[k].n \in Nat /\ x \in Int
        BY <3>1 DEF CallIn
      <3>3. /\ sorts[1].base <= x /\ x < sorts[1].base + sorts[1].n
            /\ sorts[k].base <= x /\ x < sorts[k].base + sorts[k].n
        BY <2>4 DEF In
      <3>4. \/ sorts[k].base + sorts[k].n <= sorts[1].base
            \/ sorts[1].base + sorts[1].n <= sorts[k].base
        BY <3>1 DEF Apart
      <3>5. \A d, m, c, l \in Nat, z \in Int : d <= z /\ z < d + m /\ c <= z /\ z < c + l =>
                                                ~(c + l <= d) /\ ~(d + m <= c)
        OBVIOUS
      <3> QED BY <2>1, <3>2, <3>3, <3>4, <3>5, Zenon
    <2>5. CASE ~In(a, sorts[1]) /\ ~In(b, sorts[1])
      <3>1. a # p /\ a # q /\ b # p /\ b # q
        BY <2>5
      <3>2. sequence[a] <= sequence[b]
        BY <1>5, <2>3
      <3> QED BY <1>3, <3>1, <3>2
    <2>6. CASE ~In(a, sorts[1]) /\ In(b, sorts[1])
      <3>1. a # p /\ a # q /\ \A x : In(x, sorts[1]) /\ x \in Int => a < x
        BY <1>5, <2>1, <2>6 DEF In
      <3>2. PICK x \in 1 .. Len(sequence) : In(x, sorts[1]) /\ sequence'[b] = sequence[x]
        BY <1>1, <1>3, <2>6
      <3>3. sequence[a] <= sequence[x]
        BY <2>3, <2>4, <2>6, <3>1, <3>2
      <3> QED BY <1>3, <3>1, <3>2, <3>3
    <2>7. CASE In(a, sorts[1]) /\ ~In(b, sorts[1])
      <3>1. b # p /\ b # q /\ \A x : In(x, sorts[1]) /\ x \in Int => x < b
        BY <1>5, <2>1, <2>7 DEF In
      <3>2. PICK x \in 1 .. Len(sequence) : In(x, sorts[1]) /\ sequence'[a] = sequence[x]
        BY <1>1, <1>3, <2>7
      <3>3. sequence[x] <= sequence[b]
        BY <2>3, <2>4, <2>7, <3>1, <3>2
      <3> QED BY <1>3, <3>1, <3>2, <3>3
    <2> QED BY <2>2, <2>5, <2>6, <2>7
  <1> QED BY <1>2, <1>3, <1>4, <1>5

(* The sorts after one is removed, and after two take the place of one.    *)
LEMMA CallsAfter ==
    ASSUME NEW S, NEW s \in Seq(S), Len(s) # 0, NEW c \in S, NEW d \in S,
           NEW t, t = <<c, d>> \o Tail(s)
    PROVE  /\ t \in Seq(S) /\ Len(t) = Len(s) + 1 /\ Len(s) \in Nat
           /\ t[1] = c /\ t[2] = d
           /\ \A k \in 3 .. Len(s) + 1 : t[k] = s[k - 1]
  <1> DEFINE two == <<c, d>>
  <1>1. two \in Seq(S) /\ Len(two) = 2 /\ two[1] = c /\ two[2] = d
    OBVIOUS
  <1>2. /\ Tail(s) \in Seq(S) /\ Len(Tail(s)) = Len(s) - 1 /\ Len(s) \in Nat
        /\ \A k \in 1 .. Len(s) - 1 : Tail(s)[k] = s[k + 1]
    BY TailFacts
  <1> HIDE DEF two
  <1>3. /\ t \in Seq(S) /\ Len(t) = Len(two) + Len(Tail(s))
        /\ \A m \in 1 .. Len(two) : t[m] = two[m]
        /\ \A m \in 1 .. Len(Tail(s)) : t[Len(two) + m] = Tail(s)[m]
    <2>1. t = two \o Tail(s)
      BY DEF two
    <2>2. two \in Seq(S) /\ Tail(s) \in Seq(S)
      BY <1>1, <1>2
    <2> QED BY <2>1, <2>2, ConcatFacts
  <1>4. 1 \in 1 .. Len(two) /\ 2 \in 1 .. Len(two)
    BY <1>1
  <1>5. t[1] = c /\ t[2] = d
    BY <1>1, <1>3, <1>4, Zenon
  <1>6. ASSUME NEW k \in 3 .. Len(s) + 1 PROVE t[k] = s[k - 1]
    <2>1. k - 2 \in 1 .. Len(Tail(s)) /\ Len(two) + (k - 2) = k /\ (k - 2) + 1 = k - 1
          /\ k - 2 \in 1 .. Len(s) - 1
      BY <1>1, <1>2
    <2> QED BY <1>2, <1>3, <2>1
  <1>7. Len(t) = Len(s) + 1
    BY <1>1, <1>2, <1>3
  <1> QED BY <1>2, <1>3, <1>5, <1>6, <1>7

LEMMA TrivialKeepsArrayInv ==
    ASSUME ArrayConstants, ArrayInv, Arrays!Trivial PROVE ArrayInv'
  <1>1. sorts # <<>> /\ lap = 0 /\ Arrays!n <= 1 /\ sorts' = Tail(sorts)
        /\ UNCHANGED <<given, sequence, lap, lows>>
    BY DEF Arrays!Trivial
  <1>2. /\ Len(sorts) \in Nat \ {0} /\ sorts[1].base \in Nat /\ sorts[1].n \in Nat
        /\ sorts[1].n <= 1
    BY <1>1, FirstCall
  <1>3. ArrayShape
    BY DEF ArrayInv
  <1>4. /\ sorts' \in Seq([base : Nat, n : Nat]) /\ Len(sorts') = Len(sorts) - 1
        /\ \A k \in 1 .. Len(sorts) - 1 : sorts'[k] = sorts[k + 1]
    <2>1. sorts \in Seq([base : Nat, n : Nat]) /\ Len(sorts) # 0
      BY <1>2, <1>3 DEF ArrayShape
    <2> QED BY <1>1, <2>1, TailFacts
  <1>5. \A k \in 1 .. Len(sorts') : k + 1 \in 1 .. Len(sorts) /\ sorts'[k] = sorts[k + 1]
    <2>1. 1 .. Len(sorts') = 1 .. Len(sorts) - 1
      BY <1>4
    <2>2. \A k \in 1 .. Len(sorts) - 1 : k + 1 \in 1 .. Len(sorts)
      BY <1>2
    <2>3. \A k \in 1 .. Len(sorts) - 1 : sorts'[k] = sorts[k + 1]
      BY <1>4
    <2> QED BY <2>1, <2>2, <2>3, Zenon
  <1>6. (\A k \in 1 .. Len(sorts) : CallIn(sorts[k]))'
    BY <1>1, <1>3, <1>5 DEF ArrayShape, CallIn
  <1>7. (\A k, l \in 1 .. Len(sorts) : k # l => Apart(sorts[k], sorts[l]))'
    <2> SUFFICES ASSUME NEW k \in 1 .. Len(sorts'), NEW l \in 1 .. Len(sorts'), k # l
                 PROVE  Apart(sorts'[k], sorts'[l])
      BY DEF Apart
    <2>1. k + 1 # l + 1
      OBVIOUS
    <2> QED BY <1>3, <1>5, <2>1 DEF ArrayShape
  <1>8. ArrayShape'
    BY <1>1, <1>3, <1>4, <1>6, <1>7 DEF ArrayShape
  <1>9. Unsorted'
    <2> SUFFICES ASSUME NEW a \in 1 .. Len(sequence), NEW b \in 1 .. Len(sequence), a < b,
                        ~(sequence[a] <= sequence[b])
                 PROVE  \E k \in 1 .. Len(sorts') : In(a, sorts'[k]) /\ In(b, sorts'[k])
      BY <1>1 DEF Unsorted, In
    <2>1. PICK k \in 1 .. Len(sorts) : In(a, sorts[k]) /\ In(b, sorts[k])
      BY DEF ArrayInv, Unsorted
    <2>2. k # 1
      <3> SUFFICES ASSUME k = 1 PROVE FALSE
        OBVIOUS
      <3>1. sorts[1].base <= a /\ b < sorts[1].base + sorts[1].n
        BY <2>1 DEF In
      <3> QED BY <1>2, <3>1
    <2>3. k - 1 \in 1 .. Len(sorts') /\ sorts'[k - 1] = sorts[k]
      <3>1. k - 1 \in 1 .. Len(sorts) - 1 /\ (k - 1) + 1 = k
        BY <1>2, <2>2
      <3> QED BY <1>4, <3>1
    <2> QED BY <2>1, <2>3
  <1>10. SameValues'
    BY <1>1, ValuesStay DEF ArrayInv
  <1>11. Partitioned'
    BY <1>1 DEF Partitioned
  <1> QED BY <1>8, <1>9, <1>10, <1>11 DEF ArrayInv

LEMMA BeginKeepsArrayInv ==
    ASSUME ArrayConstants, ArrayInv, Arrays!Begin PROVE ArrayInv'
  <1>1. sorts # <<>> /\ lap = 0 /\ Arrays!n > 1 /\ lap' = 1 /\ lows' = 0
        /\ UNCHANGED <<given, sequence, sorts>>
    BY DEF Arrays!Begin
  <1>2. Len(sorts) # 0 /\ sorts[1].n \in Nat /\ sorts[1].n > 1
    BY <1>1, FirstCall
  <1>3. ArrayShape'
    BY <1>1 DEF ArrayInv, ArrayShape, CallIn, Apart
  <1>4. Unsorted' /\ SameValues'
    BY <1>1, ValuesStay, UnsortedStays DEF ArrayInv
  <1>5. Partitioned'
    BY <1>1, <1>2 DEF Partitioned
  <1> QED BY <1>3, <1>4, <1>5 DEF ArrayInv

LEMMA LapKeepsArrayInv ==
    ASSUME ArrayConstants, ArrayInv, Arrays!Lap PROVE ArrayInv'
  <1> DEFINE c == sorts[1]
             B == c.base
  <1>1. lap # 0 /\ lap < Arrays!n /\ Arrays!Partition /\ lap' = lap + 1 /\ UNCHANGED <<given, sorts>>
    BY DEF Arrays!Lap
  <1>2. /\ ArrayShape /\ Unsorted /\ SameValues
        /\ Len(sorts) # 0 /\ lows < lap /\ lap <= c.n
        /\ \A m \in 1 .. lows : sequence[B + m] < sequence[B]
        /\ \A m \in lows + 1 .. lap - 1 : sequence[B] <= sequence[B + m]
    BY <1>1 DEF ArrayInv, Partitioned
  <1>3. sorts # <<>>
    BY <1>2 DEF ArrayShape
  <1>4. /\ Arrays!base = B /\ Arrays!n = c.n /\ B \in Nat \ {0} /\ c.n \in Nat
        /\ B + c.n <= Len(sequence) + 1 /\ Len(sequence) \in Nat
    BY <1>3, FirstCall
  <1>5. lap \in Nat /\ lows \in Nat /\ lap < c.n /\ sequence \in Seq(Value) /\ Value \subseteq Int
    BY <1>1, <1>2, <1>4 DEF ArrayShape, ArrayConstants
  <1>6. lap' \in Nat /\ lap' <= c.n /\ lap' - 1 = lap /\ lap' # 0
    BY <1>1, <1>4, <1>5
  <1> HIDE DEF c, B
  <1>7. CASE ~(sequence[B + lap] < sequence[B])
    <2>1. sequence' = sequence /\ lows' = lows
      BY <1>1, <1>4, <1>7 DEF Arrays!Partition
    <2>2. sequence[B] <= sequence[B + lap]
      <3>1. B \in 1 .. Len(sequence) /\ B + lap \in 1 .. Len(sequence)
        BY <1>4, <1>5
      <3>2. sequence[B] \in Int /\ sequence[B + lap] \in Int
        <4>1. sequence \in [1 .. Len(sequence) -> Value]
          BY <1>5, SequenceIsFunction
        <4>2. sequence[B] \in Value /\ sequence[B + lap] \in Value
          BY <3>1, <4>1
        <4> QED BY <1>5, <4>2
      <3> QED BY <1>7, <3>2
    <2>3. \A m \in lows + 1 .. lap : sequence[B] <= sequence[B + m]
      <3> TAKE m \in lows + 1 .. lap
      <3>1. m = lap \/ m \in lows + 1 .. lap - 1
        BY <1>5
      <3> QED BY <1>2, <2>2, <3>1
    <2>4. lows < lap'
      BY <1>1, <1>2, <1>5
    <2>5. Partitioned'
      BY <1>1, <1>2, <1>6, <2>1, <2>3, <2>4 DEF Partitioned, c, B
    <2>6. ArrayShape'
      BY <1>1, <1>2, <1>6, <2>1 DEF ArrayShape, CallIn, Apart
    <2>7. Unsorted' /\ SameValues'
      BY <1>1, <1>2, <2>1, ValuesStay, UnsortedStays
    <2> QED BY <2>5, <2>6, <2>7 DEF ArrayInv
  <1>8. CASE sequence[B + lap] < sequence[B]
    <2> DEFINE p == B + lows + 1
               q == B + lap
    <2>1. sequence' = Arrays!Swap(sequence, p, q) /\ lows' = lows + 1 /\ given' = given
      BY <1>1, <1>4, <1>8 DEF Arrays!Partition
    <2>2. B <= p /\ p < B + c.n /\ B <= q /\ q < B + c.n /\ p \in Int /\ q \in Int
      BY <1>2, <1>4, <1>5
    <2>3. In(p, sorts[1]) /\ In(q, sorts[1])
      BY <2>2 DEF In, c, B
    <2> HIDE DEF p, q
    <2>4. /\ sequence' \in Seq(Value) /\ Len(sequence') = Len(sequence)
          /\ sequence'[p] = sequence[q] /\ sequence'[q] = sequence[p]
          /\ \A k \in 1 .. Len(sequence) : k # p /\ k # q => sequence'[k] = sequence[k]
          /\ SameValues'
          /\ \A a, b \in 1 .. Len(sequence) :
                a < b => \/ sequence'[a] <= sequence'[b]
                         \/ \E k \in 1 .. Len(sorts) : In(a, sorts[k]) /\ In(b, sorts[k])
      BY <1>3, <2>1, <2>2, <2>3, ExchangeInPart
    <2>5. sequence'[B] = sequence[B]
      <3>1. B \in 1 .. Len(sequence) /\ B # p /\ B # q
        BY <1>1, <1>2, <1>4, <1>5, <2>2 DEF p, q
      <3> QED BY <2>4, <3>1
    <2>6. ASSUME NEW m \in 1 .. lows + 1 PROVE sequence'[B + m] < sequence'[B]
      <3>1. CASE m = lows + 1
        <4>1. B + m = p
          BY <1>4, <1>5, <3>1 DEF p
        <4> QED BY <1>8, <2>4, <2>5, <4>1 DEF q
      <3>2. CASE m \in 1 .. lows
        <4>1. B + m \in 1 .. Len(sequence) /\ B + m # p /\ B + m # q
          BY <1>2, <1>4, <1>5, <3>2 DEF p, q
        <4> QED BY <1>2, <2>4, <2>5, <3>2, <4>1
      <3> QED BY <1>5, <3>1, <3>2
    <2>7. ASSUME NEW m \in lows + 2 .. lap PROVE sequence'[B] <= sequence'[B + m]
      <3>1. CASE m = lap
        <4>1. B + m = q /\ lows + 1 \in lows + 1 .. lap - 1 /\ B + (lows + 1) = p
          BY <1>4, <1>5, <3>1 DEF p, q
        <4>2. sequence[B] <= sequence[B + (lows + 1)]
          BY <1>2, <4>1
        <4> QED BY <2>4, <2>5, <4>1, <4>2
      <3>2. CASE m \in lows + 1 .. lap - 1
        <4>1. B + m \in 1 .. Len(sequence) /\ B + m # p /\ B + m # q
          BY <1>2, <1>4, <1>5, <3>2 DEF p, q
        <4> QED BY <1>2, <2>4, <2>5, <3>2, <4>1
      <3> QED BY <1>5, <3>1, <3>2
    <2>8. Partitioned'
      <3>1. Len(sorts') # 0 /\ lows' < lap' /\ lap' <= c.n /\ lows' = lows + 1 /\ lap' - 1 = lap
            /\ lows' + 1 = lows + 2
        BY <1>1, <1>2, <1>5, <1>6, <2>1
      <3>2. c' = c /\ B' = B
        BY <1>1 DEF c, B
      <3>3. \A m \in 1 .. lows' : sequence'[B + m] < sequence'[B]
        BY <2>6, <3>1
      <3>4. \A m \in lows' + 1 .. lap' - 1 : sequence'[B] <= sequence'[B + m]
        BY <2>7, <3>1
      <3> QED BY <3>1, <3>2, <3>3, <3>4 DEF Partitioned, c, B
    <2>9. ArrayShape'
      <3>1. lows' \in Nat
        BY <1>5, <2>1
      <3> QED BY <1>1, <1>2, <1>6, <2>4, <3>1 DEF ArrayShape, CallIn, Apart
    <2>10. Unsorted'
      BY <1>1, <2>4 DEF Unsorted, In
    <2> QED BY <2>4, <2>8, <2>9, <2>10 DEF ArrayInv
  <1> QED BY <1>7, <1>8

LEMMA SplitKeepsArrayInv ==
    ASSUME ArrayConstants, ArrayInv, Arrays!Split PROVE ArrayInv'
  <1> DEFINE c == sorts[1]
             B == c.base
             L == lows
             left == [base |-> B, n |-> L]
             right == [base |-> B + L + 1, n |-> c.n - L - 1]
  <1>1. /\ lap # 0 /\ lap = Arrays!n
        /\ sequence' = Arrays!Swap(sequence, Arrays!base, Arrays!base + lows)
        /\ sorts' = <<[base |-> Arrays!base, n |-> lows],
                      [base |-> Arrays!base + lows + 1, n |-> Arrays!n - lows - 1]>> \o Tail(sorts)
        /\ lap' = 0 /\ lows' = 0 /\ given' = given
    BY DEF Arrays!Split
  <1>2. /\ ArrayShape /\ Unsorted /\ SameValues
        /\ Len(sorts) # 0 /\ lows < lap
        /\ \A m \in 1 .. lows : sequence[B + m] < sequence[B]
        /\ \A m \in lows + 1 .. lap - 1 : sequence[B] <= sequence[B + m]
    BY <1>1 DEF ArrayInv, Partitioned
  <1>3. sorts # <<>> /\ Len(sorts) \in Nat
    BY <1>2 DEF ArrayShape
  <1>4. /\ Arrays!base = B /\ Arrays!n = c.n /\ B \in Nat \ {0} /\ c.n \in Nat
        /\ B + c.n <= Len(sequence) + 1 /\ Len(sequence) \in Nat
    BY <1>3, FirstCall
  <1>5. L \in Nat /\ lap = c.n /\ L < c.n
    BY <1>1, <1>2, <1>4 DEF ArrayShape
  <1> DEFINE p == B
             q == B + L
  <1>6. sequence' = Arrays!Swap(sequence, p, q) /\ sorts' = <<left, right>> \o Tail(sorts)
    BY <1>1, <1>4
  <1>7. B <= p /\ p < B + c.n /\ B <= q /\ q < B + c.n /\ p \in Int /\ q \in Int
    BY <1>4, <1>5
  <1>8. In(p, sorts[1]) /\ In(q, sorts[1])
    BY <1>7 DEF In
  <1> HIDE DEF p, q
  <1>9. /\ sequence' \in Seq(Value) /\ Len(sequence') = Len(sequence)
        /\ sequence'[p] = sequence[q] /\ sequence'[q] = sequence[p]
        /\ \A k \in 1 .. Len(sequence) : k # p /\ k # q => sequence'[k] = sequence[k]
        /\ SameValues'
        /\ \A a, b \in 1 .. Len(sequence) :
              a < b => \/ sequence'[a] <= sequence'[b]
                       \/ \E k \in 1 .. Len(sorts) : In(a, sorts[k]) /\ In(b, sorts[k])
    BY <1>1, <1>3, <1>6, <1>7, <1>8, ExchangeInPart
  <1>10. /\ left \in [base : Nat, n : Nat] /\ right \in [base : Nat, n : Nat]
         /\ left.base = B /\ left.n = L /\ right.base = B + L + 1 /\ right.n = c.n - L - 1
    BY <1>4, <1>5
  <1> HIDE DEF left, right
  <1>11. /\ sorts' \in Seq([base : Nat, n : Nat]) /\ Len(sorts') = Len(sorts) + 1
         /\ sorts'[1] = left /\ sorts'[2] = right
         /\ \A k \in 3 .. Len(sorts) + 1 : sorts'[k] = sorts[k - 1]
    <2>1. sorts \in Seq([base : Nat, n : Nat])
      BY <1>2 DEF ArrayShape
    <2>2. left \in [base : Nat, n : Nat] /\ right \in [base : Nat, n : Nat]
      BY <1>10
    <2> QED BY <1>2, <1>6, <2>1, <2>2, CallsAfter
  <1>12. \A k \in 1 .. Len(sorts') : k = 1 \/ k = 2 \/ k \in 3 .. Len(sorts) + 1
    BY <1>3, <1>11
  <1>13. \A k \in 3 .. Len(sorts) + 1 : k - 1 \in 1 .. Len(sorts) /\ k - 1 # 1
    BY <1>3
  <1>14. \A k \in 1 .. Len(sorts) : k # 1 => Apart(sorts[k], c) /\ Apart(c, sorts[k]) /\ CallIn(sorts[k])
    <2>1. 1 \in 1 .. Len(sorts)
      BY <1>2, <1>3
    <2> QED BY <1>2, <2>1 DEF ArrayShape
  <1> HIDE DEF c
  <1>15. ASSUME NEW d, CallIn(d), Apart(d, c)
         PROVE  Apart(d, left) /\ Apart(d, right) /\ Apart(left, d) /\ Apart(right, d)
    <2>1. d.base \in Nat /\ d.n \in Nat
      BY <1>15 DEF CallIn
    <2>2. d.base + d.n <= B \/ B + c.n <= d.base
      BY <1>15 DEF Apart
    <2> HIDE DEF B
    <2>3. d.base + d.n <= B \/ B + L <= d.base
      BY <1>4, <1>5, <2>1, <2>2
    <2>4. d.base + d.n <= B + L + 1 \/ (B + L + 1) + (c.n - L - 1) <= d.base
      BY <1>4, <1>5, <2>1, <2>2
    <2> QED BY <1>10, <2>3, <2>4 DEF Apart
  <1>16. Apart(left, right) /\ Apart(right, left)
    BY <1>4, <1>5, <1>10 DEF Apart
  <1>17. (\A k \in 1 .. Len(sorts) : CallIn(sorts[k]))'
    <2> SUFFICES ASSUME NEW k \in 1 .. Len(sorts')
                 PROVE  /\ sorts'[k].base \in Nat \ {0} /\ sorts'[k].n \in Nat
                        /\ sorts'[k].base + sorts'[k].n <= Len(sequence') + 1
      BY DEF CallIn
    <2>1. CASE k = 1
      <3>1. sorts'[k].base = B /\ sorts'[k].n = L
        BY <1>10, <1>11, <2>1, Zenon
      <3>2. B \in Nat \ {0} /\ L \in Nat /\ B + L <= Len(sequence) + 1
        <4> HIDE DEF B, L
        <4> QED BY <1>4, <1>5
      <3> QED BY <1>9, <3>1, <3>2, Zenon
    <2>2. CASE k = 2
      <3>1. sorts'[k].base = B + L + 1 /\ sorts'[k].n = c.n - L - 1
        BY <1>10, <1>11, <2>2
      <3>2. B + L + 1 \in Nat \ {0} /\ c.n - L - 1 \in Nat
            /\ (B + L + 1) + (c.n - L - 1) <= Len(sequence) + 1
        BY <1>4, <1>5
      <3> QED BY <1>9, <3>1, <3>2, Zenon
    <2>3. CASE k \in 3 .. Len(sorts) + 1
      BY <1>9, <1>11, <1>13, <1>14, <2>3 DEF CallIn
    <2> QED BY <1>12, <2>1, <2>2, <2>3
  <1>18. (\A k, l \in 1 .. Len(sorts) : k # l => Apart(sorts[k], sorts[l]))'
    <2> SUFFICES ASSUME NEW k \in 1 .. Len(sorts'), NEW l \in 1 .. Len(sorts'), k # l
                 PROVE  Apart(sorts'[k], sorts'[l])
      BY DEF Apart
    <2>1. \A m \in 3 .. Len(sorts) + 1 : CallIn(sorts'[m]) /\ Apart(sorts'[m], c)
      BY <1>11, <1>13, <1>14
    <2>2. CASE k \in 3 .. Len(sorts) + 1 /\ l \in 3 .. Len(sorts) + 1
      <3>1. k - 1 # l - 1
        BY <2>2
      <3>2. Apart(sorts[k - 1], sorts[l - 1])
        BY <1>2, <1>13, <2>2, <3>1 DEF ArrayShape
      <3> QED BY <1>11, <2>2, <3>2
    <2>3. CASE k \in 3 .. Len(sorts) + 1 /\ l \in {1, 2}
      BY <1>11, <1>15, <2>1, <2>3
    <2>4. CASE k \in {1, 2} /\ l \in 3 .. Len(sorts) + 1
      BY <1>11, <1>15, <2>1, <2>4
    <2>5. CASE k \in {1, 2} /\ l \in {1, 2}
      BY <1>11, <1>16, <2>5
    <2> QED BY <1>12, <2>2, <2>3, <2>4, <2>5
  <1>19. ArrayShape'
    BY <1>1, <1>2, <1>9, <1>11, <1>17, <1>18 DEF ArrayShape
  <1>20. ASSUME NEW a \in 1 .. Len(sequence), NEW b \in 1 .. Len(sequence), a < b, In(a, c), In(b, c),
                ~(In(a, left) /\ In(b, left)), ~(In(a, right) /\ In(b, right))
         PROVE  sequence'[a] <= sequence'[b]
    <2>0. B <= a /\ a < B + c.n /\ B <= b /\ b < B + c.n
      BY <1>20 DEF In
    <2> HIDE DEF B
    <2>1. \A k \in 1 .. Len(sequence) : sequence[k] \in Int
      <3>1. sequence \in [1 .. Len(sequence) -> Value] /\ Value \subseteq Int
        BY <1>2, SequenceIsFunction DEF ArrayShape, ArrayConstants
      <3> QED BY <3>1
    <2>2. sequence'[q] = sequence[B] /\ sequence'[B] = sequence[q] /\ B \in 1 .. Len(sequence) /\ q \in 1 .. Len(sequence)
      BY <1>4, <1>5, <1>9 DEF p, q
    <2>3. ASSUME NEW k \in Int, B <= k, k < q PROVE k \in 1 .. Len(sequence) /\ sequence'[k] < sequence[B]
      <3>1. k \in 1 .. Len(sequence) /\ k # q /\ L \in 1 .. lows /\ q = B + L
        BY <1>4, <1>5, <2>3 DEF q
      <3>2. CASE k = B
        BY <1>2, <2>2, <3>1, <3>2
      <3>3. CASE k # B
        <4>1. k - B \in 1 .. lows /\ B + (k - B) = k
          BY <1>4, <1>5, <2>3, <3>3 DEF q
        <4>2. sequence'[k] = sequence[k]
          BY <1>9, <3>1, <3>3 DEF p
        <4> QED BY <1>2, <3>1, <4>1, <4>2
      <3> QED BY <3>2, <3>3
    <2>4. ASSUME NEW k \in Int, q < k, k < B + c.n PROVE k \in 1 .. Len(sequence) /\ sequence[B] <= sequence'[k]
      <3>1. k \in 1 .. Len(sequence) /\ k # q /\ k # B
        BY <1>4, <1>5, <2>4 DEF q
      <3>2. k - B \in lows + 1 .. lap - 1 /\ B + (k - B) = k
        BY <1>4, <1>5, <2>4 DEF q
      <3>3. sequence'[k] = sequence[k]
        BY <1>9, <3>1 DEF p
      <3> QED BY <1>2, <3>1, <3>2, <3>3
    <2>5. a <= q /\ q <= b
      <3>1. ~(a < B + L /\ b < B + L)
        BY <1>10, <1>20, <2>0 DEF In
      <3>2. ~(B + L + 1 <= a /\ B + L + 1 <= b)
        <4>1. B + L + 1 + (c.n - L - 1) = B + c.n
          BY <1>4, <1>5
        <4> QED BY <1>10, <1>20, <2>0, <4>1 DEF In
      <3> QED BY <1>4, <1>5, <1>20, <3>1, <3>2 DEF q
    <2>6. \A k \in 1 .. Len(sequence) : sequence'[k] \in Int
      <3>1. sequence' \in [1 .. Len(sequence) -> Value] /\ Value \subseteq Int
        BY <1>9, SequenceIsFunction DEF ArrayConstants
      <3> QED BY <3>1
    <2>7. a = q \/ sequence'[a] < sequence[B]
      BY <1>7, <2>0, <2>3, <2>5
    <2>8. b = q \/ sequence[B] <= sequence'[b]
      BY <1>7, <2>0, <2>4, <2>5
    <2>9. sequence'[a] \in Int /\ sequence'[b] \in Int /\ sequence[B] \in Int
      BY <2>1, <2>2, <2>6
    <2> QED BY <1>20, <2>2, <2>7, <2>8, <2>9
  <1>21. Unsorted'
    <2> SUFFICES ASSUME NEW a \in 1 .. Len(sequence), NEW b \in 1 .. Len(sequence), a < b,
                        ~(sequence'[a] <= sequence'[b])
                 PROVE  \E k \in 1 .. Len(sorts') : In(a, sorts'[k]) /\ In(b, sorts'[k])
      BY <1>9 DEF Unsorted, In
    <2>1. PICK k \in 1 .. Len(sorts) : In(a, sorts[k]) /\ In(b, sorts[k])
      BY <1>9
    <2>2. CASE k = 1
      <3>1. (In(a, left) /\ In(b, left)) \/ (In(a, right) /\ In(b, right))
        BY <1>20, <2>1, <2>2 DEF c
      <3>2. 1 \in 1 .. Len(sorts') /\ 2 \in 1 .. Len(sorts')
        BY <1>2, <1>3, <1>11
      <3> QED BY <1>11, <3>1, <3>2
    <2>3. CASE k # 1
      <3>1. k + 1 \in 1 .. Len(sorts') /\ k + 1 \in 3 .. Len(sorts) + 1 /\ (k + 1) - 1 = k
        BY <1>3, <1>11, <2>3
      <3>2. sorts'[k + 1] = sorts[k]
        BY <1>11, <3>1
      <3> QED BY <2>1, <3>1, <3>2
    <2> QED BY <2>2, <2>3
  <1>22. Partitioned'
    BY <1>1 DEF Partitioned
  <1> QED BY <1>9, <1>19, <1>21, <1>22 DEF ArrayInv

LEMMA ArrayInvSuffices ==
    ASSUME ArrayConstants, ArrayInv PROVE Arrays!TypeOK /\ Arrays!ArrayIsSorted
  <1>1. /\ ArrayShape /\ Unsorted /\ SameValues /\ Partitioned
        /\ sequence \in Seq(Value) /\ given \in Seq(Value) /\ Len(sequence) = Len(given) /\ Len(sequence) \in Nat
        /\ sorts \in Seq([base : Nat, n : Nat])
    BY DEF ArrayInv, ArrayShape
  <1>2. sequence \in [DOMAIN given -> Value]
    <2>1. sequence \in [1 .. Len(sequence) -> Value]
      BY <1>1, SequenceIsFunction
    <2>2. DOMAIN given = 1 .. Len(given)
      BY <1>1
    <2> QED BY <1>1, <2>1, <2>2, Zenon
  <1>3. \A k \in DOMAIN sorts : sorts[k].base \in 1 .. Len(sequence) + 1
                                /\ sorts[k].n \in 0 .. Len(sequence) + 1 - sorts[k].base
    <2> TAKE k \in DOMAIN sorts
    <2>1. k \in 1 .. Len(sorts)
      BY <1>1
    <2>2. CallIn(sorts[k])
      BY <1>1, <2>1 DEF ArrayShape
    <2>3. sorts[k].base \in Nat /\ sorts[k].base # 0 /\ sorts[k].n \in Nat
          /\ sorts[k].base + sorts[k].n <= Len(sequence) + 1
      BY <2>2 DEF CallIn
    <2>4. \A b, m, l \in Nat : b # 0 /\ b + m <= l + 1 => b \in 1 .. l + 1 /\ m \in 0 .. l + 1 - b
      OBVIOUS
    <2> QED BY <1>1, <2>3, <2>4, Zenon
  <1>4. lap \in 0 .. Len(sequence) /\ lows \in 0 .. Len(sequence)
    <2>1. lap \in Nat /\ lows \in Nat
      BY <1>1 DEF ArrayShape
    <2>2. CASE lap # 0
      <3>1. Len(sorts) # 0 /\ lows < lap /\ lap <= sorts[1].n
        BY <1>1, <2>2 DEF Partitioned
      <3>2. sorts # <<>>
        BY <3>1
      <3>3. sorts[1].n \in Nat /\ sorts[1].base \in Nat \ {0}
            /\ sorts[1].base + sorts[1].n <= Len(sequence) + 1
        BY <3>2, FirstCall
      <3> QED BY <1>1, <2>1, <3>1, <3>3
    <2>3. CASE lap = 0
      BY <1>1, <2>1, <2>3 DEF ArrayShape
    <2> QED BY <2>2, <2>3
  <1>5. Arrays!TypeOK
    BY <1>2, <1>3, <1>4 DEF Arrays!TypeOK
  <1>6. ASSUME sorts = <<>>
        PROVE  /\ \A k \in 2 .. Len(sequence) : sequence[k - 1] <= sequence[k]
               /\ \A v \in Value : Cardinality({k \in DOMAIN sequence : sequence[k] = v})
                                      = Cardinality({k \in DOMAIN given : given[k] = v})
    <2>1. Len(sorts) = 0
      BY <1>6
    <2>2. \A k \in 1 .. Len(sorts) : FALSE
      BY <2>1
    <2>3. \A a, b \in 1 .. Len(sequence) : a < b => sequence[a] <= sequence[b]
      BY <1>1, <2>2, Zenon DEF Unsorted
    <2>4. \A k \in 2 .. Len(sequence) : k - 1 \in 1 .. Len(sequence) /\ k \in 1 .. Len(sequence) /\ k - 1 < k
      BY <1>1
    <2>5. \A k \in 2 .. Len(sequence) : sequence[k - 1] <= sequence[k]
      BY <2>3, <2>4, Zenon
    <2>6. DOMAIN sequence = 1 .. Len(sequence) /\ DOMAIN given = 1 .. Len(given)
      BY <1>1
    <2>7. \A v : Cardinality(Places(sequence, v)) = Cardinality(Places(given, v))
      BY <1>1 DEF SameValues
    <2> QED BY <2>5, <2>6, <2>7, Zenon DEF Places
  <1>7. Arrays!ArrayIsSorted
    BY <1>6, Zenon DEF Arrays!ArrayIsSorted, Arrays!Ended, Arrays!Cardinality, Cardinality
  <1> QED BY <1>5, <1>7

(* exercises/ex15/array.c: at the end the array is sorted and holds each   *)
(* value as often as at the start.                                         *)
THEOREM ArrayIsAlwaysSorted ==
    ArrayConstants /\ Arrays!Spec => [](Arrays!TypeOK /\ Arrays!ArrayIsSorted)
  <1> SUFFICES ASSUME ArrayConstants
               PROVE  Arrays!Spec => [](Arrays!TypeOK /\ Arrays!ArrayIsSorted)
    OBVIOUS
  <1>1. Arrays!Init => ArrayInv
    BY ArrayStart
  <1>2. ArrayInv /\ [Arrays!Next]_Arrays!vars => ArrayInv'
    <2>1. ASSUME ArrayInv, UNCHANGED Arrays!vars PROVE ArrayInv'
      <3>1. UNCHANGED <<given, sequence, sorts, lap, lows>>
        BY <2>1 DEF Arrays!vars
      <3>2. ArrayShape'
        BY <2>1, <3>1 DEF ArrayInv, ArrayShape, CallIn, Apart
      <3>3. Unsorted'
        BY <2>1, <3>1 DEF ArrayInv, Unsorted, In
      <3>4. SameValues'
        BY <2>1, <3>1, ValuesStay DEF ArrayInv
      <3>5. Partitioned'
        BY <2>1, <3>1 DEF ArrayInv, Partitioned
      <3> QED BY <3>2, <3>3, <3>4, <3>5 DEF ArrayInv
    <2> QED BY <2>1, TrivialKeepsArrayInv, BeginKeepsArrayInv, LapKeepsArrayInv, SplitKeepsArrayInv
        DEF Arrays!Next
  <1>3. ArrayInv => Arrays!TypeOK /\ Arrays!ArrayIsSorted
    BY ArrayInvSuffices
  <1> QED BY <1>1, <1>2, <1>3, PTL DEF Arrays!Spec

-----------------------------------------------------------------------------
(* The quicksort of a linked list.  nx links the nodes of S, in an order,  *)
(* from the head of l to its tail.                                         *)
Links(nx, l, S, order) ==
    /\ S = {} => l.head = NULL /\ l.tail = NULL
    /\ S # {} =>
          /\ l.head \in S /\ l.tail \in S /\ nx[l.tail] = NULL
          /\ \A m \in S : m = l.head \/ <<l.head, m>> \in order
          /\ \A m \in S : \/ m = l.tail
                          \/ /\ <<m, l.tail>> \in order
                             /\ nx[m] \in S /\ <<m, nx[m]>> \in order
                             /\ \A x \in S : <<m, x>> \in order =>
                                                x = nx[m] \/ <<nx[m], x>> \in order

Orders(order, S) ==
    /\ \A m \in S : <<m, m>> \notin order
    /\ \A m, x \in S : m = x \/ <<m, x>> \in order \/ <<x, m>> \in order
    /\ \A m, x, y \in S : <<m, x>> \in order /\ <<x, y>> \in order => <<m, y>> \in order

LEMMA LinksStay ==
    ASSUME NEW nx, NEW ny, NEW l, NEW S, NEW order, Links(nx, l, S, order),
           \A m \in S : ny[m] = nx[m]
    PROVE  Links(ny, l, S, order)
  BY DEF Links

LEMMA EmptyLinks ==
    ASSUME NEW nx, NEW l, NEW order, l.head = NULL, l.tail = NULL
    PROVE  Links(nx, l, {}, order)
  BY DEF Links

LEMMA OneLinks ==
    ASSUME NEW nx, NEW l, NEW order, NEW c, l.head = c, l.tail = c, nx[c] = NULL
    PROVE  Links(nx, l, {c}, order)
  BY DEF Links

(* A node joins a list at its tail.                                        *)
LEMMA NodeAppended ==
    ASSUME NEW N, NULL \notin N, NEW nx, NEW ny, NEW l, NEW S \in SUBSET N, NEW order,
           NEW c \in N, c \notin S, Links(nx, l, S, order), \A m \in S : <<m, c>> \in order,
           Orders(order, N),
           NEW k, k.tail = c, k.head = IF l.tail = NULL THEN c ELSE l.head,
           ny[c] = NULL, \A m \in S : ny[m] = IF m = l.tail THEN c ELSE nx[m]
    PROVE  Links(ny, k, S \cup {c}, order)
  <1>1. CASE S = {}
    <2>1. k.head = c /\ k.tail = c
      BY <1>1 DEF Links
    <2>2. S \cup {c} = {c}
      BY <1>1
    <2>3. Links(ny, k, {c}, order)
      BY <2>1, OneLinks
    <2> QED BY <2>2, <2>3, Zenon
  <1>2. CASE S # {}
    <2>1. /\ l.head \in S /\ l.tail \in S /\ nx[l.tail] = NULL
          /\ \A m \in S : m = l.head \/ <<l.head, m>> \in order
          /\ \A m \in S : \/ m = l.tail
                          \/ /\ <<m, l.tail>> \in order
                             /\ nx[m] \in S /\ <<m, nx[m]>> \in order
                             /\ \A x \in S : <<m, x>> \in order =>
                                                x = nx[m] \/ <<nx[m], x>> \in order
      BY <1>2 DEF Links
    <2>2. k.head = l.head /\ k.head \in S /\ k.tail = c
      BY <2>1
    <2>3. \A m \in S \cup {c} : m = k.head \/ <<k.head, m>> \in order
      BY <2>1, <2>2
    <2>4. ASSUME NEW m \in S \cup {c}, m # c
          PROVE  /\ <<m, c>> \in order
                 /\ ny[m] \in S \cup {c} /\ <<m, ny[m]>> \in order
                 /\ \A x \in S \cup {c} : <<m, x>> \in order =>
                                             x = ny[m] \/ <<ny[m], x>> \in order
      <3>0. m \in S
        BY <2>4
      <3>1. CASE m = l.tail
        <4>1. ny[m] = c /\ <<m, c>> \in order
          BY <3>0, <3>1
        <4>2. ASSUME NEW x \in S, <<m, x>> \in order PROVE FALSE
          <5>1. x = m \/ <<x, m>> \in order
            BY <2>1, <3>1
          <5>2. <<m, m>> \in order
            BY <3>0, <4>2, <5>1 DEF Orders
          <5> QED BY <3>0, <5>2 DEF Orders
        <4> QED BY <4>1, <4>2
      <3>2. CASE m # l.tail
        <4>1. ny[m] = nx[m] /\ nx[m] \in S /\ <<m, nx[m]>> \in order
          BY <2>1, <3>0, <3>2
        <4>2. \A x \in S \cup {c} : <<m, x>> \in order => x = ny[m] \/ <<ny[m], x>> \in order
          BY <2>1, <3>0, <3>2, <4>1
        <4> QED BY <3>0, <4>1, <4>2
      <3> QED BY <3>1, <3>2
    <2> QED BY <2>2, <2>3, <2>4 DEF Links
  <1> QED BY <1>1, <1>2

(* What follows the head of a list.                                        *)
LEMMA RestLinks ==
    ASSUME NEW N, NULL \notin N, NEW nx, NEW l, NEW S \in SUBSET N, NEW order,
           Links(nx, l, S, order), l.head # NULL, Orders(order, N),
           NEW k, k.head = nx[l.head], k.tail = IF nx[l.head] = NULL THEN NULL ELSE l.tail
    PROVE  Links(nx, k, S \ {l.head}, order)
  <1>1. S # {}
    BY DEF Links
  <1>2. /\ l.head \in S /\ l.tail \in S /\ nx[l.tail] = NULL
        /\ \A m \in S : m = l.head \/ <<l.head, m>> \in order
        /\ \A m \in S : \/ m = l.tail
                        \/ /\ <<m, l.tail>> \in order
                           /\ nx[m] \in S /\ <<m, nx[m]>> \in order
                           /\ \A x \in S : <<m, x>> \in order =>
                                              x = nx[m] \/ <<nx[m], x>> \in order
    BY <1>1 DEF Links
  <1>3. CASE l.head = l.tail
    <2>1. \A m \in S : m = l.head
      BY <1>2, <1>3 DEF Orders
    <2>2. S \ {l.head} = {}
      BY <2>1
    <2>3. k.head = NULL /\ k.tail = NULL
      BY <1>2, <1>3
    <2> QED BY <2>2, <2>3, EmptyLinks
  <1>4. CASE l.head # l.tail
    <2>1. nx[l.head] \in S /\ <<l.head, nx[l.head]>> \in order /\ nx[l.head] # l.head
      BY <1>2, <1>4 DEF Orders
    <2>2. k.head = nx[l.head] /\ k.tail = l.tail /\ k.head \in S \ {l.head} /\ k.tail \in S \ {l.head}
      BY <1>2, <1>4, <2>1
    <2>3. \A m \in S \ {l.head} : m = k.head \/ <<k.head, m>> \in order
      BY <1>2, <1>4, <2>2
    <2>4. ASSUME NEW m \in S \ {l.head}, m # k.tail
          PROVE  /\ <<m, k.tail>> \in order
                 /\ nx[m] \in S \ {l.head} /\ <<m, nx[m]>> \in order
                 /\ \A x \in S \ {l.head} : <<m, x>> \in order => x = nx[m] \/ <<nx[m], x>> \in order
      <3>1. <<m, l.tail>> \in order /\ nx[m] \in S /\ <<m, nx[m]>> \in order
            /\ \A x \in S : <<m, x>> \in order => x = nx[m] \/ <<nx[m], x>> \in order
        BY <1>2, <2>2, <2>4
      <3>2. nx[m] # l.head
        <4> SUFFICES ASSUME nx[m] = l.head PROVE FALSE
          OBVIOUS
        <4>1. <<l.head, m>> \in order /\ <<m, l.head>> \in order
          BY <1>2, <3>1
        <4> QED BY <1>2, <4>1 DEF Orders
      <3> QED BY <2>2, <3>1, <3>2
    <2> QED BY <1>2, <2>2, <2>3, <2>4 DEF Links
  <1> QED BY <1>3, <1>4

(* A list, a node and a list in one.                                       *)
LEMMA ListsJoined ==
    ASSUME NEW N, NULL \notin N, NEW nx, NEW ny, NEW order, Orders(order, N),
           NEW L \in SUBSET N, NEW G \in SUBSET N, NEW p \in N,
           NEW a, NEW b, Links(nx, a, L, order), Links(nx, b, G, order),
           \A m \in L : <<m, p>> \in order, \A m \in G : <<p, m>> \in order,
           ny[p] = b.head, \A m \in L : ny[m] = IF m = a.tail THEN p ELSE nx[m],
           \A m \in G : ny[m] = nx[m],
           NEW k, k.head = IF a.head # NULL THEN a.head ELSE p,
           k.tail = IF b.tail # NULL THEN b.tail ELSE p
    PROVE  Links(ny, k, L \cup {p} \cup G, order)
  <1> DEFINE U == L \cup {p} \cup G
  <1>0. p \notin L /\ p \notin G
    BY DEF Orders
  <1>1. \A m \in L, x \in G : <<m, x>> \in order
    BY DEF Orders
  <1>2. L # {} => /\ a.head \in L /\ a.tail \in L
                  /\ \A m \in L : m = a.head \/ <<a.head, m>> \in order
                  /\ \A m \in L : \/ m = a.tail
                                  \/ /\ <<m, a.tail>> \in order
                                     /\ nx[m] \in L /\ <<m, nx[m]>> \in order
                                     /\ \A x \in L : <<m, x>> \in order =>
                                           x = nx[m] \/ <<nx[m], x>> \in order
    BY DEF Links
  <1>3. L = {} => a.head = NULL /\ a.tail = NULL
    BY DEF Links
  <1>4. G # {} => /\ b.head \in G /\ b.tail \in G /\ nx[b.tail] = NULL
                  /\ \A m \in G : m = b.head \/ <<b.head, m>> \in order
                  /\ \A m \in G : \/ m = b.tail
                                  \/ /\ <<m, b.tail>> \in order
                                     /\ nx[m] \in G /\ <<m, nx[m]>> \in order
                                     /\ \A x \in G : <<m, x>> \in order =>
                                           x = nx[m] \/ <<nx[m], x>> \in order
    BY DEF Links
  <1>5. G = {} => b.head = NULL /\ b.tail = NULL
    BY DEF Links
  <1>6. k.head \in U /\ \A m \in U : m = k.head \/ <<k.head, m>> \in order
    <2>1. CASE L = {}
      BY <1>3, <2>1
    <2>2. CASE L # {}
      BY <1>1, <1>2, <2>2
    <2> QED BY <2>1, <2>2
  <1>7. k.tail \in U /\ ny[k.tail] = NULL /\ \A m \in U : m = k.tail \/ <<m, k.tail>> \in order
    <2>1. CASE G = {}
      BY <1>5, <2>1
    <2>2. CASE G # {}
      <3>1. k.tail = b.tail /\ b.tail \in G
        BY <1>4, <2>2
      <3> QED BY <1>1, <1>4, <2>2, <3>1
    <2> QED BY <2>1, <2>2
  <1>8. ASSUME NEW m \in U, m # k.tail
        PROVE  /\ ny[m] \in U /\ <<m, ny[m]>> \in order
               /\ \A x \in U : <<m, x>> \in order => x = ny[m] \/ <<ny[m], x>> \in order
    <2>1. CASE m \in L
      <3>1. CASE m = a.tail
        <4>1. ny[m] = p /\ <<m, p>> \in order
          BY <2>1, <3>1
        <4>2. ASSUME NEW x \in L, <<m, x>> \in order PROVE FALSE
          <5>1. x = m \/ <<x, m>> \in order
            BY <1>2, <2>1, <3>1
          <5> QED BY <2>1, <4>2, <5>1 DEF Orders
        <4> QED BY <4>1, <4>2
      <3>2. CASE m # a.tail
        <4>1. ny[m] = nx[m] /\ nx[m] \in L /\ <<m, nx[m]>> \in order
              /\ \A x \in L : <<m, x>> \in order => x = nx[m] \/ <<nx[m], x>> \in order
          BY <1>2, <2>1, <3>2
        <4> QED BY <1>1, <4>1
      <3> QED BY <3>1, <3>2
    <2>2. CASE m = p
      <3>1. G # {}
        BY <1>5, <1>8, <2>2
      <3>2. ny[m] \in G /\ <<m, ny[m]>> \in order /\ \A x \in G : x = ny[m] \/ <<ny[m], x>> \in order
        BY <1>4, <2>2, <3>1
      <3>3. ASSUME NEW x \in L \cup {p}, <<p, x>> \in order PROVE FALSE
        BY <3>3 DEF Orders
      <3> QED BY <2>2, <3>2, <3>3
    <2>3. CASE m \in G
      <3>1. k.tail = b.tail /\ m # b.tail
        BY <1>4, <1>8, <2>3
      <3>2. ny[m] = nx[m] /\ nx[m] \in G /\ <<m, nx[m]>> \in order
            /\ \A x \in G : <<m, x>> \in order => x = nx[m] \/ <<nx[m], x>> \in order
        BY <1>4, <2>3, <3>1
      <3>3. ASSUME NEW x \in L \cup {p}, <<m, x>> \in order PROVE FALSE
        <4>1. <<x, m>> \in order
          BY <1>1, <2>3
        <4> QED BY <2>3, <3>3, <4>1 DEF Orders
      <3> QED BY <3>2, <3>3
    <2> QED BY <2>1, <2>2, <2>3
  <1> HIDE DEF U
  <1>9. U # {}
    BY <1>6
  <1>10. Links(ny, k, U, order)
    BY <1>6, <1>7, <1>8, <1>9 DEF Links
  <1> QED BY <1>10 DEF U

(* The values v of the nodes; the order of the places and the order of a   *)
(* stable sort; the two parts a call makes of its nodes S with pivot p.    *)
Valued(v) == \E n \in 0 .. MaxNodes : v \in [1 .. n -> Value]
LinkConstants == NULL \notin Nat /\ Value \in SUBSET Int /\ MaxNodes \in Nat

Asc(v) == {w \in (DOMAIN v) \X (DOMAIN v) : w[1] < w[2]}
Bef(v) == {w \in (DOMAIN v) \X (DOMAIN v) :
             v[w[1]] < v[w[2]] \/ (v[w[1]] = v[w[2]] /\ w[1] < w[2])}
Smaller(v, S, p) == {m \in S : v[m] < v[p]}
Others(v, S, p) == {m \in S : m # p /\ ~ (v[m] < v[p])}

LEMMA ValuedNodes ==
    ASSUME LinkConstants, NEW v, Valued(v)
    PROVE  /\ DOMAIN v \in SUBSET Nat /\ NULL \notin DOMAIN v
           /\ \A m \in DOMAIN v : v[m] \in Int
           /\ IsFiniteSet(DOMAIN v) /\ Cardinality(DOMAIN v) \in 0 .. MaxNodes
  <1>1. PICK n \in 0 .. MaxNodes : v \in [1 .. n -> Value]
    BY DEF Valued
  <1>2. DOMAIN v = 1 .. n /\ n \in Nat /\ 1 \in Int /\ n \in Int /\ MaxNodes \in Nat
    BY <1>1 DEF LinkConstants
  <1>3. IsFiniteSet(1 .. n) /\ Cardinality(1 .. n) = IF 1 > n THEN 0 ELSE n - 1 + 1
    BY <1>2, FS_Interval
  <1>4. IsFiniteSet(DOMAIN v) /\ Cardinality(DOMAIN v) = n
    BY <1>2, <1>3
  <1>5. \A m \in DOMAIN v : v[m] \in Int
    BY <1>1, <1>2 DEF LinkConstants
  <1>6. DOMAIN v \in SUBSET Nat /\ NULL \notin DOMAIN v
    BY <1>2 DEF LinkConstants
  <1> QED BY <1>1, <1>2, <1>4, <1>5, <1>6

LEMMA AscPairs ==
    ASSUME NEW v, NEW m \in DOMAIN v, NEW x \in DOMAIN v
    PROVE  <<m, x>> \in Asc(v) <=> m < x
  BY DEF Asc

LEMMA BefPairs ==
    ASSUME NEW v, NEW m \in DOMAIN v, NEW x \in DOMAIN v
    PROVE  <<m, x>> \in Bef(v) <=> v[m] < v[x] \/ (v[m] = v[x] /\ m < x)
  BY DEF Bef

LEMMA TwoOrders ==
    ASSUME LinkConstants, NEW v, Valued(v)
    PROVE  Orders(Asc(v), DOMAIN v) /\ Orders(Bef(v), DOMAIN v)
  <1>1. DOMAIN v \in SUBSET Nat /\ \A m \in DOMAIN v : v[m] \in Int
    BY ValuedNodes
  <1>2. Orders(Asc(v), DOMAIN v)
    <2>1. \A m \in DOMAIN v : <<m, m>> \notin Asc(v)
      BY <1>1, AscPairs
    <2>2. ASSUME NEW m \in DOMAIN v, NEW x \in DOMAIN v
          PROVE  m = x \/ <<m, x>> \in Asc(v) \/ <<x, m>> \in Asc(v)
      BY <1>1, AscPairs
    <2>3. \A m, x, y \in DOMAIN v : <<m, x>> \in Asc(v) /\ <<x, y>> \in Asc(v) => <<m, y>> \in Asc(v)
      BY <1>1, AscPairs
    <2> QED BY <2>1, <2>2, <2>3 DEF Orders
  <1>3. Orders(Bef(v), DOMAIN v)
    <2>1. \A m \in DOMAIN v : <<m, m>> \notin Bef(v)
      BY <1>1, BefPairs
    <2>2. ASSUME NEW m \in DOMAIN v, NEW x \in DOMAIN v
          PROVE  m = x \/ <<m, x>> \in Bef(v) \/ <<x, m>> \in Bef(v)
      BY <1>1, BefPairs
    <2>3. \A m, x, y \in DOMAIN v : <<m, x>> \in Bef(v) /\ <<x, y>> \in Bef(v) => <<m, y>> \in Bef(v)
      BY <1>1, BefPairs
    <2> QED BY <2>1, <2>2, <2>3 DEF Orders
  <1> QED BY <1>2, <1>3

(* What a call f that is the last one has finished to its nodes S, and one     *)
(* that waits for the call that sorts T.                                   *)
Headed(f, S) == f.list.head \in S /\ \A m \in S : m = f.list.head \/ f.list.head < m

Rest(f) == [head |-> f.curr, tail |-> IF f.curr = NULL THEN NULL ELSE f.list.tail]

Parted(v, nx, f, S, ahead) ==
    /\ f.list.head \notin ahead
    /\ Links(nx, Rest(f), ahead, Asc(v))
    /\ Links(nx, f.lesser, Smaller(v, S \ ahead, f.list.head), Asc(v))
    /\ Links(nx, f.greater, Others(v, S \ ahead, f.list.head), Asc(v))
    /\ \A m \in S \ ahead, x \in ahead : m < x

TopOK(v, nx, f, S) ==
    /\ f.at = "entry" => /\ Links(nx, f.list, S, Asc(v))
                         /\ f.lesser.head = NULL /\ f.lesser.tail = NULL
                         /\ f.greater.head = NULL /\ f.greater.tail = NULL
    /\ f.at = "loop" => /\ Headed(f, S)
                        /\ \E ahead \in SUBSET S : Parted(v, nx, f, S, ahead)
    /\ f.at = "lesser" => /\ Headed(f, S)
                          /\ Links(nx, f.lesser, Smaller(v, S, f.list.head), Bef(v))
                          /\ Links(nx, f.greater, Others(v, S, f.list.head), Asc(v))
    /\ f.at = "join" => /\ Headed(f, S)
                        /\ Links(nx, f.lesser, Smaller(v, S, f.list.head), Bef(v))
                        /\ Links(nx, f.greater, Others(v, S, f.list.head), Bef(v))
    /\ f.at # "greater"

Waits(v, nx, f, S, T) ==
    /\ Headed(f, S)
    /\ f.at \in {"lesser", "greater"}
    /\ f.at = "lesser" => /\ T = Smaller(v, S, f.list.head)
                          /\ Links(nx, f.greater, Others(v, S, f.list.head), Asc(v))
    /\ f.at = "greater" => /\ T = Others(v, S, f.list.head)
                           /\ Links(nx, f.lesser, Smaller(v, S, f.list.head), Bef(v))

(* The call st[k] owns the nodes own[k].                                   *)
Nested(v, n, own) ==
    /\ own \in [1 .. n -> SUBSET DOMAIN v]
    /\ own[n] = DOMAIN v
    /\ \A a, b \in 1 .. n : a <= b => own[a] \subseteq own[b]
    /\ \A k \in 1 .. n : Cardinality(own[k]) + n - k <= Cardinality(DOMAIN v)

Owned(v, n, st, nx, own) ==
    /\ Nested(v, n, own)
    /\ TopOK(v, nx, st[1], own[1])
    /\ \A k \in 2 .. n : Waits(v, nx, st[k], own[k], own[k - 1])

LEMMA WaitsStays ==
    ASSUME NEW v, NEW nx, NEW ny, NEW f, NEW S, NEW T, Waits(v, nx, f, S, T),
           \A m \in S \ T : ny[m] = nx[m]
    PROVE  Waits(v, ny, f, S, T)
  <1>1. CASE f.at = "lesser"
    <2>1. \A m \in Others(v, S, f.list.head) : ny[m] = nx[m]
      BY <1>1 DEF Waits, Others, Smaller
    <2>2. Links(ny, f.greater, Others(v, S, f.list.head), Asc(v))
      BY <1>1, <2>1, LinksStay DEF Waits
    <2> QED BY <1>1, <2>2 DEF Waits
  <1>2. CASE f.at = "greater"
    <2>1. \A m \in Smaller(v, S, f.list.head) : ny[m] = nx[m]
      BY <1>2 DEF Waits, Others, Smaller
    <2>2. Links(ny, f.lesser, Smaller(v, S, f.list.head), Bef(v))
      BY <1>2, <2>1, LinksStay DEF Waits
    <2> QED BY <1>2, <2>2 DEF Waits
  <1> QED BY <1>1, <1>2 DEF Waits

SameBelow(n, s2, st) == \A k \in 2 .. n : s2[k] = st[k]
OneBelow(n, s2, st) == \A k \in 2 .. n : s2[k + 1] = st[k]
OneAbove(n, s2, st) == \A k \in 2 .. n - 1 : s2[k] = st[k + 1]
SameOutside(v, nx, ny, S) == \A m \in DOMAIN v : m \notin S => ny[m] = nx[m]

(* The last call goes on.                                                  *)
LEMMA CallGoesOn ==
    ASSUME NEW v, NEW n \in Nat, n # 0, NEW st, NEW s2, NEW nx, NEW ny, NEW own,
           Owned(v, n, st, nx, own), TopOK(v, ny, s2[1], own[1]),
           SameBelow(n, s2, st), SameOutside(v, nx, ny, own[1])
    PROVE  Owned(v, n, s2, ny, own)
  <1>1. ASSUME NEW k \in 2 .. n PROVE Waits(v, ny, s2[k], own[k], own[k - 1])
    <2>1. k - 1 \in 1 .. n /\ k \in 1 .. n /\ 1 \in 1 .. n /\ 1 <= k - 1
      OBVIOUS
    <2>2. own[1] \subseteq own[k - 1] /\ own[k] \subseteq DOMAIN v
      BY <2>1 DEF Owned, Nested
    <2>3. \A m \in own[k] \ own[k - 1] : ny[m] = nx[m]
      BY <2>2 DEF SameOutside
    <2>4. Waits(v, nx, s2[k], own[k], own[k - 1])
      BY DEF Owned, SameBelow
    <2> QED BY <2>3, <2>4, WaitsStays
  <1> QED BY <1>1 DEF Owned

(* It calls sort for the nodes T.                                          *)
LEMMA CallIsMade ==
    ASSUME LinkConstants, NEW v, Valued(v), NEW n \in Nat, n # 0, NEW st, NEW s2, NEW nx, NEW own,
           Owned(v, n, st, nx, own), NEW T \in SUBSET own[1], T # own[1],
           TopOK(v, nx, s2[1], T), Waits(v, nx, s2[2], own[1], T),
           OneBelow(n, s2, st)
    PROVE  \E new : Owned(v, n + 1, s2, nx, new)
  <1> DEFINE new == [k \in 1 .. n + 1 |-> IF k = 1 THEN T ELSE own[k - 1]]
  <1>1. new[1] = T /\ \A k \in 1 .. n : new[k + 1] = own[k]
    OBVIOUS
  <1>2. own[1] \in SUBSET DOMAIN v /\ own \in [1 .. n -> SUBSET DOMAIN v] /\ own[n] = DOMAIN v
    BY DEF Owned, Nested
  <1>3. new \in [1 .. n + 1 -> SUBSET DOMAIN v]
    BY <1>2
  <1>4. new[n + 1] = DOMAIN v
    BY <1>1, <1>2
  <1>5. \A a, b \in 1 .. n : a <= b => own[a] \subseteq own[b]
    BY DEF Owned, Nested
  <1>6. \A k \in 1 .. n : Cardinality(own[k]) + n - k <= Cardinality(DOMAIN v)
    BY DEF Owned, Nested
  <1>7. /\ IsFiniteSet(own[1]) /\ Cardinality(own[1]) \in Nat
        /\ IsFiniteSet(T) /\ Cardinality(T) \in Nat /\ Cardinality(T) < Cardinality(own[1])
    <2>1. IsFiniteSet(DOMAIN v)
      BY ValuedNodes
    <2>2. IsFiniteSet(own[1])
      BY <1>2, <2>1, FS_Subset
    <2>3. IsFiniteSet(T) /\ Cardinality(T) <= Cardinality(own[1])
          /\ (Cardinality(own[1]) = Cardinality(T) => own[1] = T)
      BY <2>2, FS_Subset
    <2>4. Cardinality(own[1]) \in Nat /\ Cardinality(T) \in Nat
      BY <2>2, <2>3, FS_CardinalityType
    <2> QED BY <2>2, <2>3, <2>4
  <1>8. Cardinality(DOMAIN v) \in Nat
    BY ValuedNodes
  <1> HIDE DEF new
  <1>9. ASSUME NEW a \in 1 .. n + 1, NEW b \in 1 .. n + 1, a <= b PROVE new[a] \subseteq new[b]
    <2>1. CASE a = 1 /\ b = 1
      BY <2>1
    <2>2. CASE a = 1 /\ b # 1
      <3>1. b - 1 \in 1 .. n /\ 1 \in 1 .. n /\ 1 <= b - 1 /\ (b - 1) + 1 = b
        BY <2>2
      <3>2. new[b] = own[b - 1] /\ own[1] \subseteq own[b - 1]
        BY <1>1, <1>5, <3>1
      <3> QED BY <1>1, <2>2, <3>2
    <2>3. CASE a # 1
      <3>1. b - 1 \in 1 .. n /\ a - 1 \in 1 .. n /\ a - 1 <= b - 1 /\ (b - 1) + 1 = b /\ (a - 1) + 1 = a
        BY <1>9, <2>3
      <3>2. new[b] = own[b - 1] /\ new[a] = own[a - 1] /\ own[a - 1] \subseteq own[b - 1]
        BY <1>1, <1>5, <3>1
      <3> QED BY <3>2
    <2> QED BY <2>1, <2>2, <2>3
  <1>10. ASSUME NEW k \in 1 .. n + 1
         PROVE  Cardinality(new[k]) + (n + 1) - k <= Cardinality(DOMAIN v)
    <2>1. CASE k = 1
      <3>1. 1 \in 1 .. n
        OBVIOUS
      <3>2. Cardinality(own[1]) + n - 1 <= Cardinality(DOMAIN v)
        BY <1>6, <3>1
      <3> QED BY <1>1, <1>7, <1>8, <2>1, <3>2
    <2>2. CASE k # 1
      <3>1. k - 1 \in 1 .. n /\ (k - 1) + 1 = k
        BY <2>2
      <3>2. new[k] = own[k - 1] /\ Cardinality(own[k - 1]) + n - (k - 1) <= Cardinality(DOMAIN v)
        BY <1>1, <1>6, <3>1
      <3>3. Cardinality(own[k - 1]) \in Nat
        <4>1. own[k - 1] \in SUBSET DOMAIN v
          BY <1>2, <3>1
        <4> QED BY <4>1, ValuedNodes, FS_Subset, FS_CardinalityType
      <3> QED BY <1>8, <3>2, <3>3
    <2> QED BY <2>1, <2>2
  <1>11. ASSUME NEW k \in 2 .. n + 1 PROVE Waits(v, nx, s2[k], new[k], new[k - 1])
    <2>1. CASE k = 2
      <3>1. new[k] = own[1] /\ new[k - 1] = T
        BY <1>1, <2>1
      <3> QED BY <2>1, <3>1
    <2>2. CASE k # 2
      <3>1. k - 1 \in 2 .. n /\ k - 1 \in 1 .. n /\ k - 2 \in 1 .. n /\ (k - 1) + 1 = k
            /\ (k - 2) + 1 = k - 1 /\ (k - 1) - 1 = k - 2
        BY <2>2
      <3>2. new[k] = own[k - 1] /\ new[k - 1] = own[k - 2] /\ s2[k] = st[k - 1]
        BY <1>1, <3>1 DEF OneBelow
      <3>3. Waits(v, nx, st[k - 1], own[k - 1], own[(k - 1) - 1])
        BY <3>1 DEF Owned
      <3> QED BY <3>1, <3>2, <3>3
    <2> QED BY <2>1, <2>2
  <1>12. Nested(v, n + 1, new)
    BY <1>3, <1>4, <1>9, <1>10 DEF Nested
  <1>13. Owned(v, n + 1, s2, nx, new)
    BY <1>1, <1>11, <1>12 DEF Owned
  <1> QED BY <1>13

(* It returns to its caller.                                               *)
LEMMA CallReturns ==
    ASSUME NEW v, NEW n \in Nat, n # 0, n # 1, NEW st, NEW s2, NEW nx, NEW ny, NEW own,
           Owned(v, n, st, nx, own), TopOK(v, ny, s2[1], own[2]),
           OneAbove(n, s2, st), SameOutside(v, nx, ny, own[1])
    PROVE  Owned(v, n - 1, s2, ny, [k \in 1 .. n - 1 |-> own[k + 1]])
  <1> DEFINE new == [k \in 1 .. n - 1 |-> own[k + 1]]
  <1>1. \A k \in 1 .. n - 1 : new[k] = own[k + 1]
    OBVIOUS
  <1>2. own \in [1 .. n -> SUBSET DOMAIN v] /\ own[n] = DOMAIN v
    BY DEF Owned, Nested
  <1>3. new \in [1 .. n - 1 -> SUBSET DOMAIN v]
    BY <1>2
  <1>5. \A a, b \in 1 .. n : a <= b => own[a] \subseteq own[b]
    BY DEF Owned, Nested
  <1>6. \A k \in 1 .. n : Cardinality(own[k]) + n - k <= Cardinality(DOMAIN v)
    BY DEF Owned, Nested
  <1> HIDE DEF new
  <1>4. new[n - 1] = DOMAIN v
    <2>1. n - 1 \in 1 .. n - 1 /\ (n - 1) + 1 = n
      OBVIOUS
    <2> QED BY <1>1, <1>2, <2>1
  <1>9. ASSUME NEW a \in 1 .. n - 1, NEW b \in 1 .. n - 1, a <= b PROVE new[a] \subseteq new[b]
    <2>1. a + 1 \in 1 .. n /\ b + 1 \in 1 .. n /\ a + 1 <= b + 1
      BY <1>9
    <2>2. own[a + 1] \subseteq own[b + 1]
      BY <1>5, <2>1
    <2> QED BY <1>1, <2>2
  <1>10. ASSUME NEW k \in 1 .. n - 1
         PROVE  Cardinality(new[k]) + (n - 1) - k <= Cardinality(DOMAIN v)
    <2>1. k + 1 \in 1 .. n
      OBVIOUS
    <2>2. Cardinality(own[k + 1]) + n - (k + 1) <= Cardinality(DOMAIN v)
      BY <1>6, <2>1
    <2>3. new[k] = own[k + 1]
      BY <1>1
    <2>4. Cardinality(own[k + 1]) + n - (k + 1) = Cardinality(own[k + 1]) + (n - 1) - k
      OBVIOUS
    <2> QED BY <2>2, <2>3, <2>4
  <1>11. ASSUME NEW k \in 2 .. n - 1 PROVE Waits(v, ny, s2[k], new[k], new[k - 1])
    <2>1. k + 1 \in 2 .. n /\ k + 1 \in 1 .. n /\ (k + 1) - 1 = k /\ k \in 1 .. n /\ 1 \in 1 .. n
          /\ 1 <= k /\ k \in 1 .. n - 1 /\ k - 1 \in 1 .. n - 1 /\ (k - 1) + 1 = k
      OBVIOUS
    <2>2. new[k] = own[k + 1] /\ new[k - 1] = own[k] /\ s2[k] = st[k + 1]
      BY <1>1, <2>1 DEF OneAbove
    <2>3. Waits(v, nx, st[k + 1], own[k + 1], own[(k + 1) - 1])
      BY <2>1 DEF Owned
    <2>4. own[1] \subseteq own[k] /\ own[k + 1] \subseteq DOMAIN v
      BY <1>2, <1>5, <2>1
    <2>5. \A m \in own[k + 1] \ own[k] : ny[m] = nx[m]
      BY <2>4 DEF SameOutside
    <2>6. Waits(v, nx, s2[k], new[k], new[k - 1])
      BY <2>1, <2>2, <2>3
    <2> QED BY <2>2, <2>5, <2>6, WaitsStays
  <1>12. Nested(v, n - 1, new)
    BY <1>3, <1>4, <1>9, <1>10 DEF Nested
  <1>13. new[1] = own[2]
    <2>1. 1 \in 1 .. n - 1 /\ 1 + 1 = 2
      OBVIOUS
    <2> QED BY <1>1, <2>1
  <1>14. Owned(v, n - 1, s2, ny, new)
    BY <1>11, <1>12, <1>13 DEF Owned
  <1> QED BY <1>14 DEF new

-----------------------------------------------------------------------------
(* What each step of the call f does to its nodes S.                       *)
LEMMA EndsInside ==
    ASSUME NEW nx, NEW l, NEW S, NEW order, Links(nx, l, S, order)
    PROVE  /\ l.head = NULL \/ l.head \in S
           /\ l.tail = NULL \/ l.tail \in S
  BY DEF Links

LEMMA PartsOfNodes ==
    ASSUME NEW v, NEW S \in SUBSET DOMAIN v, NEW p \in S
    PROVE  /\ Smaller(v, S, p) \in SUBSET S /\ Others(v, S, p) \in SUBSET S
           /\ p \notin Others(v, S, p)
           /\ (v[p] \in Int => p \notin Smaller(v, S, p) /\ S = Smaller(v, S, p) \cup {p} \cup Others(v, S, p))
           /\ Smaller(v, S, p) \cap Others(v, S, p) = {}
  BY DEF Smaller, Others

LEMMA ShortIsSorted ==
    ASSUME LinkConstants, NEW v, Valued(v), NEW nx, NEW l, NEW S \in SUBSET DOMAIN v,
           Links(nx, l, S, Asc(v)), l.head = NULL \/ nx[l.head] = NULL
    PROVE  Links(nx, l, S, Bef(v))
  <1>1. CASE S = {}
    BY <1>1 DEF Links
  <1>2. CASE S # {}
    <2>1. l.head \in S /\ l.tail \in S /\ nx[l.tail] = NULL
          /\ \A m \in S : m = l.tail \/ nx[m] \in S
      BY <1>2 DEF Links
    <2>2. l.head = l.tail
      BY <2>1, ValuedNodes
    <2>3. \A m \in S : m = l.head
      <3> SUFFICES ASSUME NEW m \in S, m # l.head PROVE FALSE
        OBVIOUS
      <3>1. <<l.head, m>> \in Asc(v) /\ <<m, l.tail>> \in Asc(v)
        BY <1>2, <2>2 DEF Links
      <3>2. <<m, m>> \in Asc(v)
        BY <2>1, <2>2, <3>1, TwoOrders DEF Orders
      <3> QED BY <3>2, TwoOrders DEF Orders
    <2> QED BY <2>1, <2>2, <2>3 DEF Links
  <1> QED BY <1>1, <1>2

LEMMA LoopBegins ==
    ASSUME LinkConstants, NEW v, Valued(v), NEW nx, NEW f, NEW S \in SUBSET DOMAIN v,
           f.at = "entry", TopOK(v, nx, f, S), f.list.head # NULL,
           NEW g, g.list = f.list, g.curr = nx[f.list.head], g.at = "loop",
           g.lesser = f.lesser, g.greater = f.greater
    PROVE  TopOK(v, nx, g, S)
  <1> DEFINE p == f.list.head
             A == S \ {p}
  <1>1. /\ Links(nx, f.list, S, Asc(v))
        /\ f.lesser.head = NULL /\ f.lesser.tail = NULL /\ f.greater.head = NULL /\ f.greater.tail = NULL
    BY DEF TopOK
  <1>2. p \in S /\ \A m \in S : m = p \/ <<p, m>> \in Asc(v)
    BY <1>1 DEF Links
  <1>3. \A m \in S : m = p \/ p < m
    BY <1>2, AscPairs
  <1>4. Headed(g, S)
    BY <1>2, <1>3 DEF Headed
  <1>5. Links(nx, Rest(g), A, Asc(v))
    <2>1. /\ Rest(g).head = nx[f.list.head]
          /\ Rest(g).tail = IF nx[f.list.head] = NULL THEN NULL ELSE f.list.tail
      BY DEF Rest
    <2>2. NULL \notin DOMAIN v /\ Orders(Asc(v), DOMAIN v)
      BY ValuedNodes, TwoOrders
    <2> QED BY <1>1, <2>1, <2>2, RestLinks
  <1>6. S \ A = {p} /\ v[p] \in Int
    BY <1>2, ValuedNodes
  <1>7. Smaller(v, S \ A, g.list.head) = {} /\ Others(v, S \ A, g.list.head) = {}
    BY <1>6 DEF Smaller, Others
  <1>8. Links(nx, g.lesser, {}, Asc(v)) /\ Links(nx, g.greater, {}, Asc(v))
    BY <1>1, EmptyLinks
  <1>9. \A m \in S \ A, x \in A : m < x
    BY <1>3, <1>6
  <1>10. g.list.head \notin A /\ A \in SUBSET S
    OBVIOUS
  <1>11. Parted(v, nx, g, S, A)
    BY <1>5, <1>7, <1>8, <1>9, <1>10 DEF Parted
  <1> HIDE DEF A, p
  <1> QED BY <1>4, <1>10, <1>11 DEF TopOK

Ahead(S, A) == \A m \in S \ A, x \in A : m < x

GoesBehind(v, nx, ny, c, l) ==
    \A m \in DOMAIN v : ny[m] = IF m = c THEN NULL ELSE IF m = l.tail THEN c ELSE nx[m]

FromHere(nx, s, c, r) ==
    r.head = c /\ s.head = nx[c] /\ s.tail = IF nx[c] = NULL THEN NULL ELSE r.tail

WithNode(t, c, l) == t.tail = c /\ t.head = IF l.tail = NULL THEN c ELSE l.head

(* curr's node c goes behind the list l of part P; the list k of part Q is *)
(* left alone, and so is what is ahead, A.                                 *)
Moving(v, nx, ny, S, A, c, P, Q, l, k, r, s, t) ==
    /\ S \in SUBSET DOMAIN v /\ A \in SUBSET S /\ c \in A /\ Ahead(S, A)
    /\ P \in SUBSET (S \ A) /\ Q \in SUBSET (S \ A) /\ P \cap Q = {}
    /\ Links(nx, l, P, Asc(v)) /\ Links(nx, k, Q, Asc(v)) /\ Links(nx, r, A, Asc(v))
    /\ FromHere(nx, s, c, r) /\ WithNode(t, c, l) /\ GoesBehind(v, nx, ny, c, l)

Moved(v, nx, ny, S, A, c, P, Q, l, k, r, s, t) ==
    /\ Links(ny, t, P \cup {c}, Asc(v))
    /\ Links(ny, k, Q, Asc(v))
    /\ Links(ny, s, A \ {c}, Asc(v))
    /\ \A m \in S \ (A \ {c}), x \in A \ {c} : m < x
    /\ \A m \in DOMAIN v : m \notin S => ny[m] = nx[m]

LEMMA NodeMoves ==
    ASSUME LinkConstants, NEW v, Valued(v), NEW nx, NEW ny, NEW S, NEW A, NEW c, NEW P, NEW Q,
           NEW l, NEW k, NEW r, NEW s, NEW t, Moving(v, nx, ny, S, A, c, P, Q, l, k, r, s, t)
    PROVE  Moved(v, nx, ny, S, A, c, P, Q, l, k, r, s, t)
  <1>a. /\ S \in SUBSET DOMAIN v /\ A \in SUBSET S /\ c \in A /\ Ahead(S, A)
         /\ P \in SUBSET (S \ A) /\ Q \in SUBSET (S \ A) /\ P \cap Q = {}
         /\ Links(nx, l, P, Asc(v)) /\ Links(nx, k, Q, Asc(v)) /\ Links(nx, r, A, Asc(v))
         /\ FromHere(nx, s, c, r) /\ WithNode(t, c, l) /\ GoesBehind(v, nx, ny, c, l)
    BY DEF Moving
  <1>0. /\ \A m \in S \ A, x \in A : m < x
        /\ \A m \in DOMAIN v : ny[m] = IF m = c THEN NULL ELSE IF m = l.tail THEN c ELSE nx[m]
        /\ r.head = c /\ s.head = nx[c] /\ s.tail = IF nx[c] = NULL THEN NULL ELSE r.tail
        /\ t.tail = c /\ t.head = IF l.tail = NULL THEN c ELSE l.head
    BY <1>a DEF Ahead, GoesBehind, FromHere, WithNode
  <1>1. NULL \notin DOMAIN v /\ Orders(Asc(v), DOMAIN v) /\ c \in DOMAIN v /\ c # NULL
    BY <1>a, ValuedNodes, TwoOrders
  <1>2. l.tail = NULL \/ l.tail \in P
    BY <1>a, EndsInside
  <1>3. Links(ny, t, P \cup {c}, Asc(v))
    <2>1. P \in SUBSET DOMAIN v /\ c \notin P /\ ny[c] = NULL
      BY <1>a, <1>0, <1>1
    <2>2. \A m \in P : <<m, c>> \in Asc(v)
      BY <1>a, <1>0, AscPairs
    <2>3. \A m \in P : ny[m] = IF m = l.tail THEN c ELSE nx[m]
      BY <1>a, <1>0, <2>1
    <2> QED BY <1>a, <1>0, <1>1, <2>1, <2>2, <2>3, NodeAppended
  <1>4. Links(ny, k, Q, Asc(v))
    <2>1. \A m \in Q : ny[m] = nx[m]
      BY <1>a, <1>0, <1>1, <1>2
    <2> QED BY <1>a, <2>1, LinksStay
  <1>5. Links(ny, s, A \ {c}, Asc(v))
    <2>1. A \in SUBSET DOMAIN v
      BY <1>a
    <2>2. Links(nx, s, A \ {r.head}, Asc(v))
      BY <1>a, <1>0, <1>1, <2>1, RestLinks
    <2>3. \A m \in A \ {c} : ny[m] = nx[m]
      BY <1>a, <1>0, <1>1, <1>2
    <2> QED BY <1>a, <1>0, <2>2, <2>3, LinksStay
  <1>6. \A x \in A \ {c} : c < x
    <2>1. \A m \in A : m = c \/ <<c, m>> \in Asc(v)
      BY <1>a, <1>0 DEF Links
    <2> QED BY <1>a, <1>1, <2>1, AscPairs
  <1>7. \A m \in DOMAIN v : m \notin S => ny[m] = nx[m]
    BY <1>a, <1>0, <1>1, <1>2
  <1> QED BY <1>a, <1>0, <1>3, <1>4, <1>5, <1>6, <1>7 DEF Moved

TakesNode(v, nx, f, g, l, t) ==
    /\ g.list = f.list /\ g.at = "loop" /\ g.curr = nx[f.curr]
    /\ l = IF v[f.curr] < v[f.list.head] THEN f.lesser ELSE f.greater
    /\ t.tail = f.curr /\ t.head = IF l.tail = NULL THEN f.curr ELSE l.head
    /\ g.lesser = IF v[f.curr] < v[f.list.head] THEN t ELSE f.lesser
    /\ g.greater = IF v[f.curr] < v[f.list.head] THEN f.greater ELSE t

LEMMA CallMoves ==
    ASSUME LinkConstants, NEW v, Valued(v), NEW nx, NEW ny, NEW S \in SUBSET DOMAIN v,
           NEW f, f.at = "loop", TopOK(v, nx, f, S), f.curr # NULL,
           NEW g, NEW l, NEW t, TakesNode(v, nx, f, g, l, t), GoesBehind(v, nx, ny, f.curr, l)
    PROVE  TopOK(v, ny, g, S) /\ SameOutside(v, nx, ny, S)
  <1>0. /\ g.list = f.list /\ g.at = "loop" /\ g.curr = nx[f.curr]
        /\ l = IF v[f.curr] < v[f.list.head] THEN f.lesser ELSE f.greater
        /\ t.tail = f.curr /\ t.head = IF l.tail = NULL THEN f.curr ELSE l.head
        /\ g.lesser = IF v[f.curr] < v[f.list.head] THEN t ELSE f.lesser
        /\ g.greater = IF v[f.curr] < v[f.list.head] THEN f.greater ELSE t
    BY DEF TakesNode
  <1>1. Headed(f, S) /\ \E ahead \in SUBSET S : Parted(v, nx, f, S, ahead)
    BY DEF TopOK
  <1>2. PICK A \in SUBSET S : Parted(v, nx, f, S, A)
    BY <1>1
  <1> DEFINE p == f.list.head
             c == f.curr
             P == Smaller(v, S \ A, p)
             Q == Others(v, S \ A, p)
             B == A \ {c}
  <1>3. /\ p \notin A /\ Links(nx, Rest(f), A, Asc(v)) /\ Links(nx, f.lesser, P, Asc(v))
        /\ Links(nx, f.greater, Q, Asc(v)) /\ \A m \in S \ A, x \in A : m < x
    BY <1>2 DEF Parted
  <1>4. Rest(f).head = c /\ Rest(f).tail = f.list.tail
    BY DEF Rest
  <1>5. c \in A
    BY <1>3, <1>4, EndsInside
  <1>6. Rest(g).head = nx[c] /\ Rest(g).tail = IF nx[c] = NULL THEN NULL ELSE Rest(f).tail
    BY <1>0, <1>4 DEF Rest
  <1>7. P \in SUBSET (S \ A) /\ Q \in SUBSET (S \ A) /\ P \cap Q = {}
    BY DEF Smaller, Others
  <1>8. S \ B = (S \ A) \cup {c} /\ c # p /\ p \notin B /\ B \in SUBSET S
    BY <1>3, <1>5
  <1>9. Headed(g, S)
    BY <1>0, <1>1 DEF Headed
  <1>10. CASE v[c] < v[p]
    <2>1. Smaller(v, S \ B, p) = P \cup {c} /\ Others(v, S \ B, p) = Q
      BY <1>8, <1>10 DEF Smaller, Others
    <2>2. l = f.lesser /\ g.lesser = t /\ g.greater = f.greater
      BY <1>0, <1>10
    <2>3. Links(nx, l, P, Asc(v)) /\ Links(nx, f.greater, Q, Asc(v)) /\ Q \cap P = {}
      BY <1>3, <1>7, <2>2
    <2> HIDE DEF P, Q, c
    <2>4. Moved(v, nx, ny, S, A, c, P, Q, l, f.greater, Rest(f), Rest(g), t)
      <3>1. WithNode(t, c, l) /\ GoesBehind(v, nx, ny, c, l)
        BY <1>0 DEF c, WithNode
      <3>2. Ahead(S, A) /\ FromHere(nx, Rest(g), c, Rest(f))
        BY <1>3, <1>4, <1>6 DEF Ahead, FromHere
      <3> HIDE DEF B, p
      <3>3. Moving(v, nx, ny, S, A, c, P, Q, l, f.greater, Rest(f), Rest(g), t)
        BY <1>3, <1>5, <1>7, <2>3, <3>1, <3>2 DEF Moving
      <3> QED BY <3>3, NodeMoves
    <2>5. Parted(v, ny, g, S, B)
      BY <1>0, <1>8, <2>1, <2>2, <2>4 DEF Parted, Moved
    <2> HIDE DEF B
    <2> QED BY <1>0, <1>8, <1>9, <2>4, <2>5 DEF TopOK, Moved, SameOutside
  <1>11. CASE ~ (v[c] < v[p])
    <2>1. Smaller(v, S \ B, p) = P /\ Others(v, S \ B, p) = Q \cup {c}
      BY <1>8, <1>11 DEF Smaller, Others
    <2>2. l = f.greater /\ g.lesser = f.lesser /\ g.greater = t
      BY <1>0, <1>11
    <2>3. Links(nx, l, Q, Asc(v)) /\ Links(nx, f.lesser, P, Asc(v)) /\ Q \cap P = {}
      BY <1>3, <1>7, <2>2
    <2> HIDE DEF P, Q, c
    <2>4. Moved(v, nx, ny, S, A, c, Q, P, l, f.lesser, Rest(f), Rest(g), t)
      <3>1. WithNode(t, c, l) /\ GoesBehind(v, nx, ny, c, l)
        BY <1>0 DEF c, WithNode
      <3>2. Ahead(S, A) /\ FromHere(nx, Rest(g), c, Rest(f))
        BY <1>3, <1>4, <1>6 DEF Ahead, FromHere
      <3> HIDE DEF B, p
      <3>3. Moving(v, nx, ny, S, A, c, Q, P, l, f.lesser, Rest(f), Rest(g), t)
        BY <1>3, <1>5, <1>7, <2>3, <3>1, <3>2 DEF Moving
      <3> QED BY <3>3, NodeMoves
    <2>5. Parted(v, ny, g, S, B)
      BY <1>0, <1>8, <2>1, <2>2, <2>4 DEF Parted, Moved
    <2> HIDE DEF B
    <2> QED BY <1>0, <1>8, <1>9, <2>4, <2>5 DEF TopOK, Moved, SameOutside
  <1> QED BY <1>10, <1>11

Joins(v, nx, ny, f) ==
    \A m \in DOMAIN v : ny[m] = IF m = f.list.head THEN f.greater.head
                                ELSE IF m = f.lesser.tail THEN f.list.head ELSE nx[m]

(* The loop is over: the call sorts the smaller values, ...                *)
LEMMA LesserIsCalled ==
    ASSUME LinkConstants, NEW v, Valued(v), NEW nx, NEW S \in SUBSET DOMAIN v,
           NEW f, f.at = "loop", TopOK(v, nx, f, S), f.curr = NULL,
           NEW g, g.list = f.list, g.at = "lesser", g.greater = f.greater,
           NEW d, d.list = f.lesser, d.at = "entry", d.lesser.head = NULL, d.lesser.tail = NULL,
           d.greater.head = NULL, d.greater.tail = NULL,
           NEW T, T = Smaller(v, S, f.list.head)
    PROVE  /\ T \in SUBSET S /\ T # S
           /\ TopOK(v, nx, d, T) /\ Waits(v, nx, g, S, T)
  <1>1. Headed(f, S) /\ \E ahead \in SUBSET S : Parted(v, nx, f, S, ahead)
    BY DEF TopOK
  <1>2. PICK A \in SUBSET S : Parted(v, nx, f, S, A)
    BY <1>1
  <1>3. A = {}
    <2>1. Rest(f).head = NULL /\ Links(nx, Rest(f), A, Asc(v)) /\ NULL \notin A
      BY <1>2, ValuedNodes DEF Rest, Parted
    <2> QED BY <2>1 DEF Links
  <1>4. S \ A = S
    BY <1>3
  <1>5. /\ Links(nx, f.lesser, Smaller(v, S, f.list.head), Asc(v))
        /\ Links(nx, f.greater, Others(v, S, f.list.head), Asc(v))
    BY <1>2, <1>4 DEF Parted
  <1>6. f.list.head \in S /\ v[f.list.head] \in Int
    BY <1>1, ValuedNodes DEF Headed
  <1>7. T \in SUBSET S /\ T # S
    <2>1. T \in SUBSET S /\ f.list.head \notin T
      BY <1>6 DEF Smaller
    <2> QED BY <1>6, <2>1
  <1>8. TopOK(v, nx, d, T)
    BY <1>5 DEF TopOK
  <1>9. Headed(g, S)
    BY <1>1 DEF Headed
  <1>10. Waits(v, nx, g, S, T)
    BY <1>5, <1>9 DEF Waits
  <1> QED BY <1>7, <1>8, <1>10

(* ... and then the others.                                                *)
LEMMA GreaterIsCalled ==
    ASSUME LinkConstants, NEW v, Valued(v), NEW nx, NEW S \in SUBSET DOMAIN v,
           NEW f, f.at = "lesser", TopOK(v, nx, f, S),
           NEW g, g.list = f.list, g.at = "greater", g.lesser = f.lesser,
           NEW d, d.list = f.greater, d.at = "entry", d.lesser.head = NULL, d.lesser.tail = NULL,
           d.greater.head = NULL, d.greater.tail = NULL,
           NEW T, T = Others(v, S, f.list.head)
    PROVE  /\ T \in SUBSET S /\ T # S
           /\ TopOK(v, nx, d, T) /\ Waits(v, nx, g, S, T)
  <1>1. /\ Headed(f, S)
        /\ Links(nx, f.lesser, Smaller(v, S, f.list.head), Bef(v))
        /\ Links(nx, f.greater, Others(v, S, f.list.head), Asc(v))
    BY DEF TopOK
  <1>2. f.list.head \in S /\ v[f.list.head] \in Int
    BY <1>1, ValuedNodes DEF Headed
  <1>3. T \in SUBSET S /\ T # S
    <2>1. T \in SUBSET S /\ f.list.head \notin T
      BY <1>2 DEF Others
    <2> QED BY <1>2, <2>1
  <1>4. TopOK(v, nx, d, T)
    BY <1>1 DEF TopOK
  <1>5. Headed(g, S)
    BY <1>1 DEF Headed
  <1>6. Waits(v, nx, g, S, T)
    BY <1>1, <1>5 DEF Waits
  <1> QED BY <1>3, <1>4, <1>6

LEMMA PartsAreJoined ==
    ASSUME LinkConstants, NEW v, Valued(v), NEW nx, NEW ny, NEW S \in SUBSET DOMAIN v,
           NEW f, f.at = "join", TopOK(v, nx, f, S),
           Joins(v, nx, ny, f), NEW l, l.head = IF f.lesser.head # NULL THEN f.lesser.head ELSE f.list.head,
           l.tail = IF f.greater.tail # NULL THEN f.greater.tail ELSE f.list.head
    PROVE  Links(ny, l, S, Bef(v)) /\ SameOutside(v, nx, ny, S)
  <1> DEFINE p == f.list.head
             P == Smaller(v, S, p)
             Q == Others(v, S, p)
  <1>1. Headed(f, S) /\ Links(nx, f.lesser, P, Bef(v)) /\ Links(nx, f.greater, Q, Bef(v))
    BY DEF TopOK
  <1>2. p \in S /\ \A m \in S : m = p \/ p < m
    BY <1>1 DEF Headed
  <1>3. /\ NULL \notin DOMAIN v /\ Orders(Bef(v), DOMAIN v) /\ p \in DOMAIN v
        /\ \A m \in DOMAIN v : v[m] \in Int
    BY <1>2, ValuedNodes, TwoOrders
  <1>4. P \in SUBSET S /\ Q \in SUBSET S /\ p \notin P /\ p \notin Q /\ P \cap Q = {}
        /\ S = P \cup {p} \cup Q
    BY <1>2, <1>3, PartsOfNodes
  <1>5. \A m \in P : <<m, p>> \in Bef(v)
    <2>1. \A m \in P : v[m] < v[p] /\ m \in DOMAIN v
      BY DEF Smaller
    <2> QED BY <1>3, <2>1, BefPairs
  <1>6. \A m \in Q : <<p, m>> \in Bef(v)
    <2>1. \A m \in Q : ~ (v[m] < v[p]) /\ p < m /\ m \in DOMAIN v
      BY <1>2 DEF Others
    <2> QED BY <1>3, <2>1, BefPairs
  <1>7. f.lesser.tail = NULL \/ f.lesser.tail \in P
    BY <1>1, EndsInside
  <1> HIDE DEF P, Q, p
  <1>8. /\ ny[p] = f.greater.head
        /\ \A m \in P : ny[m] = IF m = f.lesser.tail THEN p ELSE nx[m]
        /\ \A m \in Q : ny[m] = nx[m]
        /\ \A m \in DOMAIN v : m \notin S => ny[m] = nx[m]
    BY <1>2, <1>3, <1>4, <1>7 DEF p, Joins
  <1>9. /\ l.head = IF f.lesser.head # NULL THEN f.lesser.head ELSE p
        /\ l.tail = IF f.greater.tail # NULL THEN f.greater.tail ELSE p
    BY DEF p
  <1>10. P \in SUBSET DOMAIN v /\ Q \in SUBSET DOMAIN v
    BY <1>4
  <1>11. Links(ny, l, P \cup {p} \cup Q, Bef(v))
    BY <1>1, <1>3, <1>5, <1>6, <1>8, <1>9, <1>10, ListsJoined
  <1> QED BY <1>4, <1>8, <1>11 DEF SameOutside

(* A caller gets the sorted nodes T back.                                  *)
LEMMA ResultIsTaken ==
    ASSUME NEW v, NEW nx, NEW ny, NEW S, NEW T, NEW f, Waits(v, nx, f, S, T),
           \A m \in S \ T : ny[m] = nx[m],
           NEW l, Links(ny, l, T, Bef(v)),
           NEW g, g.list = f.list,
           g.lesser = IF f.at = "lesser" THEN l ELSE f.lesser,
           g.greater = IF f.at = "lesser" THEN f.greater ELSE l,
           g.at = IF f.at = "lesser" THEN "lesser" ELSE "join"
    PROVE  TopOK(v, ny, g, S)
  <1>1. Waits(v, ny, f, S, T)
    BY WaitsStays
  <1>2. Headed(g, S)
    BY <1>1 DEF Waits, Headed
  <1>3. CASE f.at = "lesser"
    BY <1>1, <1>2, <1>3 DEF Waits, TopOK
  <1>4. CASE f.at = "greater"
    BY <1>1, <1>2, <1>4 DEF Waits, TopOK
  <1> QED BY <1>1, <1>3, <1>4 DEF Waits

-----------------------------------------------------------------------------
(* The states of the program.                                              *)
ListEnds(v) == [head : DOMAIN v \cup {NULL}, tail : DOMAIN v \cup {NULL}]

Frames(v) ==
    [list : ListEnds(v), curr : DOMAIN v \cup {NULL}, lesser : ListEnds(v), greater : ListEnds(v),
     at : {"entry", "loop", "lesser", "greater", "join"}]

Typed(v, nx, st, res) ==
    /\ Valued(v) /\ nx \in [DOMAIN v -> DOMAIN v \cup {NULL}]
    /\ st \in Seq(Frames(v)) /\ res \in Seq(ListEnds(v))

Sorting(v, nx, st, res) ==
    st # <<>> => res = <<>> /\ \E own : Owned(v, Len(st), st, nx, own)

IsDone(v, nx, st, res) ==
    st = <<>> => \E l \in ListEnds(v) : res = <<l>> /\ Links(nx, l, DOMAIN v, Bef(v))

LinkInv ==
    /\ Typed(vals, link, frames, result)
    /\ Sorting(vals, link, frames, result)
    /\ IsDone(vals, link, frames, result)

(* What the last call is and what is below it.                             *)
LEMMA LastCall ==
    ASSUME LinkConstants, LinkInv, frames # <<>>
    PROVE  \E n \in Nat : \E own :
              /\ n # 0 /\ n = Len(frames) /\ Owned(vals, n, frames, link, own)
              /\ Lists!Top = frames[1] /\ frames[1] \in Frames(vals) /\ result = <<>>
              /\ own[1] \in SUBSET DOMAIN vals /\ TopOK(vals, link, frames[1], own[1])
              /\ Tail(frames) \in Seq(Frames(vals)) /\ Len(Tail(frames)) = n - 1
              /\ \A k \in 1 .. n - 1 : Tail(frames)[k] = frames[k + 1]
  <1>1. frames \in Seq(Frames(vals))
    BY DEF LinkInv, Typed
  <1>2. Len(frames) \in Nat /\ Len(frames) # 0
    BY <1>1
  <1>3. result = <<>> /\ \E own : Owned(vals, Len(frames), frames, link, own)
    BY DEF LinkInv, Sorting
  <1>4. PICK own : Owned(vals, Len(frames), frames, link, own)
    BY <1>3
  <1>5. own[1] \in SUBSET DOMAIN vals /\ TopOK(vals, link, frames[1], own[1])
    BY <1>2, <1>4 DEF Owned, Nested
  <1>6. frames[1] \in Frames(vals) /\ Lists!Top = frames[1]
    BY <1>1, <1>2 DEF Lists!Top
  <1>7. /\ Tail(frames) \in Seq(Frames(vals)) /\ Len(Tail(frames)) = Len(frames) - 1
        /\ \A k \in 1 .. Len(frames) - 1 : Tail(frames)[k] = frames[k + 1]
    BY <1>1, <1>2, TailFacts
  <1> QED BY <1>2, <1>3, <1>4, <1>5, <1>6, <1>7

LEMMA OneInFront ==
    ASSUME NEW S, NEW c \in S, NEW s \in Seq(S)
    PROVE  /\ <<c>> \o s \in Seq(S) /\ Len(<<c>> \o s) = Len(s) + 1 /\ (<<c>> \o s)[1] = c
           /\ \A k \in 1 .. Len(s) : (<<c>> \o s)[k + 1] = s[k]
  <1>1. <<c>> \in Seq(S) /\ Len(<<c>>) = 1 /\ <<c>>[1] = c
    OBVIOUS
  <1>2. /\ <<c>> \o s \in Seq(S) /\ Len(<<c>> \o s) = 1 + Len(s) /\ Len(s) \in Nat
        /\ (<<c>> \o s)[1] = c
        /\ \A k \in 1 .. Len(s) : (<<c>> \o s)[1 + k] = s[k]
    BY <1>1, ConcatFacts
  <1> QED BY <1>2

LEMMA TwoInFront ==
    ASSUME NEW S, NEW c \in S, NEW d \in S, NEW s \in Seq(S)
    PROVE  /\ <<c, d>> \o s \in Seq(S) /\ Len(<<c, d>> \o s) = Len(s) + 2
           /\ (<<c, d>> \o s)[1] = c /\ (<<c, d>> \o s)[2] = d
           /\ \A k \in 1 .. Len(s) : (<<c, d>> \o s)[k + 2] = s[k]
  <1>1. <<c, d>> \in Seq(S) /\ Len(<<c, d>>) = 2 /\ <<c, d>>[1] = c /\ <<c, d>>[2] = d
    OBVIOUS
  <1>2. /\ <<c, d>> \o s \in Seq(S) /\ Len(<<c, d>> \o s) = 2 + Len(s) /\ Len(s) \in Nat
        /\ (<<c, d>> \o s)[1] = <<c, d>>[1] /\ (<<c, d>> \o s)[2] = <<c, d>>[2]
        /\ \A k \in 1 .. Len(s) : (<<c, d>> \o s)[2 + k] = s[k]
    BY <1>1, ConcatFacts
  <1> QED BY <1>1, <1>2

LEMMA ThirdOn ==
    ASSUME NEW S, NEW s \in Seq(S), Len(s) # 0, Len(s) # 1
    PROVE  /\ SubSeq(s, 3, Len(s)) \in Seq(S) /\ Len(SubSeq(s, 3, Len(s))) = Len(s) - 2
           /\ \A k \in 1 .. Len(s) - 2 : SubSeq(s, 3, Len(s))[k] = s[k + 2]
  <1>0. Len(s) \in Nat
    OBVIOUS
  <1>1. Len(s) - 2 \in Nat /\ 2 \in Nat /\ 2 + (Len(s) - 2) <= Len(s) /\ 2 + (Len(s) - 2) = Len(s) /\ 2 + 1 = 3
    <2>1. \A n \in Nat : n # 0 /\ n # 1 => n - 2 \in Nat /\ 2 + (n - 2) <= n /\ 2 + (n - 2) = n
      OBVIOUS
    <2> QED BY <1>0, <2>1
  <1>2. /\ SubSeq(s, 2 + 1, 2 + (Len(s) - 2)) \in Seq(S)
        /\ Len(SubSeq(s, 2 + 1, 2 + (Len(s) - 2))) = Len(s) - 2
        /\ \A m \in 1 .. Len(s) - 2 : SubSeq(s, 2 + 1, 2 + (Len(s) - 2))[m] = s[2 + m]
    BY <1>1, SubSeqFacts
  <1>3. \A m \in 1 .. Len(s) - 2 : 2 + m = m + 2
    OBVIOUS
  <1> QED BY <1>1, <1>2, <1>3

LEMMA CallGoesOnInv ==
    ASSUME LinkConstants, LinkInv, frames # <<>>, vals' = vals, result' = result,
           link' \in [DOMAIN vals -> DOMAIN vals \cup {NULL}],
           NEW n \in Nat, n # 0, n = Len(frames), NEW own, Owned(vals, n, frames, link, own),
           NEW g \in Frames(vals), frames' = <<g>> \o Tail(frames), TopOK(vals, link', g, own[1]),
           SameOutside(vals, link, link', own[1])
    PROVE  LinkInv'
  <1>1. Typed(vals, link, frames, result) /\ Sorting(vals, link, frames, result) /\ frames \in Seq(Frames(vals))
    BY DEF LinkInv, Typed
  <1>2. /\ Tail(frames) \in Seq(Frames(vals)) /\ Len(Tail(frames)) = n - 1
        /\ \A k \in 1 .. n - 1 : Tail(frames)[k] = frames[k + 1]
    BY <1>1, TailFacts
  <1>3. /\ frames' \in Seq(Frames(vals)) /\ Len(frames') = n /\ frames'[1] = g
        /\ \A k \in 1 .. n - 1 : frames'[k + 1] = Tail(frames)[k]
    BY <1>2, OneInFront
  <1>4. ASSUME NEW k \in 2 .. n PROVE frames'[k] = frames[k]
    <2>1. k - 1 \in 1 .. n - 1 /\ (k - 1) + 1 = k
      OBVIOUS
    <2> QED BY <1>2, <1>3, <2>1
  <1>5. Owned(vals, n, frames', link', own)
    <2>1. TopOK(vals, link', frames'[1], own[1])
      BY <1>3
    <2>2. SameBelow(n, frames', frames)
      BY <1>4 DEF SameBelow
    <2> QED BY <2>1, <2>2, CallGoesOn
  <1>6. Typed(vals, link', frames', result)
    BY <1>1, <1>3 DEF Typed
  <1>7. frames' # <<>>
    BY <1>3
  <1>8. Sorting(vals, link', frames', result)
    BY <1>1, <1>3, <1>5 DEF Sorting
  <1>9. IsDone(vals, link', frames', result)
    BY <1>7 DEF IsDone
  <1> QED BY <1>6, <1>8, <1>9 DEF LinkInv

LEMMA CallIsMadeInv ==
    ASSUME LinkConstants, LinkInv, frames # <<>>, vals' = vals, result' = result, link' = link,
           NEW n \in Nat, n # 0, n = Len(frames), NEW own, Owned(vals, n, frames, link, own),
           NEW d \in Frames(vals), NEW g \in Frames(vals), frames' = <<d, g>> \o Tail(frames),
           NEW T \in SUBSET own[1], T # own[1],
           TopOK(vals, link, d, T), Waits(vals, link, g, own[1], T)
    PROVE  LinkInv'
  <1>1. Typed(vals, link, frames, result) /\ Sorting(vals, link, frames, result) /\ frames \in Seq(Frames(vals))
        /\ Valued(vals)
    BY DEF LinkInv, Typed
  <1>2. /\ Tail(frames) \in Seq(Frames(vals)) /\ Len(Tail(frames)) = n - 1
        /\ \A k \in 1 .. n - 1 : Tail(frames)[k] = frames[k + 1]
    BY <1>1, TailFacts
  <1>3. /\ frames' \in Seq(Frames(vals)) /\ Len(frames') = n + 1 /\ frames'[1] = d /\ frames'[2] = g
        /\ \A k \in 1 .. n - 1 : frames'[k + 2] = Tail(frames)[k]
    <2>1. (n - 1) + 2 = n + 1
      OBVIOUS
    <2> QED BY <1>2, <2>1, TwoInFront
  <1>4. ASSUME NEW k \in 2 .. n PROVE frames'[k + 1] = frames[k]
    <2>1. k - 1 \in 1 .. n - 1 /\ (k - 1) + 1 = k /\ (k - 1) + 2 = k + 1
      OBVIOUS
    <2> QED BY <1>2, <1>3, <2>1
  <1>5. \E new : Owned(vals, n + 1, frames', link, new)
    <2>1. TopOK(vals, link, frames'[1], T) /\ Waits(vals, link, frames'[2], own[1], T)
      BY <1>3
    <2>2. OneBelow(n, frames', frames)
      BY <1>4 DEF OneBelow
    <2> QED BY <1>1, <2>1, <2>2, CallIsMade
  <1>6. Typed(vals, link, frames', result)
    BY <1>1, <1>3 DEF Typed
  <1>7. frames' # <<>>
    BY <1>3
  <1>8. Sorting(vals, link, frames', result)
    BY <1>1, <1>3, <1>5 DEF Sorting
  <1>9. IsDone(vals, link, frames', result)
    BY <1>7 DEF IsDone
  <1> QED BY <1>6, <1>8, <1>9 DEF LinkInv

LEMMA CallReturnsInv ==
    ASSUME LinkConstants, LinkInv, frames # <<>>, vals' = vals,
           link' \in [DOMAIN vals -> DOMAIN vals \cup {NULL}],
           NEW n \in Nat, n # 0, n = Len(frames), NEW own, Owned(vals, n, frames, link, own),
           NEW l \in ListEnds(vals), Lists!Return(l), Links(link', l, own[1], Bef(vals)),
           SameOutside(vals, link, link', own[1])
    PROVE  LinkInv'
  <1>1. Typed(vals, link, frames, result) /\ Sorting(vals, link, frames, result) /\ frames \in Seq(Frames(vals))
        /\ Valued(vals) /\ result \in Seq(ListEnds(vals))
    BY DEF LinkInv, Typed
  <1>2. CASE n = 1
    <2>1. frames' = <<>> /\ result' = <<l>>
      BY <1>2 DEF Lists!Return
    <2>2. own[1] = DOMAIN vals
      BY <1>2 DEF Owned, Nested
    <2>3. Typed(vals, link', frames', result')
      BY <1>1, <2>1 DEF Typed
    <2>4. Sorting(vals, link', frames', result')
      BY <2>1 DEF Sorting
    <2>5. IsDone(vals, link', frames', result')
      BY <2>1, <2>2 DEF IsDone
    <2> QED BY <2>3, <2>4, <2>5 DEF LinkInv
  <1>3. CASE n # 1
    <2> DEFINE caller == frames[2]
               finished == IF caller.at = "lesser" THEN [caller EXCEPT !.lesser = l]
                       ELSE [caller EXCEPT !.greater = l, !.at = "join"]
               low == SubSeq(frames, 3, Len(frames))
    <2>1. frames' = <<finished>> \o low /\ result' = result
      BY <1>3 DEF Lists!Return
    <2>2. caller \in Frames(vals)
      BY <1>1, <1>3
    <2>3. Waits(vals, link, caller, own[2], own[1])
      <3>1. 2 \in 2 .. n /\ 2 - 1 = 1
        BY <1>3
      <3> QED BY <3>1 DEF Owned
    <2>4. finished \in Frames(vals)
      BY <2>2 DEF Frames
    <2>5. /\ finished.list = caller.list
          /\ finished.lesser = IF caller.at = "lesser" THEN l ELSE caller.lesser
          /\ finished.greater = IF caller.at = "lesser" THEN caller.greater ELSE l
          /\ finished.at = IF caller.at = "lesser" THEN "lesser" ELSE "join"
      BY <2>2 DEF Frames
    <2>6. low \in Seq(Frames(vals)) /\ Len(low) = n - 2 /\ \A k \in 1 .. n - 2 : low[k] = frames[k + 2]
      BY <1>1, <1>3, ThirdOn
    <2> HIDE DEF caller, finished, low
    <2>7. /\ frames' \in Seq(Frames(vals)) /\ Len(frames') = n - 1 /\ frames'[1] = finished
          /\ \A k \in 1 .. n - 2 : frames'[k + 1] = low[k]
      <3>1. (n - 2) + 1 = n - 1
        OBVIOUS
      <3> QED BY <2>1, <2>4, <2>6, <3>1, OneInFront
    <2>8. ASSUME NEW k \in 2 .. n - 1 PROVE frames'[k] = frames[k + 1]
      <3>1. k - 1 \in 1 .. n - 2 /\ (k - 1) + 1 = k /\ (k - 1) + 2 = k + 1
        OBVIOUS
      <3> QED BY <2>6, <2>7, <3>1
    <2>9. TopOK(vals, link', frames'[1], own[2])
      <3>1. own[2] \in SUBSET DOMAIN vals
        BY <1>3 DEF Owned, Nested
      <3>2. \A m \in own[2] \ own[1] : link'[m] = link[m]
        BY <3>1 DEF SameOutside
      <3>3. TopOK(vals, link', finished, own[2])
        BY <2>3, <2>5, <3>2, ResultIsTaken
      <3> QED BY <2>7, <3>3
    <2> DEFINE new == [k \in 1 .. n - 1 |-> own[k + 1]]
    <2>10. Owned(vals, n - 1, frames', link', new)
      <3>1. OneAbove(n, frames', frames)
        BY <2>8 DEF OneAbove
      <3> QED BY <1>3, <2>9, <3>1, CallReturns
    <2> HIDE DEF new
    <2>11. Typed(vals, link', frames', result)
      BY <1>1, <2>7 DEF Typed
    <2>12. frames' # <<>>
      BY <1>3, <2>7
    <2>13. Sorting(vals, link', frames', result)
      BY <1>1, <2>7, <2>10 DEF Sorting
    <2>14. IsDone(vals, link', frames', result)
      BY <2>12 DEF IsDone
    <2> QED BY <2>1, <2>11, <2>13, <2>14 DEF LinkInv
  <1> QED BY <1>2, <1>3

LEMMA ListStarts ==
    ASSUME LinkConstants, Lists!Init PROVE LinkInv
  <1>1. PICK n \in 0 .. MaxNodes :
          /\ vals \in [1 .. n -> Value]
          /\ link = [k \in 1 .. n |-> IF k < n THEN k + 1 ELSE NULL]
          /\ frames = <<Lists!Call(IF n = 0 THEN Lists!Empty ELSE [head |-> 1, tail |-> n])>>
          /\ result = <<>>
    BY DEF Lists!Init
  <1> DEFINE l == IF n = 0 THEN Lists!Empty ELSE [head |-> 1, tail |-> n]
  <1>2. n \in Nat /\ DOMAIN vals = 1 .. n /\ Valued(vals) /\ NULL \notin Nat
    BY <1>1 DEF Valued, LinkConstants
  <1>3. link \in [DOMAIN vals -> DOMAIN vals \cup {NULL}]
    <2>1. \A k \in 1 .. n : k < n => k + 1 \in 1 .. n
      BY <1>2
    <2> QED BY <1>1, <1>2, <2>1
  <1>4. l \in ListEnds(vals)
    <2>1. CASE n = 0
      BY <2>1 DEF ListEnds, Lists!Empty
    <2>2. CASE n # 0
      <3>1. 1 \in DOMAIN vals /\ n \in DOMAIN vals
        BY <1>2, <2>2
      <3> QED BY <2>2, <3>1 DEF ListEnds
    <2> QED BY <2>1, <2>2
  <1>5. Lists!Empty \in ListEnds(vals) /\ Lists!Empty.head = NULL /\ Lists!Empty.tail = NULL
    BY DEF ListEnds, Lists!Empty
  <1>6. Links(link, l, DOMAIN vals, Asc(vals))
    <2>1. CASE n = 0
      <3>1. DOMAIN vals = {}
        BY <1>2, <2>1
      <3>2. l.head = NULL /\ l.tail = NULL
        BY <1>5, <2>1
      <3> QED BY <3>1, <3>2, EmptyLinks
    <2>2. CASE n # 0
      <3>1. l.head = 1 /\ l.tail = n /\ 1 \in DOMAIN vals /\ n \in DOMAIN vals /\ link[n] = NULL
        BY <1>1, <1>2, <2>2
      <3>2. ASSUME NEW m \in DOMAIN vals PROVE m = 1 \/ <<1, m>> \in Asc(vals)
        <4>1. m = 1 \/ 1 < m
          BY <1>2
        <4> QED BY <3>1, <4>1, AscPairs
      <3>3. ASSUME NEW m \in DOMAIN vals, m # n
            PROVE  /\ <<m, n>> \in Asc(vals)
                   /\ link[m] \in DOMAIN vals /\ <<m, link[m]>> \in Asc(vals)
                   /\ \A x \in DOMAIN vals : <<m, x>> \in Asc(vals) => x = link[m] \/ <<link[m], x>> \in Asc(vals)
        <4>1. m \in 1 .. n /\ m < n /\ m + 1 \in DOMAIN vals /\ m < m + 1
          BY <1>2, <3>3
        <4>2. link[m] = m + 1
          BY <1>1, <4>1
        <4>3. <<m, n>> \in Asc(vals) /\ <<m, m + 1>> \in Asc(vals)
          BY <3>1, <4>1, AscPairs
        <4>4. ASSUME NEW x \in DOMAIN vals, <<m, x>> \in Asc(vals)
              PROVE  x = m + 1 \/ <<m + 1, x>> \in Asc(vals)
          <5>1. m < x
            BY <4>4, AscPairs
          <5>2. x = m + 1 \/ m + 1 < x
            BY <1>2, <4>1, <5>1
          <5> QED BY <4>1, <5>2, AscPairs
        <4> QED BY <4>1, <4>2, <4>3, <4>4
      <3> HIDE DEF l
      <3> QED BY <3>1, <3>2, <3>3 DEF Links
    <2> QED BY <2>1, <2>2
  <1> DEFINE c == Lists!Call(l)
  <1>7. c \in Frames(vals)
    BY <1>4, <1>5 DEF Lists!Call, Frames
  <1>8. /\ c.at = "entry" /\ c.list = l /\ c.lesser.head = NULL /\ c.lesser.tail = NULL
        /\ c.greater.head = NULL /\ c.greater.tail = NULL
    BY <1>5 DEF Lists!Call
  <1>9. frames = <<c>>
    BY <1>1
  <1> HIDE DEF l, c
  <1>10. frames \in Seq(Frames(vals)) /\ Len(frames) = 1 /\ frames[1] = c /\ frames # <<>>
    BY <1>7, <1>9
  <1>11. TopOK(vals, link, c, DOMAIN vals)
    BY <1>6, <1>8 DEF TopOK
  <1> DEFINE own == [k \in 1 .. 1 |-> DOMAIN vals]
  <1>12. own \in [1 .. 1 -> SUBSET DOMAIN vals] /\ own[1] = DOMAIN vals
    OBVIOUS
  <1> HIDE DEF own
  <1>13. Owned(vals, 1, frames, link, own)
    <2>1. \A a, b \in 1 .. 1 : a <= b => own[a] \subseteq own[b]
      OBVIOUS
    <2>2. ASSUME NEW k \in 1 .. 1 PROVE Cardinality(own[k]) + 1 - k <= Cardinality(DOMAIN vals)
      <3>1. Cardinality(DOMAIN vals) \in Nat /\ k = 1
        BY <1>2, ValuedNodes
      <3> QED BY <1>12, <3>1
    <2>3. Nested(vals, 1, own)
      BY <1>12, <2>1, <2>2 DEF Nested
    <2> QED BY <1>10, <1>11, <1>12, <2>3 DEF Owned
  <1>14. Typed(vals, link, frames, result)
    BY <1>1, <1>2, <1>3, <1>10 DEF Typed
  <1>15. Sorting(vals, link, frames, result)
    BY <1>1, <1>10, <1>13 DEF Sorting
  <1>16. IsDone(vals, link, frames, result)
    BY <1>10 DEF IsDone
  <1> QED BY <1>14, <1>15, <1>16 DEF LinkInv

LEMMA ListSteps ==
    ASSUME LinkConstants, LinkInv, Lists!Step PROVE LinkInv'
  <1>1. frames # <<>>
    BY DEF Lists!Step, Lists!ShortList, Lists!Partition, Lists!Move, Lists!SortLesser,
           Lists!SortGreater, Lists!Join
  <1>2a. PICK n \in Nat : \E own :
          /\ n # 0 /\ n = Len(frames) /\ Owned(vals, n, frames, link, own)
          /\ Lists!Top = frames[1] /\ frames[1] \in Frames(vals) /\ result = <<>>
          /\ own[1] \in SUBSET DOMAIN vals /\ TopOK(vals, link, frames[1], own[1])
          /\ Tail(frames) \in Seq(Frames(vals)) /\ Len(Tail(frames)) = n - 1
          /\ \A k \in 1 .. n - 1 : Tail(frames)[k] = frames[k + 1]
    BY <1>1, LastCall
  <1>2. PICK own :
          /\ n # 0 /\ n = Len(frames) /\ Owned(vals, n, frames, link, own)
          /\ Lists!Top = frames[1] /\ frames[1] \in Frames(vals) /\ result = <<>>
          /\ own[1] \in SUBSET DOMAIN vals /\ TopOK(vals, link, frames[1], own[1])
          /\ Tail(frames) \in Seq(Frames(vals)) /\ Len(Tail(frames)) = n - 1
          /\ \A k \in 1 .. n - 1 : Tail(frames)[k] = frames[k + 1]
    BY <1>2a
  <1> DEFINE f == frames[1]
             p == f.list.head
             S == own[1]
  <1>3. /\ f \in Frames(vals) /\ Lists!Top = f /\ S \in SUBSET DOMAIN vals /\ TopOK(vals, link, f, S)
        /\ n # 0 /\ n = Len(frames) /\ Owned(vals, n, frames, link, own)
    BY <1>2
  <1>4. /\ Valued(vals) /\ link \in [DOMAIN vals -> DOMAIN vals \cup {NULL}]
        /\ NULL \notin DOMAIN vals /\ DOMAIN link = DOMAIN vals
    BY ValuedNodes DEF LinkInv, Typed
  <1>5. /\ f.list \in ListEnds(vals) /\ f.lesser \in ListEnds(vals) /\ f.greater \in ListEnds(vals)
        /\ f.curr \in DOMAIN vals \cup {NULL} /\ f.list.head \in DOMAIN vals \cup {NULL}
        /\ f.list.tail \in DOMAIN vals \cup {NULL}
        /\ f.lesser.head \in DOMAIN vals \cup {NULL} /\ f.lesser.tail \in DOMAIN vals \cup {NULL}
        /\ f.greater.head \in DOMAIN vals \cup {NULL} /\ f.greater.tail \in DOMAIN vals \cup {NULL}
    BY <1>3 DEF Frames, ListEnds
  <1>6. Lists!pivot = p
    BY <1>3 DEF Lists!pivot
  <1> HIDE DEF f, p, S
  <1>7. p = f.list.head /\ S = own[1]
    BY DEF p, S
  <1>10. CASE Lists!ShortList
    <2>1. f.at = "entry" /\ p \in Lists!AtMostOne /\ Lists!Return(f.list) /\ vals' = vals /\ link' = link
      BY <1>3, <1>6, <1>10 DEF Lists!ShortList
    <2>2. p = NULL \/ link[p] = NULL
      BY <2>1 DEF Lists!AtMostOne
    <2>3. Links(link, f.list, S, Asc(vals))
      BY <1>3, <2>1 DEF TopOK
    <2>4. Links(link, f.list, S, Bef(vals))
      BY <1>3, <1>4, <1>7, <2>2, <2>3, ShortIsSorted
    <2>5. SameOutside(vals, link, link', S)
      BY <2>1 DEF SameOutside
    <2>6. link' \in [DOMAIN vals -> DOMAIN vals \cup {NULL}] /\ Links(link', f.list, S, Bef(vals))
      BY <1>4, <2>1, <2>4
    <2> QED BY <1>1, <1>3, <1>5, <1>7, <2>1, <2>5, <2>6, CallReturnsInv
  <1>11. CASE Lists!Partition
    <2> DEFINE g == [f EXCEPT !.curr = link[p], !.at = "loop"]
    <2>1. /\ f.at = "entry" /\ p \notin Lists!AtMostOne /\ frames' = <<g>> \o Tail(frames)
          /\ vals' = vals /\ link' = link /\ result' = result
      BY <1>3, <1>6, <1>11 DEF Lists!Partition, Lists!Replace
    <2>2. p # NULL /\ p \in DOMAIN vals
      BY <1>5, <1>7, <2>1 DEF Lists!AtMostOne
    <2>3. g \in Frames(vals)
      BY <1>3, <1>4, <2>2 DEF Frames
    <2>4. g.list = f.list /\ g.curr = link[f.list.head] /\ g.at = "loop" /\ g.lesser = f.lesser
          /\ g.greater = f.greater
      BY <1>3, <1>7 DEF Frames
    <2> HIDE DEF g
    <2>5. TopOK(vals, link, g, S)
      BY <1>3, <1>4, <1>7, <2>1, <2>2, <2>4, LoopBegins
    <2>6. SameOutside(vals, link, link', S)
      BY <2>1 DEF SameOutside
    <2>7. link' \in [DOMAIN vals -> DOMAIN vals \cup {NULL}] /\ TopOK(vals, link', g, S)
      BY <1>4, <2>1, <2>5
    <2> QED BY <1>1, <1>3, <1>7, <2>1, <2>3, <2>6, <2>7, CallGoesOnInv
  <1>12. CASE Lists!Move
    <2> DEFINE c == f.curr
               onward == [f EXCEPT !.curr = link[c]]
    <2>1. f.at = "loop" /\ c # NULL /\ vals' = vals /\ result' = result /\ c \in DOMAIN vals
      BY <1>3, <1>5, <1>12 DEF Lists!Move
    <2>2. PICK l, t, g :
            /\ l = IF vals[c] < vals[p] THEN f.lesser ELSE f.greater
            /\ t = Lists!Appended(l, c)
            /\ g = IF vals[c] < vals[p] THEN [onward EXCEPT !.lesser = t] ELSE [onward EXCEPT !.greater = t]
            /\ frames' = <<g>> \o Tail(frames) /\ link' = Lists!Linked(l, c)
      <3>1. CASE vals[c] < vals[p]
        <4>1. /\ frames' = <<[onward EXCEPT !.lesser = Lists!Appended(onward.lesser, c)]>> \o Tail(frames)
              /\ link' = Lists!Linked(f.lesser, c)
          BY <1>3, <1>6, <1>12, <3>1 DEF Lists!Move, Lists!Replace
        <4>2. onward.lesser = f.lesser
          BY <1>3 DEF Frames
        <4> QED BY <3>1, <4>1, <4>2
      <3>2. CASE ~ (vals[c] < vals[p])
        <4>1. /\ frames' = <<[onward EXCEPT !.greater = Lists!Appended(onward.greater, c)]>> \o Tail(frames)
              /\ link' = Lists!Linked(f.greater, c)
          BY <1>3, <1>6, <1>12, <3>2 DEF Lists!Move, Lists!Replace
        <4>2. onward.greater = f.greater
          BY <1>3 DEF Frames
        <4> QED BY <3>2, <4>1, <4>2
      <3> QED BY <3>1, <3>2
    <2>3. l \in ListEnds(vals) /\ l.head \in DOMAIN vals \cup {NULL} /\ l.tail \in DOMAIN vals \cup {NULL}
      BY <1>5, <2>2
    <2>4. t.tail = c /\ t.head = IF l.tail = NULL THEN c ELSE l.head
      BY <2>2 DEF Lists!Appended
    <2>5. t \in ListEnds(vals)
      BY <2>1, <2>2, <2>3 DEF Lists!Appended, ListEnds
    <2>6. onward \in Frames(vals) /\ onward.list = f.list /\ onward.at = "loop" /\ onward.curr = link[c]
          /\ onward.lesser = f.lesser /\ onward.greater = f.greater
      BY <1>3, <1>4, <2>1 DEF Frames
    <2> HIDE DEF onward
    <2>7. /\ g \in Frames(vals) /\ g.list = f.list /\ g.at = "loop" /\ g.curr = link[c]
          /\ g.lesser = IF vals[c] < vals[p] THEN t ELSE f.lesser
          /\ g.greater = IF vals[c] < vals[p] THEN f.greater ELSE t
      BY <2>2, <2>5, <2>6 DEF Frames
    <2>8. link' \in [DOMAIN vals -> DOMAIN vals \cup {NULL}]
      BY <1>4, <2>1, <2>2 DEF Lists!Linked
    <2>9. GoesBehind(vals, link, link', c, l)
      BY <1>4, <2>2 DEF Lists!Linked, GoesBehind
    <2>10. TopOK(vals, link', g, S) /\ SameOutside(vals, link, link', S)
      <3>1. l = IF vals[c] < vals[p] THEN f.lesser ELSE f.greater
        BY <2>2
      <3>2. TakesNode(vals, link, f, g, l, t)
        BY <1>7, <2>4, <2>7, <3>1 DEF TakesNode
      <3> QED BY <1>3, <1>4, <2>1, <2>9, <3>2, CallMoves
    <2> QED BY <1>1, <1>3, <1>7, <2>1, <2>2, <2>7, <2>8, <2>10, CallGoesOnInv
  <1>13. CASE Lists!SortLesser
    <2> DEFINE g == [f EXCEPT !.at = "lesser"]
               d == Lists!Call(f.lesser)
               T == Smaller(vals, S, f.list.head)
    <2>1. /\ f.at = "loop" /\ f.curr = NULL /\ frames' = <<d, g>> \o Tail(frames)
          /\ vals' = vals /\ link' = link /\ result' = result
      BY <1>3, <1>13 DEF Lists!SortLesser
    <2>2. g \in Frames(vals) /\ g.list = f.list /\ g.at = "lesser" /\ g.greater = f.greater
      BY <1>3 DEF Frames
    <2>3. /\ d \in Frames(vals) /\ d.list = f.lesser /\ d.at = "entry"
          /\ d.lesser.head = NULL /\ d.lesser.tail = NULL /\ d.greater.head = NULL /\ d.greater.tail = NULL
      BY <1>5 DEF Lists!Call, Lists!Empty, Frames, ListEnds
    <2> HIDE DEF g, d, T
    <2>4. T = Smaller(vals, S, f.list.head)
      BY DEF T
    <2>5. T \in SUBSET S /\ T # S /\ TopOK(vals, link, d, T) /\ Waits(vals, link, g, S, T)
      BY <1>3, <1>4, <2>1, <2>2, <2>3, <2>4, LesserIsCalled
    <2> QED BY <1>1, <1>3, <1>7, <2>1, <2>2, <2>3, <2>5, CallIsMadeInv
  <1>14. CASE Lists!SortGreater
    <2> DEFINE g == [f EXCEPT !.at = "greater"]
               d == Lists!Call(f.greater)
               T == Others(vals, S, f.list.head)
    <2>1. /\ f.at = "lesser" /\ frames' = <<d, g>> \o Tail(frames)
          /\ vals' = vals /\ link' = link /\ result' = result
      BY <1>3, <1>14 DEF Lists!SortGreater
    <2>2. g \in Frames(vals) /\ g.list = f.list /\ g.at = "greater" /\ g.lesser = f.lesser
      BY <1>3 DEF Frames
    <2>3. /\ d \in Frames(vals) /\ d.list = f.greater /\ d.at = "entry"
          /\ d.lesser.head = NULL /\ d.lesser.tail = NULL /\ d.greater.head = NULL /\ d.greater.tail = NULL
      BY <1>5 DEF Lists!Call, Lists!Empty, Frames, ListEnds
    <2> HIDE DEF g, d, T
    <2>4. T = Others(vals, S, f.list.head)
      BY DEF T
    <2>5. T \in SUBSET S /\ T # S /\ TopOK(vals, link, d, T) /\ Waits(vals, link, g, S, T)
      BY <1>3, <1>4, <2>1, <2>2, <2>3, <2>4, GreaterIsCalled
    <2> QED BY <1>1, <1>3, <1>7, <2>1, <2>2, <2>3, <2>5, CallIsMadeInv
  <1>15. CASE Lists!Join
    <2> DEFINE l == [head |-> IF f.lesser.head # NULL THEN f.lesser.head ELSE p,
                     tail |-> Lists!NewTail(f)]
    <2>1. /\ f.at = "join" /\ Lists!Return(l) /\ vals' = vals
          /\ link' = [m \in DOMAIN link |-> IF m = p THEN f.greater.head
                                            ELSE IF m = f.lesser.tail THEN p ELSE link[m]]
      BY <1>3, <1>6, <1>15 DEF Lists!Join
    <2>2. p \in S /\ p \in DOMAIN vals
      BY <1>3, <1>7, <2>1 DEF TopOK, Headed
    <2>3. l.head = IF f.lesser.head # NULL THEN f.lesser.head ELSE p
      OBVIOUS
    <2>4. l.tail = IF f.greater.tail # NULL THEN f.greater.tail ELSE p
      BY <1>7 DEF Lists!NewTail
    <2>5. l \in ListEnds(vals)
      BY <1>5, <2>2, <2>3, <2>4 DEF ListEnds
    <2> HIDE DEF l
    <2>6. link' \in [DOMAIN vals -> DOMAIN vals \cup {NULL}]
      BY <1>4, <1>5, <2>1, <2>2
    <2>7. Joins(vals, link, link', f)
      BY <1>4, <1>7, <2>1 DEF Joins
    <2>8. Links(link', l, S, Bef(vals)) /\ SameOutside(vals, link, link', S)
      BY <1>3, <1>4, <1>7, <2>1, <2>3, <2>4, <2>7, PartsAreJoined
    <2> QED BY <1>1, <1>3, <1>7, <2>1, <2>5, <2>6, <2>8, CallReturnsInv
  <1> QED BY <1>10, <1>11, <1>12, <1>13, <1>14, <1>15 DEF Lists!Step

LEMMA ListPromises ==
    ASSUME LinkConstants, LinkInv PROVE Lists!TypeOK /\ Lists!ListIsSorted
  <1>1. Typed(vals, link, frames, result) /\ Sorting(vals, link, frames, result) /\ IsDone(vals, link, frames, result)
    BY DEF LinkInv
  <1>2. /\ Valued(vals) /\ link \in [DOMAIN vals -> DOMAIN vals \cup {NULL}]
        /\ frames \in Seq(Frames(vals)) /\ result \in Seq(ListEnds(vals)) /\ DOMAIN link = DOMAIN vals
    BY <1>1 DEF Typed
  <1>3. /\ DOMAIN vals \in SUBSET Nat /\ NULL \notin DOMAIN vals /\ \A m \in DOMAIN vals : vals[m] \in Int
        /\ Cardinality(DOMAIN vals) \in 0 .. MaxNodes /\ IsFiniteSet(DOMAIN vals) /\ MaxNodes \in Nat
    BY <1>2, ValuedNodes DEF LinkConstants
  <1>4. Lists!TypeOK
    <2>1. vals \in [DOMAIN link -> Value]
      BY <1>2 DEF Valued
    <2>2. Len(frames) <= MaxNodes + 1
      <3>1. CASE frames = <<>>
        BY <1>3, <3>1
      <3>2. CASE frames # <<>>
        <4>1. PICK own : Owned(vals, Len(frames), frames, link, own)
          BY <1>1, <3>2 DEF Sorting
        <4>2. PICK n \in Nat : n = Len(frames) /\ n # 0
          BY <1>2, <3>2
        <4>3. Nested(vals, n, own)
          BY <4>1, <4>2 DEF Owned
        <4>4. own[1] \in SUBSET DOMAIN vals /\ Cardinality(own[1]) + n - 1 <= Cardinality(DOMAIN vals)
          BY <4>2, <4>3 DEF Nested
        <4>5. Cardinality(own[1]) \in Nat
          BY <1>3, <4>4, FS_Subset, FS_CardinalityType
        <4> QED BY <1>3, <4>2, <4>4, <4>5
      <3> QED BY <3>1, <3>2
    <2>3. Len(result) <= 1
      <3>1. CASE frames = <<>>
        <4>1. PICK l \in ListEnds(vals) : result = <<l>>
          BY <1>1, <3>1 DEF IsDone
        <4> QED BY <4>1
      <3>2. CASE frames # <<>>
        BY <1>1, <3>2 DEF Sorting
      <3> QED BY <3>1, <3>2
    <2> QED BY <1>2, <2>1, <2>2, <2>3 DEF Lists!TypeOK
  <1>5. Lists!ListIsSorted
    <2> SUFFICES ASSUME frames = <<>> PROVE Lists!ListIsSorted
      BY DEF Lists!ListIsSorted, Lists!Ended
    <2> DEFINE N == DOMAIN vals
    <2>1. PICK l \in ListEnds(vals) : result = <<l>> /\ Links(link, l, N, Bef(vals))
      BY <1>1 DEF IsDone
    <2>2. l = [head |-> l.head, tail |-> l.tail]
      BY DEF ListEnds
    <2>3. ASSUME NEW m \in N, NEW x \in N PROVE Lists!Before(m, x) <=> <<m, x>> \in Bef(vals)
      BY <2>3, BefPairs DEF Lists!Before
    <2>4. Orders(Bef(vals), N)
      BY <1>2, TwoOrders
    <2>5. CASE N = {}
      <3>1. l.head = NULL /\ l.tail = NULL
        BY <2>1, <2>5 DEF Links
      <3>2. result = <<Lists!Empty>>
        BY <2>1, <2>2, <3>1 DEF Lists!Empty
      <3> QED BY <2>5, <3>2 DEF Lists!ListIsSorted
    <2>6. CASE N # {}
      <3>1. /\ l.head \in N /\ l.tail \in N /\ link[l.tail] = NULL
            /\ \A m \in N : m = l.head \/ <<l.head, m>> \in Bef(vals)
            /\ \A m \in N : \/ m = l.tail
                            \/ /\ <<m, l.tail>> \in Bef(vals)
                               /\ link[m] \in N /\ <<m, link[m]>> \in Bef(vals)
                               /\ \A x \in N : <<m, x>> \in Bef(vals) =>
                                                  x = link[m] \/ <<link[m], x>> \in Bef(vals)
        BY <2>1, <2>6 DEF Links
      <3>2. \A m, x \in N : <<m, x>> \in Bef(vals) => <<x, m>> \notin Bef(vals)
        BY <2>4 DEF Orders
      <3>3. \A m \in N : ~Lists!Before(m, l.head) /\ ~Lists!Before(l.tail, m)
        <4>1. \A m \in N : <<m, l.head>> \notin Bef(vals) /\ <<l.tail, m>> \notin Bef(vals)
          BY <2>4, <3>1, <3>2 DEF Orders
        <4> QED BY <2>3, <3>1, <4>1
      <3>4. ASSUME NEW m \in N, link[m] = NULL PROVE \A k \in N : ~Lists!Before(m, k)
        <4>1. m = l.tail
          BY <1>3, <3>1, <3>4
        <4> QED BY <3>3, <4>1
      <3>5. ASSUME NEW m \in N, link[m] # NULL PROVE link[m] \in N /\ Lists!Follows(m, link[m])
        <4>1. /\ link[m] \in N /\ <<m, link[m]>> \in Bef(vals)
              /\ \A x \in N : <<m, x>> \in Bef(vals) => x = link[m] \/ <<link[m], x>> \in Bef(vals)
          BY <3>1, <3>5
        <4>2. ASSUME NEW k \in N, Lists!Before(m, k), Lists!Before(k, link[m]) PROVE FALSE
          <5>1. <<m, k>> \in Bef(vals) /\ <<k, link[m]>> \in Bef(vals)
            BY <2>3, <4>1, <4>2
          <5> QED BY <2>4, <3>2, <4>1, <5>1 DEF Orders
        <4> QED BY <2>3, <4>1, <4>2 DEF Lists!Follows
      <3>6. \E h, t \in N :
              /\ result = <<[head |-> h, tail |-> t]>>
              /\ link[t] = NULL
              /\ \A m \in N : ~Lists!Before(m, h) /\ ~Lists!Before(t, m)
        BY <2>1, <2>2, <3>1, <3>3
      <3> QED BY <2>6, <3>4, <3>5, <3>6 DEF Lists!ListIsSorted
    <2> QED BY <2>5, <2>6
  <1> QED BY <1>4, <1>5

(* linked.c: whatever the list, the nodes end up linked in the order of a  *)
(* stable sort, head and tail the first and the last of them, and the      *)
(* recursion goes no deeper than the list is long.                         *)
THEOREM ListIsAlwaysSorted ==
    LinkConstants /\ Lists!Spec => [](Lists!TypeOK /\ Lists!ListIsSorted)
  <1> SUFFICES ASSUME LinkConstants PROVE Lists!Spec => [](Lists!TypeOK /\ Lists!ListIsSorted)
    OBVIOUS
  <1>1. Lists!Init => LinkInv
    BY ListStarts
  <1>2. LinkInv /\ [Lists!Next]_(Lists!vars) => LinkInv'
    <2> SUFFICES ASSUME LinkInv, [Lists!Next]_(Lists!vars) PROVE LinkInv'
      OBVIOUS
    <2>1. CASE Lists!Step
      BY <2>1, ListSteps
    <2>2. CASE UNCHANGED Lists!vars
      BY <2>2 DEF Lists!vars, LinkInv
    <2> QED BY <2>1, <2>2 DEF Lists!Next
  <1>3. LinkInv => Lists!TypeOK /\ Lists!ListIsSorted
    BY ListPromises
  <1> QED BY <1>1, <1>2, <1>3, PTL DEF Lists!Spec

-----------------------------------------------------------------------------
(* The exchange sort of a mapped file.                                     *)
SortConstants ==
    /\ Distance \subseteq Int
    /\ MaxRecords \in Nat /\ SIZE_MAX \in Nat /\ MaxRecords <= SIZE_MAX

Size == Len(distance)

(* A file of n records holds each once, or has lost at most one.           *)
HoldsAll(p) == \A a, b \in 1 .. Size : p[a] = p[b] => a = b
HoldsAllButOne(p) == \A a, b \in (1 .. Size) \ FirstOf(p, Size) : a = b

(* The file once the record that is in tmp is back.                        *)
PutBack == IF step = "copied" THEN [plist EXCEPT ![inner + 1] = tmp] ELSE plist

(* The first m records are in their places, and record k of the file is    *)
(* not behind those from the next one up to m.                             *)
Placed(p, m) == \A a, b \in 1 .. Size : a <= m /\ a < b => distance[p[a]] <= distance[p[b]]
LeastUpTo(p, k, m) == \A b \in 1 .. Size : k < b /\ b <= m => distance[p[k]] <= distance[p[b]]

FileShape ==
    /\ Size \in 0 .. MaxRecords
    /\ distance \in [1 .. Size -> Distance \cup {NaN}]
    /\ plist \in [1 .. Size -> 1 .. Size]
    /\ tmp \in 0 .. Size
    /\ step \in {"compare", "exchange", "copied", "done", "killed"}
    /\ outer \in 0 .. SIZE_MAX /\ inner \in 1 .. SIZE_MAX + 1 /\ outer < inner
    /\ Size # 0 => outer < Size /\ inner <= Size
    /\ Size = 0 => inner = outer + 1
    /\ step \in {"exchange", "copied"} => inner < Size
    /\ step = "copied" => tmp # 0
InOrder ==
    /\ Placed(PutBack, outer)
    /\ step \in {"compare", "exchange"} => LeastUpTo(PutBack, outer + 1, inner)
    /\ step = "exchange" => distance[plist[inner + 1]] < distance[plist[outer + 1]]
    /\ step = "copied" => LeastUpTo(PutBack, outer + 1, inner + 1)
    /\ step = "done" => outer >= Size - 1
AllNumbers == \A k \in 1 .. Size : distance[k] # NaN

MappedInv ==
    /\ FileShape
    /\ HoldsAllButOne(plist)
    /\ step # "killed" => HoldsAll(PutBack) /\ (AllNumbers => InOrder)

LEMMA AllAreHeld ==
    ASSUME NEW n \in Nat, NEW p \in [1 .. n -> 1 .. n], \A a, b \in 1 .. n : p[a] = p[b] => a = b
    PROVE  FirstOf(p, n) = 1 .. n
  <1>1. Cardinality(FirstOf(p, n)) = n
    BY InjectiveCounts
  <1>2. FirstOf(p, n) \subseteq 1 .. n
    BY DEF FirstOf
  <1>3. IsFiniteSet(1 .. n) /\ Cardinality(1 .. n) = n
    BY FS_Interval
  <1> HIDE DEF FirstOf
  <1> QED BY <1>1, <1>2, <1>3, FS_Subset

LEMMA OneIsLost ==
    ASSUME NEW S, \A a, b \in S : a = b
    PROVE  Cardinality(S) <= 1
  <1>1. CASE S = {}
    BY <1>1, FS_EmptySet
  <1>2. CASE S # {}
    <2>1. PICK a : a \in S
      BY <1>2
    <2>2. S = {a}
      BY <2>1
    <2> QED BY <2>2, FS_Singleton
  <1> QED BY <1>1, <1>2

LEMMA FileStart == SortConstants /\ Mapped!Init => MappedInv
  <1> SUFFICES ASSUME SortConstants, Mapped!Init PROVE MappedInv
    OBVIOUS
  <1>1. PICK n \in 0 .. MaxRecords : distance \in [1 .. n -> Distance \cup {NaN}]
    BY DEF Mapped!Init
  <1>2. Size = n /\ n \in Nat
    BY <1>1 DEF Size, SortConstants
  <1>3. /\ plist = [k \in 1 .. Size |-> k] /\ outer = 0 /\ inner = 1 /\ tmp = 0 /\ step = "compare"
    BY <1>1, <1>2 DEF Mapped!Init
  <1>4. PutBack = plist
    BY <1>3 DEF PutBack
  <1>5. HoldsAll(plist)
    BY <1>3 DEF HoldsAll
  <1>6. HoldsAllButOne(plist)
    BY <1>3 DEF HoldsAllButOne, FirstOf
  <1>7. Placed(plist, outer) /\ LeastUpTo(plist, outer + 1, inner)
    BY <1>2, <1>3 DEF Placed, LeastUpTo
  <1>8. FileShape
    BY <1>1, <1>2, <1>3 DEF FileShape, SortConstants
  <1>9. InOrder
    BY <1>3, <1>4, <1>7 DEF InOrder
  <1> QED BY <1>4, <1>5, <1>6, <1>8, <1>9 DEF MappedInv

(* What the invariant says of the numbers the steps work with.             *)
LEMMA FileFacts ==
    ASSUME SortConstants, FileShape
    PROVE  /\ Size \in Nat /\ Size <= SIZE_MAX /\ SIZE_MAX \in Nat /\ outer \in Nat /\ inner \in Nat
           /\ Mapped!numPOIs = Size /\ DOMAIN plist = 1 .. Size /\ DOMAIN distance = 1 .. Size
           /\ Mapped!Laps \in Nat /\ Mapped!Laps <= SIZE_MAX
           /\ (Size # 0 => Mapped!Laps = Size - 1) /\ (Size = 0 => Mapped!Laps = SIZE_MAX)
           /\ AllNumbers => \A k \in 1 .. Size : distance[k] \in Int
           /\ step \in {"exchange", "copied"} => outer < Size /\ inner < Size
           /\ outer < inner /\ outer <= SIZE_MAX /\ inner <= SIZE_MAX + 1
           /\ (Size # 0 => outer < Size /\ inner <= Size) /\ (Size = 0 => inner = outer + 1)
           /\ step = "copied" => tmp \in 1 .. Size
           /\ plist \in [1 .. Size -> 1 .. Size]
  <1>1. Size \in Nat /\ Size <= SIZE_MAX /\ SIZE_MAX \in Nat /\ outer \in Nat /\ inner \in Nat
    BY DEF SortConstants, FileShape
  <1>2. DOMAIN plist = 1 .. Size /\ DOMAIN distance = 1 .. Size /\ plist \in Seq(1 .. Size)
    BY <1>1 DEF FileShape
  <1>3. Mapped!numPOIs = Size
    BY <1>1, <1>2 DEF Mapped!numPOIs
  <1>4. /\ Mapped!Laps \in Nat /\ Mapped!Laps <= SIZE_MAX
        /\ (Size # 0 => Mapped!Laps = Size - 1) /\ (Size = 0 => Mapped!Laps = SIZE_MAX)
    BY <1>1, <1>3 DEF Mapped!Laps
  <1>5. AllNumbers => \A k \in 1 .. Size : distance[k] \in Int
    BY DEF SortConstants, FileShape, AllNumbers
  <1>6. step \in {"exchange", "copied"} => outer < Size /\ inner < Size
    BY <1>1 DEF FileShape
  <1>7. /\ outer < inner /\ outer <= SIZE_MAX /\ inner <= SIZE_MAX + 1
        /\ (Size # 0 => outer < Size /\ inner <= Size) /\ (Size = 0 => inner = outer + 1)
        /\ plist \in [1 .. Size -> 1 .. Size]
    BY <1>1 DEF FileShape
  <1>8. step = "copied" => tmp \in 1 .. Size
    BY <1>1 DEF FileShape
  <1> QED BY <1>1, <1>2, <1>3, <1>4, <1>5, <1>6, <1>7, <1>8

LEMMA CompareKeepsMappedInv ==
    ASSUME SortConstants, MappedInv, Mapped!Compare PROVE MappedInv'
  <1>1. /\ step = "compare" /\ UNCHANGED <<distance, plist, tmp>>
        /\ \/ outer >= Mapped!Laps /\ step' = "done" /\ UNCHANGED <<outer, inner>>
           \/ outer < Mapped!Laps /\ inner >= Size /\ outer' = outer + 1 /\ inner' = outer + 2 /\ UNCHANGED step
           \/ outer < Mapped!Laps /\ inner < Size /\ UNCHANGED outer /\ step' = "exchange" /\ UNCHANGED inner
              /\ Mapped!Less(distance[plist[inner + 1]], distance[plist[outer + 1]])
           \/ outer < Mapped!Laps /\ inner < Size /\ UNCHANGED outer /\ inner' = inner + 1 /\ UNCHANGED step
              /\ ~Mapped!Less(distance[plist[inner + 1]], distance[plist[outer + 1]])
    BY FileFacts DEF MappedInv, Mapped!Compare
  <1>2. Size' = Size /\ PutBack = plist /\ PutBack' = plist
    BY <1>1 DEF Size, PutBack
  <1>3. /\ Size \in Nat /\ Size <= SIZE_MAX /\ SIZE_MAX \in Nat /\ outer \in Nat /\ inner \in Nat /\ outer < inner
        /\ outer <= SIZE_MAX /\ inner <= SIZE_MAX + 1
        /\ (Size # 0 => Mapped!Laps = Size - 1 /\ outer < Size /\ inner <= Size)
        /\ (Size = 0 => Mapped!Laps = SIZE_MAX /\ inner = outer + 1)
    BY FileFacts DEF MappedInv
  <1>4. /\ step' \in {"compare", "exchange", "copied", "done", "killed"}
        /\ step' # "copied" /\ step' # "killed"
        /\ outer' \in 0 .. SIZE_MAX /\ inner' \in 1 .. SIZE_MAX + 1 /\ outer' < inner'
        /\ Size # 0 => outer' < Size /\ inner' <= Size
        /\ Size = 0 => inner' = outer' + 1
        /\ step' = "exchange" => inner' < Size
    BY <1>1, <1>3
  <1>5. /\ HoldsAll(plist)' /\ HoldsAllButOne(plist)'
    BY <1>1, <1>2 DEF MappedInv, HoldsAll, HoldsAllButOne
  <1>6. ASSUME AllNumbers'
        PROVE  /\ Placed(plist, outer)'
               /\ step' \in {"compare", "exchange"} => LeastUpTo(plist, outer + 1, inner)'
               /\ step' = "exchange" => distance'[plist'[inner' + 1]] < distance'[plist'[outer' + 1]]
               /\ step' = "done" => outer' >= Size' - 1
    <2>1. Placed(plist, outer) /\ LeastUpTo(plist, outer + 1, inner)
      BY <1>1, <1>2, <1>6 DEF MappedInv, InOrder, AllNumbers
    <2>2. \A k \in 1 .. Size : plist[k] \in 1 .. Size /\ distance[plist[k]] \in Int
                            /\ distance[plist[k]] # NaN
      BY <1>1, <1>2, <1>6, FileFacts DEF MappedInv, FileShape, AllNumbers
    <2>3. CASE outer >= Mapped!Laps /\ step' = "done" /\ UNCHANGED <<outer, inner>>
      <3>1. outer >= Size - 1
        BY <1>3, <2>3
      <3>2. Placed(plist, outer)'
        BY <1>1, <1>2, <2>1, <2>3 DEF Placed
      <3> QED BY <1>2, <2>3, <3>1, <3>2
    <2>4. CASE outer < Mapped!Laps /\ inner >= Size /\ outer' = outer + 1 /\ inner' = outer + 2 /\ UNCHANGED step
      <3>1. ASSUME NEW a \in 1 .. Size, NEW b \in 1 .. Size, a <= outer + 1, a < b
            PROVE  distance[plist[a]] <= distance[plist[b]]
        <4>1. CASE a <= outer
          BY <2>1, <3>1, <4>1 DEF Placed
        <4>2. CASE a = outer + 1
          BY <1>3, <2>1, <2>4, <3>1, <4>2 DEF LeastUpTo
        <4> QED BY <1>3, <3>1, <4>1, <4>2
      <3>2. Placed(plist, outer)'
        BY <1>1, <1>2, <2>4, <3>1 DEF Placed
      <3>3. LeastUpTo(plist, outer + 1, inner)'
        BY <1>1, <1>2, <1>3, <2>4 DEF LeastUpTo
      <3> QED BY <1>1, <2>4, <3>2, <3>3
    <2>5. CASE outer < Mapped!Laps /\ inner < Size /\ UNCHANGED outer /\ step' = "exchange" /\ UNCHANGED inner
              /\ Mapped!Less(distance[plist[inner + 1]], distance[plist[outer + 1]])
      BY <1>1, <1>2, <2>1, <2>5 DEF Placed, LeastUpTo, Mapped!Less
    <2>6. CASE outer < Mapped!Laps /\ inner < Size /\ UNCHANGED outer /\ inner' = inner + 1 /\ UNCHANGED step
              /\ ~Mapped!Less(distance[plist[inner + 1]], distance[plist[outer + 1]])
      <3>1. inner + 1 \in 1 .. Size /\ outer + 1 \in 1 .. Size
        BY <1>3, <2>6
      <3>2. distance[plist[outer + 1]] <= distance[plist[inner + 1]]
        BY <2>2, <2>6, <3>1 DEF Mapped!Less
      <3>3. ASSUME NEW b \in 1 .. Size, outer + 1 < b, b <= inner + 1
            PROVE  distance[plist[outer + 1]] <= distance[plist[b]]
        <4>1. b <= inner \/ b = inner + 1
          BY <1>3, <3>3
        <4> QED BY <2>1, <3>2, <3>3, <4>1 DEF LeastUpTo
      <3>4. LeastUpTo(plist, outer + 1, inner)'
        BY <1>1, <1>2, <2>6, <3>3 DEF LeastUpTo
      <3>5. Placed(plist, outer)'
        BY <1>1, <1>2, <2>1, <2>6 DEF Placed
      <3> QED BY <1>1, <2>6, <3>4, <3>5
    <2> QED BY <1>1, <2>3, <2>4, <2>5, <2>6
  <1>7. FileShape'
    <2>1. /\ Size' \in 0 .. MaxRecords /\ distance' \in [1 .. Size' -> Distance \cup {NaN}]
          /\ plist' \in [1 .. Size' -> 1 .. Size'] /\ tmp' \in 0 .. Size'
      BY <1>1, <1>2 DEF MappedInv, FileShape
    <2> QED BY <1>2, <1>4, <2>1 DEF FileShape
  <1>8. PutBack' = plist' /\ HoldsAll(PutBack)'
    BY <1>1, <1>2, <1>5 DEF HoldsAll
  <1>9. AllNumbers' => InOrder'
    <2>1. (Placed(plist, outer)' <=> Placed(PutBack, outer)')
          /\ (LeastUpTo(plist, outer + 1, inner)' <=> LeastUpTo(PutBack, outer + 1, inner)')
      BY <1>8 DEF Placed, LeastUpTo
    <2> QED BY <1>4, <1>6, <2>1 DEF InOrder
  <1> QED BY <1>5, <1>7, <1>8, <1>9 DEF MappedInv

LEMMA CopyDownKeepsMappedInv ==
    ASSUME SortConstants, MappedInv, Mapped!CopyDown PROVE MappedInv'
  <1> DEFINE a == outer + 1
             b == inner + 1
             swapped == [[plist EXCEPT ![a] = plist[b]] EXCEPT ![b] = plist[a]]
  <1>1. /\ step = "exchange" /\ step' = "copied" /\ UNCHANGED <<distance, outer, inner>>
        /\ tmp' = plist[a] /\ plist' = [plist EXCEPT ![a] = plist[b]]
    BY DEF Mapped!CopyDown
  <1>2. Size' = Size /\ PutBack = plist /\ PutBack' = swapped
    BY <1>1 DEF Size, PutBack
  <1>3. /\ Size \in Nat /\ outer \in Nat /\ inner \in Nat /\ outer < inner /\ inner < Size /\ outer < Size
        /\ plist \in [1 .. Size -> 1 .. Size] /\ HoldsAll(plist)
    BY <1>1, <1>2, FileFacts DEF MappedInv
  <1>4. a \in 1 .. Size /\ b \in 1 .. Size /\ a < b
    BY <1>3
  <1> HIDE DEF a, b
  <1>5. /\ plist' \in [1 .. Size -> 1 .. Size] /\ swapped \in [1 .. Size -> 1 .. Size]
        /\ swapped[a] = plist[b] /\ swapped[b] = plist[a]
        /\ \A k \in 1 .. Size : k # a /\ k # b => swapped[k] = plist[k] /\ plist'[k] = plist[k]
        /\ plist'[a] = plist[b] /\ plist'[b] = plist[b]
        /\ tmp' \in 1 .. Size
    BY <1>1, <1>3, <1>4
  <1> HIDE DEF swapped
  <1>6. \A c, d \in 1 .. Size : swapped[c] = swapped[d] => c = d
    <2>1. ASSUME NEW c \in 1 .. Size, NEW d \in 1 .. Size, c # d PROVE swapped[c] # swapped[d]
      <3>1. plist[c] # plist[d] /\ plist[a] # plist[b]
            /\ (c # a => plist[c] # plist[a]) /\ (c # b => plist[c] # plist[b])
            /\ (d # a => plist[d] # plist[a]) /\ (d # b => plist[d] # plist[b])
        BY <1>3, <1>4, <2>1 DEF HoldsAll
      <3> QED BY <1>5, <2>1, <3>1
    <2> QED BY <2>1
  <1>7. HoldsAllButOne(plist)'
    <2>1. FirstOf(swapped, Size) = 1 .. Size
      BY <1>3, <1>5, <1>6, AllAreHeld
    <2>2. ASSUME NEW r \in (1 .. Size) \ FirstOf(plist', Size) PROVE r = tmp'
      <3>1. PICK k \in 1 .. Size : swapped[k] = r
        BY <2>1, <2>2 DEF FirstOf
      <3>2. CASE k = b
        BY <1>1, <1>5, <3>1, <3>2
      <3>3. CASE k = a
        BY <1>4, <1>5, <2>2, <3>1, <3>3 DEF FirstOf
      <3>4. CASE k # a /\ k # b
        BY <1>5, <2>2, <3>1, <3>4 DEF FirstOf
      <3> QED BY <3>2, <3>3, <3>4
    <2> QED BY <1>2, <2>2 DEF HoldsAllButOne, FirstOf
  <1>8. HoldsAll(PutBack)'
    BY <1>2, <1>6 DEF HoldsAll
  <1>9. ASSUME AllNumbers'
        PROVE  Placed(PutBack, outer)' /\ LeastUpTo(PutBack, outer + 1, inner + 1)'
    <2>1. Placed(plist, outer) /\ LeastUpTo(plist, outer + 1, inner) /\ distance[plist[b]] < distance[plist[a]]
      BY <1>1, <1>2, <1>9 DEF MappedInv, InOrder, AllNumbers, a, b
    <2>2. \A k \in 1 .. Size : distance[plist[k]] \in Int
      BY <1>1, <1>2, <1>3, <1>9, FileFacts DEF MappedInv, AllNumbers
    <2>3. ASSUME NEW c \in 1 .. Size, NEW d \in 1 .. Size, c <= outer, c < d
          PROVE  distance[swapped[c]] <= distance[swapped[d]]
      <3>1. c # a /\ c # b /\ c < a /\ c < b
        BY <1>3, <2>3 DEF a, b
      <3>2. swapped[c] = plist[c]
        BY <1>5, <3>1
      <3>3. distance[plist[c]] <= distance[plist[a]] /\ distance[plist[c]] <= distance[plist[b]]
            /\ distance[plist[c]] <= distance[plist[d]]
        BY <1>4, <2>1, <2>3, <3>1 DEF Placed
      <3> QED BY <1>5, <3>2, <3>3
    <2>4. ASSUME NEW d \in 1 .. Size, a < d, d <= b
          PROVE  distance[swapped[a]] <= distance[swapped[d]]
      <3>1. CASE d = b
        BY <1>4, <1>5, <2>1, <2>2, <3>1
      <3>2. CASE d # b
        <4>1. d <= inner /\ d # a
          BY <1>3, <2>4, <3>2 DEF a, b
        <4>2. distance[plist[a]] <= distance[plist[d]]
          BY <2>1, <2>4, <4>1 DEF LeastUpTo, a
        <4>3. swapped[a] = plist[b] /\ swapped[d] = plist[d]
          BY <1>5, <3>2, <4>1
        <4> QED BY <1>4, <2>1, <2>2, <4>2, <4>3
      <3> QED BY <3>1, <3>2
    <2>5. Placed(PutBack, outer)'
      BY <1>1, <1>2, <2>3 DEF Placed
    <2>6. LeastUpTo(PutBack, outer + 1, inner + 1)'
      BY <1>1, <1>2, <2>4 DEF LeastUpTo, a, b
    <2> QED BY <2>5, <2>6
  <1>10. FileShape'
    <2>1. FileShape /\ tmp' \in 0 .. Size /\ tmp' # 0
      BY <1>3, <1>5 DEF MappedInv
    <2> QED BY <1>1, <1>2, <1>3, <1>5, <2>1 DEF FileShape
  <1>11. AllNumbers' => InOrder'
    BY <1>1, <1>9 DEF InOrder
  <1> QED BY <1>7, <1>8, <1>10, <1>11 DEF MappedInv

LEMMA CopyUpKeepsMappedInv ==
    ASSUME SortConstants, MappedInv, Mapped!CopyUp PROVE MappedInv'
  <1>1. /\ step = "copied" /\ step' = "compare" /\ UNCHANGED <<distance, outer, tmp>>
        /\ inner' = inner + 1 /\ plist' = [plist EXCEPT ![inner + 1] = tmp]
    BY DEF Mapped!CopyUp
  <1>2. Size' = Size /\ PutBack = plist' /\ PutBack' = plist'
    BY <1>1 DEF Size, PutBack
  <1>3. /\ Size \in Nat /\ outer \in Nat /\ inner \in Nat /\ outer < inner /\ inner < Size /\ outer < Size /\ Size <= SIZE_MAX
        /\ SIZE_MAX \in Nat /\ tmp \in 1 .. Size /\ plist \in [1 .. Size -> 1 .. Size]
    BY <1>1, <1>2, FileFacts DEF MappedInv
  <1>4. plist' \in [1 .. Size -> 1 .. Size] /\ inner' \in 1 .. SIZE_MAX + 1 /\ inner' <= Size /\ outer' < inner'
    BY <1>1, <1>3
  <1>5. HoldsAll(plist)'
    BY <1>1, <1>2 DEF MappedInv, HoldsAll
  <1>6. HoldsAllButOne(plist)'
    <2>1. FirstOf(plist', Size) = 1 .. Size
      BY <1>2, <1>3, <1>4, <1>5, AllAreHeld DEF HoldsAll
    <2>2. FirstOf(plist, Size)' = 1 .. Size
      BY <1>2, <2>1 DEF FirstOf
    <2> QED BY <1>2, <2>2 DEF HoldsAllButOne
  <1>7. AllNumbers' => InOrder'
    <2>1. AllNumbers' => Placed(PutBack, outer) /\ LeastUpTo(PutBack, outer + 1, inner + 1)
      BY <1>1, <1>2 DEF MappedInv, InOrder, AllNumbers
    <2>2. (Placed(PutBack, outer) <=> Placed(PutBack, outer)')
          /\ (LeastUpTo(PutBack, outer + 1, inner + 1) <=> LeastUpTo(PutBack, outer + 1, inner)')
      BY <1>1, <1>2 DEF Placed, LeastUpTo
    <2> QED BY <1>1, <2>1, <2>2 DEF InOrder
  <1>8. HoldsAll(PutBack)'
    BY <1>2, <1>5 DEF HoldsAll
  <1>9. FileShape'
    <2>1. tmp' \in 0 .. Size' /\ outer' \in 0 .. SIZE_MAX /\ Size' \in 0 .. MaxRecords
          /\ distance' \in [1 .. Size' -> Distance \cup {NaN}] /\ plist' \in [1 .. Size' -> 1 .. Size']
      BY <1>1, <1>2, <1>4 DEF MappedInv, FileShape
    <2>2. Size' # 0 /\ outer' < Size' /\ inner' <= Size'
      BY <1>1, <1>2, <1>3, <1>4
    <2> QED BY <1>1, <1>4, <2>1, <2>2 DEF FileShape
  <1> QED BY <1>6, <1>7, <1>8, <1>9 DEF MappedInv

LEMMA InterruptKeepsMappedInv ==
    ASSUME SortConstants, MappedInv, Mapped!Interrupt PROVE MappedInv'
  <1>1. step' = "killed" /\ UNCHANGED <<distance, plist, outer, inner, tmp>>
    BY DEF Mapped!Interrupt
  <1>2. Size' = Size /\ HoldsAllButOne(plist)'
    BY <1>1 DEF Size, MappedInv, HoldsAllButOne
  <1>3. FileShape'
    BY <1>1, <1>2 DEF MappedInv, FileShape
  <1> QED BY <1>1, <1>2, <1>3 DEF MappedInv

LEMMA MappedInvSuffices ==
    ASSUME SortConstants, MappedInv PROVE Mapped!TypeOK /\ Mapped!FileKeepsRecords
  <1>1. Mapped!TypeOK
    <2>1. FileShape /\ DOMAIN distance = 1 .. Size /\ Size \in Nat
      BY FileFacts DEF MappedInv
    <2> QED BY <2>1 DEF FileShape, Mapped!TypeOK
  <1>2. FirstOf(plist, Size) = {plist[k] : k \in DOMAIN plist} /\ DOMAIN plist = 1 .. Size
        /\ DOMAIN distance = 1 .. Size /\ Mapped!numPOIs = Size /\ Size \in Nat
    BY FileFacts DEF MappedInv, FirstOf
  <1>3. Cardinality((1 .. Size) \ FirstOf(plist, Size)) <= 1
    BY OneIsLost DEF MappedInv, HoldsAllButOne
  <1>4. ASSUME step = "done" PROVE FirstOf(plist, Size) = 1 .. Size
    <2>1. HoldsAll(plist) /\ plist \in [1 .. Size -> 1 .. Size]
      BY <1>4 DEF MappedInv, FileShape, PutBack
    <2> QED BY <1>2, <2>1, AllAreHeld DEF HoldsAll
  <1>5. ASSUME step = "done", \A k \in 1 .. Size : distance[k] # NaN, NEW k \in 2 .. Size
        PROVE  distance[plist[k - 1]] <= distance[plist[k]]
    <2>1. Placed(plist, outer) /\ outer >= Size - 1 /\ outer \in Nat
      BY <1>5, FileFacts DEF MappedInv, InOrder, AllNumbers, PutBack
    <2>2. k - 1 \in 1 .. Size /\ k \in 1 .. Size /\ k - 1 <= outer /\ k - 1 < k
      BY <1>2, <2>1
    <2> QED BY <2>1, <2>2 DEF Placed
  <1>6. Mapped!Cardinality((1 .. Size) \ FirstOf(plist, Size)) = Cardinality((1 .. Size) \ FirstOf(plist, Size))
    BY DEF Mapped!Cardinality, Cardinality
  <1>7. Mapped!FileKeepsRecords
    BY <1>2, <1>3, <1>4, <1>5, <1>6 DEF Mapped!FileKeepsRecords
  <1> QED BY <1>1, <1>7

(* exercises/ex14: wherever the sort is interrupted, the file has lost at  *)
(* most the record that was in tmp; and a sort that ends has lost none and *)
(* has put the records in order when every distance is a number.           *)
THEOREM FileAlwaysKeepsRecords ==
    SortConstants /\ Mapped!Spec => [](Mapped!TypeOK /\ Mapped!FileKeepsRecords)
  <1> SUFFICES ASSUME SortConstants
               PROVE  Mapped!Spec => [](Mapped!TypeOK /\ Mapped!FileKeepsRecords)
    OBVIOUS
  <1>1. Mapped!Init => MappedInv
    BY FileStart
  <1>2. MappedInv /\ [Mapped!Next]_Mapped!vars => MappedInv'
    <2>1. ASSUME MappedInv, UNCHANGED Mapped!vars PROVE MappedInv'
      <3>1. UNCHANGED <<distance, plist, outer, inner, tmp, step>>
        BY <2>1 DEF Mapped!vars
      <3>2. UNCHANGED <<Size, PutBack>>
        BY <3>1 DEF Size, PutBack
      <3>3. FileShape' /\ HoldsAllButOne(plist)'
        BY <2>1, <3>1, <3>2 DEF MappedInv, FileShape, HoldsAllButOne
      <3>4. (HoldsAll(PutBack) <=> HoldsAll(PutBack)') /\ (AllNumbers <=> AllNumbers')
        BY <3>1, <3>2 DEF HoldsAll, AllNumbers
      <3>5. /\ Placed(PutBack, outer) <=> Placed(PutBack, outer)'
            /\ LeastUpTo(PutBack, outer + 1, inner) <=> LeastUpTo(PutBack, outer + 1, inner)'
            /\ LeastUpTo(PutBack, outer + 1, inner + 1) <=> LeastUpTo(PutBack, outer + 1, inner + 1)'
        BY <3>1, <3>2 DEF Placed, LeastUpTo
      <3>6. InOrder <=> InOrder'
        BY <3>1, <3>2, <3>5 DEF InOrder
      <3> QED BY <2>1, <3>1, <3>3, <3>4, <3>6 DEF MappedInv
    <2> QED BY <2>1, CompareKeepsMappedInv, CopyDownKeepsMappedInv, CopyUpKeepsMappedInv,
               InterruptKeepsMappedInv DEF Mapped!Next, Mapped!Step
  <1>3. MappedInv => Mapped!TypeOK /\ Mapped!FileKeepsRecords
    BY MappedInvSuffices
  <1> QED BY <1>1, <1>2, <1>3, PTL DEF Mapped!Spec

-----------------------------------------------------------------------------
(* The floppy readers.  Where they may read, whatever they take for the    *)
(* next cluster: in a sector of the root or of a cluster, or behind it.    *)
Readable == {s \in Int : 0 - SECTORS <= s /\ s < 4087 /\ s # 0 /\ s # 1}
Word == {n \in Nat : n < 4096}
Unit(sector) == IF sector < 0 THEN sector + SECTORS ELSE SECTORS + sector - 2
AnyCall == [sector : Readable, i : 0 .. Entries, nextEntryPos : Int]

CallWaits(c) == c.i < Entries /\ c.nextEntryPos = Floppy!Start(c.sector) + c.i + 1

WalkInv ==
    /\ reader \in {"floppyDir", "floppyDirNew"} /\ disk \in Images
    /\ levels \in Seq(AnyCall) /\ report \in Seq(Nat \X Int)
    /\ filePos \in 0 .. Floppy!SectorStart(4088)
    /\ levels # <<>> => filePos = Floppy!Start(levels[1].sector) + levels[1].i
    /\ \A k \in 2 .. Len(levels) : CallWaits(levels[k])

LEMMA Products ==
    /\ \A m, n \in Nat : m * n \in Nat
    /\ \A m, n, e \in Nat : m <= n => m * e <= n * e
    /\ \A m \in Nat, e \in Nat : (m + 1) * e = m * e + e
  <1>1. \A m, n \in Nat : m * n \in Nat
    OBVIOUS
  <1>2. ASSUME NEW m \in Nat, NEW n \in Nat, NEW e \in Nat, m <= n PROVE m * e <= n * e
    <2>1. n - m \in Nat /\ n * e = m * e + (n - m) * e
      BY <1>2
    <2>2. (n - m) * e \in Nat /\ m * e \in Nat
      BY <2>1, <1>1
    <2> QED BY <2>1, <2>2
  <1>3. \A m \in Nat, e \in Nat : (m + 1) * e = m * e + e
    OBVIOUS
  <1> QED BY <1>1, <1>2, <1>3

LEMMA StartIs ==
    ASSUME Floppy!FloppyConstants, NEW s \in Readable
    PROVE  /\ Unit(s) \in Nat /\ Floppy!Start(s) = Unit(s) * Entries
           /\ Floppy!Start(s) \in Nat /\ Floppy!Start(s) + Entries <= Floppy!SectorStart(4088)
           /\ Floppy!SectorStart(4088) \in Nat
  <1>1. SECTORS \in Nat \ {0} /\ Entries \in Nat \ {0}
    BY DEF Floppy!FloppyConstants
  <1>2. Unit(s) \in Nat /\ Unit(s) + 1 <= SECTORS + 4086
    BY <1>1 DEF Unit, Readable
  <1>3. Floppy!Start(s) = Unit(s) * Entries /\ Floppy!SectorStart(4088) = (SECTORS + 4086) * Entries
    <2>1. s \in Int /\ SECTORS + 4088 - 2 = SECTORS + 4086
      BY <1>1 DEF Readable
    <2> QED BY <2>1 DEF Floppy!Start, Floppy!SectorStart, Unit
  <1> HIDE DEF Unit
  <1>4. (Unit(s) + 1) * Entries <= (SECTORS + 4086) * Entries
    BY <1>1, <1>2, Products
  <1>5. (Unit(s) + 1) * Entries = Unit(s) * Entries + Entries
    BY <1>1, <1>2, Products
  <1>6. Unit(s) * Entries \in Nat /\ (SECTORS + 4086) * Entries \in Nat
    BY <1>1, <1>2, Products
  <1> QED BY <1>1, <1>2, <1>3, <1>4, <1>5, <1>6

-----------------------------------------------------------------------------
(* The packed table.                                                       *)
LEMMA DiskIs ==
    ASSUME Floppy!FloppyConstants, disk \in Images
    PROVE  /\ disk.dirs \in [Floppy!Dirs -> Seq(Floppy!Kinds)]
           /\ disk.chain \in [Floppy!SubDirs -> Seq(2 .. Clusters + 1)]
           /\ disk.eoc \in Word /\ disk.eoc >= 4088 /\ Clusters \in Nat /\ Clusters + 1 < 4087
           /\ SECTORS \in Nat \ {0} /\ Entries \in Nat \ {0}
           /\ \A d \in Floppy!SubDirs : 
                 /\ Len(disk.chain[d]) \in Nat /\ Len(disk.chain[d]) >= 1 
                 /\ \A k \in 1 .. Len(disk.chain[d]) : disk.chain[d][k] \in 2 .. Clusters + 1
           /\ \A d \in Floppy!Dirs :
                 /\ Len(disk.dirs[d]) \in Nat
                 /\ \A k \in 1 .. Len(disk.dirs[d]) : disk.dirs[d][k] \in Floppy!Kinds
  <1>1. Floppy!WellFormed(disk)
    BY DEF Floppy!FloppyConstants
  <1>2. /\ disk.dirs \in [Floppy!Dirs -> Seq(Floppy!Kinds)]
        /\ disk.chain \in [Floppy!SubDirs -> Seq(2 .. Clusters + 1)]
        /\ disk.eoc \in Word /\ disk.eoc >= 4088
        /\ \A d \in Floppy!SubDirs : Len(disk.chain[d]) >= 1
    BY <1>1 DEF Floppy!WellFormed, Floppy!EOC_MARKER_START, Word
  <1>3. Clusters \in Nat /\ Clusters + 1 < 4087 /\ SECTORS \in Nat \ {0} /\ Entries \in Nat \ {0}
    BY DEF Floppy!FloppyConstants, Floppy!BAD_SECTOR
  <1>4. ASSUME NEW S, NEW s \in Seq(S) PROVE Len(s) \in Nat /\ \A k \in 1 .. Len(s) : s[k] \in S
    BY <1>4
  <1>5. ASSUME NEW d \in Floppy!SubDirs
        PROVE  /\ Len(disk.chain[d]) \in Nat
               /\ \A k \in 1 .. Len(disk.chain[d]) : disk.chain[d][k] \in 2 .. Clusters + 1
    <2>1. disk.chain[d] \in Seq(2 .. Clusters + 1)
      BY <1>2
    <2> QED BY <2>1, <1>4
  <1>6. ASSUME NEW d \in Floppy!Dirs
        PROVE  /\ Len(disk.dirs[d]) \in Nat
               /\ \A k \in 1 .. Len(disk.dirs[d]) : disk.dirs[d][k] \in Floppy!Kinds
    <2>1. disk.dirs[d] \in Seq(Floppy!Kinds)
      BY <1>2
    <2> QED BY <2>1, <1>4
  <1> QED BY <1>2, <1>3, <1>5, <1>6

LEMMA ClusterIs ==
    ASSUME Floppy!FloppyConstants, disk \in Images,
           NEW d \in Floppy!SubDirs, NEW k \in 1 .. Len(disk.chain[d])
    PROVE  /\ disk.chain[d][k] \in 2 .. Clusters + 1 /\ disk.chain[d][k] \in Readable
           /\ disk.chain[d][k] \in Word
  <1>1. disk.chain[d][k] \in 2 .. Clusters + 1 /\ Clusters \in Nat /\ Clusters + 1 < 4087
    BY DiskIs
  <1>2. \A c \in 2 .. Clusters + 1 : c \in Readable /\ c \in Word
    BY <1>1, DiskIs DEF Readable, Word
  <1> QED BY <1>1, <1>2

(* The places of the entries and of the clusters.                          *)
LEMMA PlacesAre ==
    ASSUME NEW D, NEW f, DOMAIN f = D, \A d \in D : DOMAIN f[d] = 1 .. Len(f[d])
    PROVE  /\ \A h \in Floppy!PlacesIn(f) :
                 h[1] \in D /\ h[2] \in 1 .. Len(f[h[1]]) /\ h = <<h[1], h[2]>>
           /\ \A d \in D : \A k \in 1 .. Len(f[d]) : <<d, k>> \in Floppy!PlacesIn(f)
  BY DEF Floppy!PlacesIn

LEMMA DiskPlaces ==
    ASSUME Floppy!FloppyConstants, disk \in Images
    PROVE  /\ \A h \in Floppy!PlacesIn(disk.chain) :
                 /\ h[1] \in Floppy!SubDirs /\ h[2] \in 1 .. Len(disk.chain[h[1]])
                 /\ h = <<h[1], h[2]>>
           /\ \A d \in Floppy!SubDirs : \A k \in 1 .. Len(disk.chain[d]) :
                 <<d, k>> \in Floppy!PlacesIn(disk.chain)
           /\ \A e \in Floppy!PlacesIn(disk.dirs) :
                 /\ e[1] \in Floppy!Dirs /\ e[2] \in 1 .. Len(disk.dirs[e[1]])
                 /\ e = <<e[1], e[2]>>
           /\ \A d \in Floppy!Dirs : \A k \in 1 .. Len(disk.dirs[d]) :
                 <<d, k>> \in Floppy!PlacesIn(disk.dirs)
  <1>1. /\ disk.dirs \in [Floppy!Dirs -> Seq(Floppy!Kinds)]
        /\ disk.chain \in [Floppy!SubDirs -> Seq(2 .. Clusters + 1)]
    BY DiskIs
  <1>2. ASSUME NEW S, NEW s \in Seq(S) PROVE DOMAIN s = 1 .. Len(s)
    BY <1>2
  <1>3. DOMAIN disk.dirs = Floppy!Dirs /\ \A d \in Floppy!Dirs : DOMAIN disk.dirs[d] = 1 .. Len(disk.dirs[d])
    BY <1>1, <1>2
  <1>4. /\ DOMAIN disk.chain = Floppy!SubDirs
        /\ \A d \in Floppy!SubDirs : DOMAIN disk.chain[d] = 1 .. Len(disk.chain[d])
    BY <1>1, <1>2
  <1> QED BY <1>3, <1>4, PlacesAre

LEMMA NextClusterIs ==
    ASSUME Floppy!FloppyConstants, disk \in Images
    PROVE  /\ \A c : Floppy!NextCluster(c) \in Word
           /\ \A d \in Floppy!SubDirs : \A k \in 1 .. Len(disk.chain[d]) :
                 Floppy!NextCluster(disk.chain[d][k])
                     = IF k < Len(disk.chain[d]) THEN disk.chain[d][k + 1] ELSE disk.eoc
  <1> DEFINE following(h) == IF h[2] < Len(disk.chain[h[1]]) THEN disk.chain[h[1]][h[2] + 1] ELSE disk.eoc
             at(c) == {h \in Floppy!PlacesIn(disk.chain) : disk.chain[h[1]][h[2]] = c}
  <1>1. \A c : Floppy!NextCluster(c) = IF at(c) = {} THEN 0 ELSE following(CHOOSE h \in at(c) : TRUE)
    BY DEF Floppy!NextCluster
  <1>2. ASSUME NEW h \in Floppy!PlacesIn(disk.chain) PROVE following(h) \in Word
    <2>1. /\ h[1] \in Floppy!SubDirs /\ h[2] \in 1 .. Len(disk.chain[h[1]])
      BY DiskPlaces
    <2>2. Len(disk.chain[h[1]]) \in Nat /\ disk.eoc \in Word
      BY <2>1, DiskIs
    <2>3. CASE h[2] < Len(disk.chain[h[1]])
      <3>1. h[2] + 1 \in 1 .. Len(disk.chain[h[1]])
        BY <2>1, <2>2, <2>3
      <3>2. disk.chain[h[1]][h[2] + 1] \in Word
        BY <2>1, <3>1, ClusterIs, Zenon
      <3> QED BY <2>3, <3>2, Zenon
    <2>4. CASE ~(h[2] < Len(disk.chain[h[1]]))
      BY <2>2, <2>4
    <2> QED BY <2>3, <2>4
  <1> HIDE DEF following
  <1>3. \A c : at(c) # {} => (CHOOSE h \in at(c) : TRUE) \in at(c)
    OBVIOUS
  <1>4. ASSUME NEW c PROVE Floppy!NextCluster(c) \in Word
    <2>1. CASE at(c) = {}
      <3>1. 0 \in Word
        BY DEF Word
      <3> QED BY <1>1, <2>1, <3>1, Zenon
    <2>2. CASE at(c) # {}
      <3>1. (CHOOSE h \in at(c) : TRUE) \in Floppy!PlacesIn(disk.chain)
        BY <1>3, <2>2, Zenon
      <3> QED BY <1>1, <1>2, <2>2, <3>1, Zenon
    <2> QED BY <2>1, <2>2
  <1>5. ASSUME NEW d \in Floppy!SubDirs, NEW k \in 1 .. Len(disk.chain[d])
        PROVE  Floppy!NextCluster(disk.chain[d][k]) = following(<<d, k>>)
    <2>1. <<d, k>> \in at(disk.chain[d][k])
      BY DiskPlaces
    <2>2. \A g \in at(disk.chain[d][k]) : g = <<d, k>>
      <3>1. \A g, h \in Floppy!PlacesIn(disk.chain) :
               disk.chain[g[1]][g[2]] = disk.chain[h[1]][h[2]] => g = h
        BY DEF Floppy!FloppyConstants, Floppy!WellFormed
      <3>2. <<d, k>> \in Floppy!PlacesIn(disk.chain) /\ <<d, k>>[1] = d /\ <<d, k>>[2] = k
        BY DiskPlaces
      <3> QED BY <3>1, <3>2
    <2>3. (CHOOSE h \in at(disk.chain[d][k]) : TRUE) = <<d, k>>
      BY <1>3, <2>1, <2>2
    <2> QED BY <1>1, <2>1, <2>3
  <1> QED BY <1>4, <1>5 DEF following

(* getFat12 of floppyDir.c is the next cluster, that of floppyDirNew.c for *)
(* an even one.                                                            *)
LEMMA TableIsRead ==
    ASSUME Floppy!FloppyConstants, disk \in Images, NEW c \in Nat
    PROVE  /\ Floppy!GetFat12(c) \in Int
           /\ reader = "floppyDir" \/ c % 2 = 0 => Floppy!GetFat12(c) = Floppy!NextCluster(c)
  <1> DEFINE m == c \div 2
             low == Floppy!NextCluster(2 * m)
             high == Floppy!NextCluster(2 * m + 1)
  <1>1. m \in Nat /\ ((c = 2 * m /\ c % 2 = 0) \/ (c = 2 * m + 1 /\ c % 2 = 1))
    OBVIOUS
  <1>2. low \in Word /\ high \in Word
    BY NextClusterIs, Zenon
  <1> HIDE DEF m
  <1>3. /\ (3 * m) % 3 = 0 /\ (3 * m) \div 3 = m
        /\ (3 * m + 1) % 3 = 1 /\ (3 * m + 1) \div 3 = m
        /\ (3 * m + 2) % 3 = 2 /\ (3 * m + 2) \div 3 = m
    BY <1>1
  <1>4. /\ Floppy!FatByte(3 * m) = low % 256
        /\ Floppy!FatByte(3 * m + 1) = (low \div 256) + 16 * (high % 16)
        /\ Floppy!FatByte(3 * m + 2) = high \div 16
    BY <1>3 DEF Floppy!FatByte
  <1> HIDE DEF low, high
  <1> DEFINE pair == (low % 256) + 256 * ((low \div 256) + 16 * (high % 16)) + 65536 * (high \div 16)
  <1>5. pair = low + 4096 * high
    BY <1>2 DEF Word
  <1>6. pair \div 4096 = high /\ pair % 4096 = low
    BY <1>2, <1>5 DEF Word
  <1>7. Floppy!GetFatPair(c) = IF c % 2 = 1 THEN pair \div 4096 ELSE pair % 4096
    BY <1>4 DEF Floppy!GetFatPair, m
  <1>8. CASE reader = "floppyDir"
    <2>1. Floppy!GetFat12(c) = IF c % 2 = 1 THEN high ELSE low
      BY <1>6, <1>7, <1>8 DEF Floppy!GetFat12
    <2> QED BY <1>1, <1>2, <2>1 DEF low, high, Word
  <1>9. CASE reader # "floppyDir"
    <2>1. Floppy!GetFat12(c) = Floppy!GetFatBytes(c)
      BY <1>9 DEF Floppy!GetFat12
    <2>2. CASE c % 2 = 0
      <3>1. c + (c \div 2) = 3 * m
        BY <1>1, <2>2 DEF m
      <3>2. Floppy!GetFatBytes(c)
                = (low % 256) + 256 * (((low \div 256) + 16 * (high % 16)) % 16)
        BY <1>4, <2>2, <3>1 DEF Floppy!GetFatBytes
      <3>3. (low % 256) + 256 * (((low \div 256) + 16 * (high % 16)) % 16) = low
        BY <1>2 DEF Word
      <3>4. c = 2 * m
        BY <1>1, <2>2
      <3>5. Floppy!GetFat12(c) = Floppy!NextCluster(c)
        BY <2>1, <3>2, <3>3, <3>4, Zenon DEF low
      <3>6. low \in Int
        BY <1>2 DEF Word
      <3> QED BY <3>4, <3>5, <3>6 DEF low
    <2>3. CASE c % 2 = 1
      <3>1. c + (c \div 2) = 3 * m + 1
        BY <1>1, <2>3 DEF m
      <3>2. (3 * m + 1) + 1 = 3 * m + 2
        BY <1>1
      <3> DEFINE n == 3 * (m + 1)
      <3>3. (3 * m + 1) + 2 = n /\ n % 3 = 0 
        BY <1>1
      <3>4. Floppy!FatByte(n) = Floppy!NextCluster(2 * (n \div 3)) % 256
        BY <3>3 DEF Floppy!FatByte
      <3>5. Floppy!FatByte(n) \in Int
        BY <3>4, NextClusterIs DEF Word
      <3>6. Floppy!GetFatBytes(c) = (Floppy!FatByte(3 * m + 2) \div 16) + 16 * Floppy!FatByte(n)
        BY <2>3, <3>1, <3>2, <3>3 DEF Floppy!GetFatBytes
      <3>7. Floppy!GetFatBytes(c) \in Int
        BY <1>2, <1>4, <3>5, <3>6 DEF Word
      <3> QED BY <1>9, <2>1, <2>3, <3>7
    <2> QED BY <1>1, <2>2, <2>3
  <1> QED BY <1>8, <1>9
-----------------------------------------------------------------------------
(* The calls.  One that waits knows where its next entry is.               *)
LEMMA PushIs ==
    ASSUME NEW S, NEW c \in S, NEW s \in Seq(S)
    PROVE  /\ <<c>> \o s \in Seq(S) /\ Len(<<c>> \o s) = Len(s) + 1 /\ Len(s) \in Nat
           /\ (<<c>> \o s)[1] = c /\ \A k \in 1 .. Len(s) : (<<c>> \o s)[k + 1] = s[k]
           /\ <<c>> \o s # <<>>
  OBVIOUS

LEMMA PushedAre ==
    ASSUME NEW S, NEW c \in S, NEW s \in Seq(S), NEW k \in 2 .. Len(s) + 1
    PROVE  (<<c>> \o s)[k] = s[k - 1] /\ k - 1 \in 1 .. Len(s)
  OBVIOUS

LEMMA TopIs ==
    ASSUME WalkInv, levels # <<>>
    PROVE  /\ Floppy!Top = levels[1] /\ levels[1] \in AnyCall /\ Len(levels) \in Nat \ {0}
           /\ Floppy!Below \in Seq(AnyCall) /\ Len(Floppy!Below) = Len(levels) - 1
           /\ \A k \in 1 .. Len(levels) - 1 : Floppy!Below[k] = levels[k + 1]
           /\ \A k \in 1 .. Len(Floppy!Below) : CallWaits(Floppy!Below[k])
  <1>1. levels \in Seq(AnyCall) /\ Len(levels) \in Nat \ {0} /\ levels[1] \in AnyCall
    BY DEF WalkInv
  <1>2. /\ Floppy!Below \in Seq(AnyCall) /\ Len(Floppy!Below) = Len(levels) - 1
        /\ \A k \in 1 .. Len(levels) - 1 : Floppy!Below[k] = levels[k + 1]
    BY <1>1, TailFacts DEF Floppy!Below
  <1>3. ASSUME NEW k \in 1 .. Len(Floppy!Below) PROVE CallWaits(Floppy!Below[k])
    <2>1. k + 1 \in 2 .. Len(levels) /\ k \in 1 .. Len(levels) - 1
      BY <1>1, <1>2
    <2>2. CallWaits(levels[k + 1])
      BY <2>1 DEF WalkInv
    <2> QED BY <1>2, <2>1, <2>2
  <1>4. Floppy!Top = levels[1]
    BY <1>1 DEF Floppy!Top
  <1> QED BY <1>1, <1>2, <1>3, <1>4

LEMMA CallIs ==
    ASSUME Floppy!FloppyConstants, NEW c \in AnyCall
    PROVE  /\ c.sector \in Readable /\ c.i \in Nat /\ c.i <= Entries
           /\ c.nextEntryPos \in Int
           /\ \A p \in Int : [c EXCEPT !.nextEntryPos = p] \in AnyCall
           /\ c.i < Entries => [c EXCEPT !.i = @ + 1] \in AnyCall
  BY DEF AnyCall, Floppy!FloppyConstants

(* The three ways a step changes the calls.                                *)
LEMMA PushedWalks ==
    ASSUME Floppy!FloppyConstants, WalkInv, UNCHANGED <<reader, disk>>,
           report' \in Seq(Nat \X Int), NEW c \in AnyCall, NEW calls \in Seq(AnyCall),
           \A k \in 1 .. Len(calls) : CallWaits(calls[k]),
           levels' = <<c>> \o calls, filePos' = Floppy!Start(c.sector) + c.i
    PROVE  WalkInv'
  <1>1. /\ levels' \in Seq(AnyCall) /\ levels'[1] = c /\ Len(levels') = Len(calls) + 1
        /\ Len(calls) \in Nat
    BY PushIs
  <1>2. ASSUME NEW k \in 2 .. Len(levels') PROVE CallWaits(levels'[k])
    <2>1. k \in 2 .. Len(calls) + 1
      BY <1>1
    <2>2. levels'[k] = calls[k - 1] /\ k - 1 \in 1 .. Len(calls)
      BY <2>1, PushedAre
    <2> QED BY <2>2
  <1>3. filePos' \in 0 .. Floppy!SectorStart(4088)
    <2>1. /\ c.i \in Nat /\ c.i <= Entries /\ Entries \in Nat /\ c.sector \in Readable
      BY CallIs DEF Floppy!FloppyConstants
    <2>2. /\ Floppy!Start(c.sector) \in Nat /\ Floppy!SectorStart(4088) \in Nat
          /\ Floppy!Start(c.sector) + Entries <= Floppy!SectorStart(4088)
      BY <2>1, StartIs
    <2> QED BY <2>1, <2>2
  <1>4. reader' \in {"floppyDir", "floppyDirNew"} /\ disk' \in Images
    BY DEF WalkInv
  <1> QED BY <1>1, <1>2, <1>3, <1>4 DEF WalkInv

(* The one that waits for the end of a call goes on.                       *)
LEMMA LeaveWalks ==
    ASSUME Floppy!FloppyConstants, WalkInv, levels # <<>>, UNCHANGED <<reader, disk, report>>,
           Floppy!Leave
    PROVE  WalkInv'
  <1>1. report' \in Seq(Nat \X Int)
    BY DEF WalkInv
  <1>2. CASE Floppy!Below = <<>>
    <2>1. levels' = <<>> /\ filePos' = filePos
      BY <1>2 DEF Floppy!Leave
    <2>2. levels' \in Seq(AnyCall) /\ Len(levels') = 0
      BY <2>1
    <2> QED BY <1>1, <2>1, <2>2 DEF WalkInv
  <1>3. CASE Floppy!Below # <<>>
    <2> DEFINE c == [Head(Floppy!Below) EXCEPT !.i = @ + 1]
               calls == Tail(Floppy!Below)
    <2>1. /\ Floppy!Below \in Seq(AnyCall) /\ \A k \in 1 .. Len(Floppy!Below) : CallWaits(Floppy!Below[k])
      BY TopIs
    <2>2. /\ Len(Floppy!Below) \in Nat \ {0} /\ Head(Floppy!Below) = Floppy!Below[1]
          /\ Floppy!Below[1] \in AnyCall
      BY <1>3, <2>1
    <2>3. /\ calls \in Seq(AnyCall) /\ Len(calls) = Len(Floppy!Below) - 1
          /\ \A k \in 1 .. Len(Floppy!Below) - 1 : calls[k] = Floppy!Below[k + 1]
      BY <2>1, <2>2, TailFacts
    <2>4. \A k \in 1 .. Len(calls) : CallWaits(calls[k])
      BY <2>1, <2>2, <2>3
    <2>5. CallWaits(Floppy!Below[1])
      BY <2>1, <2>2
    <2>6. c \in AnyCall /\ c.sector = Floppy!Below[1].sector /\ c.i = Floppy!Below[1].i + 1
      BY <2>2, <2>5, CallIs DEF CallWaits, AnyCall
    <2>7. levels' = <<c>> \o calls /\ filePos' = Floppy!Below[1].nextEntryPos
      BY <1>3, <2>2 DEF Floppy!Leave
    <2>8. filePos' = Floppy!Start(c.sector) + c.i
      <3>1. Floppy!Below[1].i \in Nat /\ Floppy!Start(Floppy!Below[1].sector) \in Nat
        <4>1. Floppy!Below[1].i \in Nat /\ Floppy!Below[1].sector \in Readable
          BY <2>2, CallIs
        <4> QED BY <4>1, StartIs
      <3>2. Floppy!Below[1].nextEntryPos = Floppy!Start(Floppy!Below[1].sector) + Floppy!Below[1].i + 1
        BY <2>5 DEF CallWaits
      <3> QED BY <2>6, <2>7, <3>1, <3>2
    <2> HIDE DEF c, calls
    <2> QED BY <1>1, <2>3, <2>4, <2>6, <2>7, <2>8, PushedWalks
  <1> QED BY <1>2, <1>3

LEMMA EntryIs ==
    ASSUME Floppy!FloppyConstants, disk \in Images
    PROVE  /\ \A p : Floppy!EntryAt(p) \in Floppy!Kinds \cup {"none"}
           /\ Floppy!Entry \in Floppy!Kinds \cup {"none"}
  <1> DEFINE here(p) == {e \in Floppy!PlacesIn(disk.dirs) : Floppy!Place(e[1], e[2]) = p}
  <1>1. ASSUME NEW e \in Floppy!PlacesIn(disk.dirs) PROVE Floppy!Held(e) \in Floppy!Kinds
    <2>1. e[1] \in Floppy!Dirs /\ e[2] \in 1 .. Len(disk.dirs[e[1]])
      BY DiskPlaces
    <2> QED BY <2>1, DiskIs DEF Floppy!Held
  <1>2. ASSUME NEW p PROVE Floppy!EntryAt(p) \in Floppy!Kinds \cup {"none"}
    <2>1. CASE here(p) = {}
      BY <2>1 DEF Floppy!EntryAt
    <2>2. CASE here(p) # {}
      <3>1. (CHOOSE e \in here(p) : TRUE) \in here(p)
        BY <2>2
      <3>2. Floppy!Held(CHOOSE e \in here(p) : TRUE) \in Floppy!Kinds
        BY <1>1, <3>1
      <3> QED BY <2>2, <3>2 DEF Floppy!EntryAt
    <2> QED BY <2>1, <2>2
  <1> QED BY <1>2 DEF Floppy!Entry

LEMMA SkipWalks ==
    ASSUME Floppy!FloppyConstants, WalkInv, Floppy!Reading, UNCHANGED <<reader, disk>>,
           report' \in Seq(Nat \X Int),
           levels' = <<[Floppy!Top EXCEPT !.i = @ + 1]>> \o Floppy!Below, filePos' = filePos + 1
    PROVE  WalkInv'
  <1> DEFINE c == [levels[1] EXCEPT !.i = @ + 1]
  <1>1. levels # <<>> /\ Floppy!Top = levels[1] /\ levels[1] \in AnyCall /\ levels[1].i < Entries
    BY TopIs DEF Floppy!Reading
  <1>2. c \in AnyCall /\ c.sector = levels[1].sector /\ c.i = levels[1].i + 1
    BY <1>1, CallIs DEF AnyCall
  <1>3. filePos' = Floppy!Start(c.sector) + c.i
    <2>1. filePos = Floppy!Start(levels[1].sector) + levels[1].i
      BY <1>1 DEF WalkInv
    <2>2. Floppy!Start(levels[1].sector) \in Nat /\ levels[1].i \in Nat
      BY <1>1, CallIs, StartIs
    <2> QED BY <1>2, <2>1, <2>2
  <1>4. levels' = <<c>> \o Floppy!Below
    BY <1>1
  <1>5. Floppy!Below \in Seq(AnyCall) /\ \A k \in 1 .. Len(Floppy!Below) : CallWaits(Floppy!Below[k])
    BY <1>1, TopIs
  <1> HIDE DEF c
  <1> QED BY <1>2, <1>3, <1>4, <1>5, PushedWalks

LEMMA EnterWalks ==
    ASSUME Floppy!FloppyConstants, WalkInv, UNCHANGED <<reader, disk>>,
           report' \in Seq(Nat \X Int), NEW sector \in Readable, NEW calls \in Seq(AnyCall),
           \A k \in 1 .. Len(calls) : CallWaits(calls[k]), Floppy!Enter(sector, calls)
    PROVE  WalkInv'
  <1> DEFINE c == Floppy!Call(sector)
  <1>1. c \in AnyCall /\ c.sector = sector /\ c.i = 0
    BY DEF Floppy!Call, AnyCall, Floppy!FloppyConstants
  <1>2. Floppy!Start(sector) \in Nat
    BY StartIs
  <1>3. levels' = <<c>> \o calls /\ filePos' = Floppy!Start(c.sector) + c.i
    BY <1>1, <1>2 DEF Floppy!Enter
  <1> HIDE DEF c
  <1> QED BY <1>1, <1>3, PushedWalks

(* What the next sector is.                                                *)
NextIs == IF Floppy!Top.sector < 0 THEN Floppy!Top.sector + 1 ELSE Floppy!GetFat12(Floppy!Top.sector)
GoesOn ==
    \/ Floppy!Top.sector < 0 /\ NextIs < 0
    \/ Floppy!Top.sector >= 0 /\ Floppy!InData(NextIs)

LEMMA NextSectorIs ==
    ASSUME Floppy!FloppyConstants, WalkInv, levels # <<>>
    PROVE  /\ GoesOn => NextIs \in Readable
           /\ Floppy!NextSector <=>
                 /\ Floppy!Top.i = Entries
                 /\ GoesOn => Floppy!Enter(NextIs, Floppy!Below)
                 /\ ~GoesOn => Floppy!Leave
                 /\ UNCHANGED <<reader, disk, report>>
  <1>1. Floppy!Top.sector \in Readable
    BY TopIs, CallIs
  <1>2. Floppy!Top.sector >= 0 => Floppy!GetFat12(Floppy!Top.sector) \in Int
    BY <1>1, TableIsRead DEF Readable, WalkInv
  <1>3. GoesOn => NextIs \in Readable
    <2>1. SECTORS \in Nat
      BY DEF Floppy!FloppyConstants
    <2>2. ASSUME NEW n \in Int, Floppy!InData(n) PROVE n \in Readable
      BY <2>1, <2>2 DEF Readable, Floppy!InData, Floppy!BAD_SECTOR, Floppy!EOC_MARKER_START
    <2>3. ASSUME NEW s \in Readable, s < 0, s + 1 < 0 PROVE s + 1 \in Readable
      BY <2>1, <2>3 DEF Readable
    <2>4. Floppy!Top.sector < 0 => ~(Floppy!Top.sector >= 0)
      BY <1>1 DEF Readable
    <2> QED BY <1>1, <1>2, <2>2, <2>3, <2>4, Zenon DEF GoesOn, NextIs
  <1> QED BY <1>3 DEF Floppy!NextSector, GoesOn, NextIs

LEMMA WalkStart == Floppy!FloppyConstants /\ Floppy!Init => WalkInv
  <1> SUFFICES ASSUME Floppy!FloppyConstants, Floppy!Init PROVE WalkInv
    OBVIOUS
  <1> DEFINE c == Floppy!Call(Floppy!RootSector(0))
  <1>1. SECTORS \in Nat \ {0} /\ Entries \in Nat \ {0}
    BY DEF Floppy!FloppyConstants
  <1>2. c \in AnyCall /\ c.sector \in Readable /\ c.i = 0
    BY <1>1 DEF Floppy!Call, AnyCall, Floppy!RootSector, Readable
  <1>3. levels = <<c>> /\ filePos = Floppy!Start(c.sector) /\ report = <<>>
        /\ reader \in {"floppyDir", "floppyDirNew"} /\ disk \in Images
    BY DEF Floppy!Init, Floppy!Call
  <1>4. /\ Floppy!Start(c.sector) \in Nat /\ Floppy!SectorStart(4088) \in Nat
        /\ Floppy!Start(c.sector) + Entries <= Floppy!SectorStart(4088)
    BY <1>2, StartIs
  <1> HIDE DEF c
  <1>5. levels \in Seq(AnyCall) /\ Len(levels) = 1 /\ levels[1] = c /\ report \in Seq(Nat \X Int)
    BY <1>2, <1>3
  <1> QED BY <1>1, <1>2, <1>3, <1>4, <1>5 DEF WalkInv

LEMMA WalkStays ==
    ASSUME Floppy!FloppyConstants, WalkInv, [Floppy!Next]_Floppy!vars
    PROVE  WalkInv'
  <1>0. report \in Seq(Nat \X Int) /\ disk \in Images
    BY DEF WalkInv
  <1>1. CASE Floppy!NextSector
    <2>1. levels # <<>>
      BY <1>1 DEF Floppy!NextSector
    <2>2. CASE GoesOn
      <3>1. /\ NextIs \in Readable /\ Floppy!Enter(NextIs, Floppy!Below)
            /\ UNCHANGED <<reader, disk, report>>
        BY <1>1, <2>1, <2>2, NextSectorIs
      <3>2. /\ Floppy!Below \in Seq(AnyCall)
            /\ \A k \in 1 .. Len(Floppy!Below) : CallWaits(Floppy!Below[k])
        BY <2>1, TopIs
      <3>3. report' \in Seq(Nat \X Int)
        BY <1>0, <3>1
      <3> QED BY <3>1, <3>2, <3>3, EnterWalks
    <2>3. CASE ~GoesOn
      BY <1>1, <2>1, <2>3, NextSectorIs, LeaveWalks
    <2> QED BY <2>2, <2>3
  <1>2. CASE Floppy!EndOfDirectory
    BY <1>2, LeaveWalks DEF Floppy!EndOfDirectory, Floppy!Reading
  <1>3. CASE Floppy!Skip
    <2>1. report' \in Seq(Nat \X Int) /\ UNCHANGED <<reader, disk>>
      BY <1>0, <1>3 DEF Floppy!Skip
    <2> QED BY <1>3, <2>1, SkipWalks DEF Floppy!Skip
  <1>4. ASSUME Floppy!Report, levels # <<>> PROVE report' \in Seq(Nat \X Int) /\ UNCHANGED <<reader, disk>>
    <2>1. Len(levels) - 1 \in Nat /\ filePos \in Int
      BY <1>4, TopIs DEF WalkInv
    <2> QED BY <1>0, <1>4, <2>1 DEF Floppy!Report
  <1>5. CASE Floppy!File
    BY <1>4, <1>5, SkipWalks DEF Floppy!File, Floppy!Reading
  <1>6. CASE Floppy!Directory
    <2> DEFINE c == [levels[1] EXCEPT !.nextEntryPos = filePos + 1]
    <2>1. /\ levels # <<>> /\ Floppy!Entry \in Floppy!SubDirs /\ Floppy!Top = levels[1]
          /\ levels[1] \in AnyCall /\ levels[1].i < Entries
      BY <1>6, TopIs DEF Floppy!Directory, Floppy!Reading
    <2>2. /\ Floppy!Below \in Seq(AnyCall)
          /\ \A k \in 1 .. Len(Floppy!Below) : CallWaits(Floppy!Below[k])
      BY <2>1, TopIs
    <2>3. disk.chain[Floppy!Entry][1] \in Readable
      <3>1. 1 \in 1 .. Len(disk.chain[Floppy!Entry])
        BY <1>0, <2>1, DiskIs
      <3> QED BY <1>0, <2>1, <3>1, ClusterIs
    <2>4. filePos \in Int /\ filePos = Floppy!Start(levels[1].sector) + levels[1].i
      BY <2>1 DEF WalkInv
    <2>5. c \in AnyCall /\ CallWaits(c)
      BY <2>1, <2>4, CallIs DEF CallWaits, AnyCall
    <2> HIDE DEF c
    <2>6. /\ <<c>> \o Floppy!Below \in Seq(AnyCall)
          /\ \A k \in 1 .. Len(<<c>> \o Floppy!Below) : CallWaits((<<c>> \o Floppy!Below)[k])
      <3> DEFINE all == <<c>> \o Floppy!Below
      <3>1. /\ all \in Seq(AnyCall) /\ Len(all) = Len(Floppy!Below) + 1 /\ all[1] = c
            /\ Len(Floppy!Below) \in Nat
            /\ \A k \in 2 .. Len(Floppy!Below) + 1 : 
                   all[k] = Floppy!Below[k - 1] /\ k - 1 \in 1 .. Len(Floppy!Below)
        BY <2>2, <2>5, PushIs, PushedAre
      <3> HIDE DEF all
      <3>2. ASSUME NEW k \in 1 .. Len(all) PROVE CallWaits(all[k])
        <4>1. CASE k = 1
          BY <2>5, <3>1, <4>1
        <4>2. CASE k # 1
          <5>1. k \in 2 .. Len(Floppy!Below) + 1
            BY <3>1, <4>2
          <5> QED BY <2>2, <3>1, <5>1
        <4> QED BY <4>1, <4>2
      <3> QED BY <3>1, <3>2 DEF all
    <2>7. /\ Floppy!Report
          /\ Floppy!Enter(disk.chain[Floppy!Entry][1], <<c>> \o Floppy!Below)
      BY <1>6, <2>1 DEF Floppy!Directory, c
    <2> QED BY <1>4, <2>1, <2>3, <2>6, <2>7, EnterWalks
  <1>7. CASE UNCHANGED Floppy!vars
    BY <1>7 DEF Floppy!vars, WalkInv
  <1> QED BY <1>1, <1>2, <1>3, <1>5, <1>6, <1>7 DEF Floppy!Next, Floppy!Step

-----------------------------------------------------------------------------
(* Where the entries are.  A call is at the k-th entry of a directory.     *)
SectorsOf(d) == IF d = "root" THEN SECTORS ELSE Len(disk.chain[d])
SectorOf(d, n) == IF d = "root" THEN n - SECTORS ELSE disk.chain[d][n + 1]
IsAt(c, d, k) ==
    \E n \in 0 .. SectorsOf(d) - 1 : c.sector = SectorOf(d, n) /\ k = n * Entries + c.i + 1

LEMMA DirIs ==
    ASSUME Floppy!FloppyConstants, disk \in Images, NEW d \in Floppy!Dirs
    PROVE  /\ SectorsOf(d) \in Nat \ {0} /\ Len(disk.dirs[d]) \in Nat
           /\ Len(disk.dirs[d]) <= SectorsOf(d) * Entries
           /\ d # "root" => d \in Floppy!SubDirs
  <1>1. d = "root" \/ (d # "root" /\ d \in Floppy!SubDirs)
    BY DEF Floppy!Dirs
  <1>2. SECTORS \in Nat \ {0} /\ Floppy!WellFormed(disk)
    BY DEF Floppy!FloppyConstants
  <1>3. Len(disk.dirs[d]) \in Nat
    BY DiskIs
  <1>4. Len(disk.dirs["root"]) <= SECTORS * Entries
    BY <1>2 DEF Floppy!WellFormed
  <1>5. d \in Floppy!SubDirs => Len(disk.dirs[d]) <= Len(disk.chain[d]) * Entries
    BY <1>2 DEF Floppy!WellFormed
  <1>6. d \in Floppy!SubDirs => Len(disk.chain[d]) \in Nat /\ Len(disk.chain[d]) >= 1
    BY DiskIs
  <1> QED BY <1>1, <1>2, <1>3, <1>4, <1>5, <1>6 DEF SectorsOf

LEMMA UnitIs ==
    ASSUME Floppy!FloppyConstants, disk \in Images,
           NEW d \in Floppy!Dirs, NEW n \in 0 .. SectorsOf(d) - 1
    PROVE  /\ SectorOf(d, n) \in Readable /\ n \in Nat
           /\ d = "root" => Unit(SectorOf(d, n)) = n /\ n < SECTORS
           /\ d # "root" => /\ n + 1 \in 1 .. Len(disk.chain[d])
                            /\ disk.chain[d][n + 1] \in 2 .. Clusters + 1
                            /\ SectorOf(d, n) = disk.chain[d][n + 1]
                            /\ Unit(SectorOf(d, n)) = SECTORS + disk.chain[d][n + 1] - 2
           /\ Unit(SectorOf(d, n)) \in Nat /\ Unit(SectorOf(d, n)) < SECTORS + Clusters
  <1>1. SECTORS \in Nat \ {0} /\ Clusters \in Nat
    BY DEF Floppy!FloppyConstants
  <1>2. CASE d = "root"
    <2>1. n \in 0 .. SECTORS - 1 /\ SectorOf(d, n) = n - SECTORS
      BY <1>2 DEF SectorsOf, SectorOf
    <2>2. n - SECTORS \in Readable /\ Unit(n - SECTORS) = n /\ n \in Nat /\ n < SECTORS
          /\ n < SECTORS + Clusters
      BY <1>1, <2>1 DEF Readable, Unit
    <2> QED BY <1>2, <2>1, <2>2
  <1>3. CASE d # "root"
    <2>1. d \in Floppy!SubDirs /\ SectorsOf(d) = Len(disk.chain[d]) /\ SectorsOf(d) \in Nat
      BY <1>3, DirIs DEF SectorsOf
    <2>2. n + 1 \in 1 .. Len(disk.chain[d]) /\ n \in Nat
      BY <2>1
    <2>3. /\ disk.chain[d][n + 1] \in 2 .. Clusters + 1 /\ disk.chain[d][n + 1] \in Readable
          /\ SectorOf(d, n) = disk.chain[d][n + 1]
      BY <1>3, <2>1, <2>2, ClusterIs DEF SectorOf
    <2>4. ASSUME NEW c \in 2 .. Clusters + 1
          PROVE  Unit(c) = SECTORS + c - 2 /\ Unit(c) \in Nat /\ Unit(c) < SECTORS + Clusters
      BY <1>1 DEF Unit
    <2> QED BY <1>3, <2>2, <2>3, <2>4
  <1> QED BY <1>2, <1>3

(* A sector has a place in the file of its own.                            *)
LEMMA UnitsDiffer ==
    ASSUME Floppy!FloppyConstants, disk \in Images,
           NEW d \in Floppy!Dirs, NEW n \in 0 .. SectorsOf(d) - 1,
           NEW e \in Floppy!Dirs, NEW m \in 0 .. SectorsOf(e) - 1,
           Unit(SectorOf(d, n)) = Unit(SectorOf(e, m))
    PROVE  d = e /\ n = m
  <1>0. SECTORS \in Nat \ {0} /\ Clusters \in Nat
    BY DEF Floppy!FloppyConstants
  <1>1. ASSUME NEW f \in Floppy!Dirs, NEW k \in 0 .. SectorsOf(f) - 1
        PROVE  f = "root" <=> Unit(SectorOf(f, k)) < SECTORS
    <2>1. CASE f = "root"
      BY <2>1, UnitIs
    <2>2. CASE f # "root"
      <3>1. /\ disk.chain[f][k + 1] \in 2 .. Clusters + 1
            /\ Unit(SectorOf(f, k)) = SECTORS + disk.chain[f][k + 1] - 2
        BY <2>2, UnitIs
      <3>2. \A c \in 2 .. Clusters + 1 : ~(SECTORS + c - 2 < SECTORS)
        BY <1>0
      <3> QED BY <2>2, <3>1, <3>2
    <2> QED BY <2>1, <2>2
  <1>2. CASE d = "root"
    <2>1. e = "root"
      BY <1>1, <1>2
    <2> QED BY <1>2, <2>1, UnitIs
  <1>3. CASE d # "root"
    <2>1. e # "root"
      BY <1>1, <1>3
    <2>2. /\ disk.chain[d][n + 1] \in 2 .. Clusters + 1
          /\ disk.chain[e][m + 1] \in 2 .. Clusters + 1
          /\ SECTORS + disk.chain[d][n + 1] - 2 = SECTORS + disk.chain[e][m + 1] - 2
          /\ n + 1 \in 1 .. Len(disk.chain[d]) /\ m + 1 \in 1 .. Len(disk.chain[e])
          /\ n \in Nat /\ m \in Nat /\ d \in Floppy!SubDirs /\ e \in Floppy!SubDirs
      <3>1. /\ n + 1 \in 1 .. Len(disk.chain[d]) /\ disk.chain[d][n + 1] \in 2 .. Clusters + 1
            /\ Unit(SectorOf(d, n)) = SECTORS + disk.chain[d][n + 1] - 2 /\ n \in Nat
        BY <1>3, UnitIs
      <3>2. /\ m + 1 \in 1 .. Len(disk.chain[e]) /\ disk.chain[e][m + 1] \in 2 .. Clusters + 1
            /\ Unit(SectorOf(e, m)) = SECTORS + disk.chain[e][m + 1] - 2 /\ m \in Nat
        BY <2>1, UnitIs
      <3>3. d \in Floppy!SubDirs /\ e \in Floppy!SubDirs
        BY <1>3, <2>1, DirIs
      <3> QED BY <3>1, <3>2, <3>3
    <2>3. disk.chain[d][n + 1] = disk.chain[e][m + 1]
      <3>1. \A b, c \in 2 .. Clusters + 1 : SECTORS + b - 2 = SECTORS + c - 2 => b = c
        BY <1>0
      <3> QED BY <2>2, <3>1
    <2>4. /\ <<d, n + 1>> \in Floppy!PlacesIn(disk.chain)
          /\ <<e, m + 1>> \in Floppy!PlacesIn(disk.chain)
      BY <2>2, DiskPlaces
    <2>5. <<d, n + 1>> = <<e, m + 1>>
      <3>1. \A g, h \in Floppy!PlacesIn(disk.chain) :
               disk.chain[g[1]][g[2]] = disk.chain[h[1]][h[2]] => g = h
        BY DEF Floppy!FloppyConstants, Floppy!WellFormed
      <3>2. \A x, y : <<x, y>>[1] = x /\ <<x, y>>[2] = y
        OBVIOUS
      <3> QED BY <2>3, <2>4, <3>1, <3>2
    <2>6. d = e /\ n + 1 = m + 1
      BY <2>5
    <2> QED BY <2>2, <2>6
  <1> QED BY <1>2, <1>3

LEMMA Division ==
    ASSUME NEW e \in Nat \ {0}
    PROVE  /\ \A n \in Nat, i \in 0 .. e - 1 :
                  (n * e + i) \div e = n /\ (n * e + i) % e = i
           /\ \A k \in Nat : /\ k \div e \in Nat /\ k % e \in 0 .. e - 1
                             /\ k = (k \div e) * e + (k % e)
           /\ \A m, n \in Nat, i, j \in 0 .. e - 1 : m * e + i = n * e + j => m = n /\ i = j
           /\ \A m, n \in Nat, i \in 0 .. e - 1 : m * e + i < n * e => m < n
           /\ \A m, n \in Nat, i \in 0 .. e - 1 : m < n => m * e + i < n * e
  <1>1. \A k \in Nat : /\ k \div e \in Nat /\ k % e \in 0 .. e - 1
                       /\ k = (k \div e) * e + (k % e)
    OBVIOUS
  <1>2. ASSUME NEW m \in Nat, NEW n \in Nat, NEW i \in 0 .. e - 1, m < n
        PROVE  m * e + i < n * e
    <2>1. (m + 1) * e <= n * e /\ (m + 1) * e = m * e + e /\ m * e \in Nat /\ n * e \in Nat
      <3>1. m + 1 \in Nat /\ m + 1 <= n
        BY <1>2
      <3> QED BY <3>1, Products
    <2> QED BY <2>1
  <1>3. ASSUME NEW m \in Nat, NEW n \in Nat, NEW i \in 0 .. e - 1, m * e + i < n * e PROVE m < n
    <2>1. SUFFICES ASSUME n <= m PROVE FALSE
      OBVIOUS
    <2>2. n * e <= m * e /\ n * e \in Nat /\ m * e \in Nat
      BY <2>1, Products
    <2> QED BY <1>3, <2>2
  <1>4. ASSUME NEW m \in Nat, NEW n \in Nat, NEW i \in 0 .. e - 1, NEW j \in 0 .. e - 1,
               m * e + i = n * e + j
        PROVE  m = n /\ i = j
    <2>1. m * e \in Nat /\ n * e \in Nat
      BY Products
    <2>2. ~(m < n)
      <3>1. SUFFICES ASSUME m < n PROVE FALSE
        OBVIOUS
      <3>2. m * e + i < n * e
        BY <1>2, <3>1
      <3> QED BY <1>4, <2>1, <3>2
    <2>3. ~(n < m)
      <3>1. SUFFICES ASSUME n < m PROVE FALSE
        OBVIOUS
      <3>2. n * e + j < m * e
        BY <1>2, <3>1
      <3> QED BY <1>4, <2>1, <3>2
    <2>4. m = n
      BY <2>2, <2>3
    <2> QED BY <1>4, <2>1, <2>4
  <1>5. ASSUME NEW n \in Nat, NEW i \in 0 .. e - 1
        PROVE  (n * e + i) \div e = n /\ (n * e + i) % e = i
    <2> DEFINE k == n * e + i
    <2>1. k \in Nat
      BY Products
    <2>2. k \div e \in Nat /\ k % e \in 0 .. e - 1 /\ n * e + i = (k \div e) * e + (k % e)
      BY <1>1, <2>1
    <2> HIDE DEF k
    <2>3. k \div e = n /\ k % e = i
      BY <1>4, <2>2
    <2> QED BY <2>3 DEF k
  <1> QED BY <1>1, <1>2, <1>3, <1>4, <1>5

LEMMA PlaceIs ==
    ASSUME Floppy!FloppyConstants, disk \in Images,
           NEW d \in Floppy!Dirs, NEW n \in 0 .. SectorsOf(d) - 1, NEW i \in 0 .. Entries - 1
    PROVE  Floppy!Place(d, n * Entries + i + 1) = Unit(SectorOf(d, n)) * Entries + i
  <1>1. Entries \in Nat \ {0} /\ SECTORS \in Nat /\ n \in Nat
    BY UnitIs DEF Floppy!FloppyConstants
  <1>2. /\ (n * Entries + i) \div Entries = n /\ (n * Entries + i) % Entries = i
    <2>1. n * Entries \in Nat /\ i \in Nat
      BY <1>1, Products
    <2>2. (n * Entries + i) \div Entries = n /\ (n * Entries + i) % Entries = i
      BY <1>1, Division
    <2> QED BY <2>1, <2>2
  <1> DEFINE k == n * Entries + i + 1
  <1>5. k - 1 = n * Entries + i /\ (k - 1) \div Entries = n /\ (k - 1) % Entries = i
    <2>1. k - 1 = n * Entries + i
      <3> DEFINE p == n * Entries
      <3>1. p \in Nat /\ i \in Nat
        BY <1>1, Products
      <3> HIDE DEF p
      <3>2. (p + i + 1) - 1 = p + i
        BY <3>1
      <3> QED BY <3>2, Zenon DEF p, k
    <2> HIDE DEF k
    <2> QED BY <1>2, <2>1, Zenon
  <1> HIDE DEF k
  <1>3. CASE d = "root"
    <2>1. Floppy!Place(d, k) = n * Entries + i
      BY <1>3, <1>5, Zenon DEF Floppy!Place
    <2>2. Unit(SectorOf(d, n)) = n
      BY <1>3, UnitIs
    <2> QED BY <2>1, <2>2, Zenon DEF k
  <1>4. CASE d # "root"
    <2>1. Floppy!Place(d, k) = Floppy!SectorStart(disk.chain[d][n + 1]) + i
      BY <1>4, <1>5, Zenon DEF Floppy!Place
    <2>2. Unit(SectorOf(d, n)) = SECTORS + disk.chain[d][n + 1] - 2
      BY <1>4, UnitIs
    <2> QED BY <2>1, <2>2, Zenon DEF Floppy!SectorStart, k
  <1> QED BY <1>3, <1>4

(* An entry is in one of its directory's sectors.                          *)
LEMMA EntrySectorIs ==
    ASSUME Floppy!FloppyConstants, disk \in Images, NEW e \in Floppy!PlacesIn(disk.dirs)
    PROVE  \E n \in 0 .. SectorsOf(e[1]) - 1, i \in 0 .. Entries - 1 : e[2] = n * Entries + i + 1
  <1>1. e[1] \in Floppy!Dirs /\ e[2] \in 1 .. Len(disk.dirs[e[1]])
    BY DiskPlaces
  <1>2. /\ SectorsOf(e[1]) \in Nat /\ Len(disk.dirs[e[1]]) \in Nat
        /\ Len(disk.dirs[e[1]]) <= SectorsOf(e[1]) * Entries
    BY <1>1, DirIs
  <1>3. Entries \in Nat \ {0}
    BY DEF Floppy!FloppyConstants
  <1> DEFINE k == e[2] - 1
             n == k \div Entries
             i == k % Entries
  <1>4. k \in Nat /\ k < SectorsOf(e[1]) * Entries /\ e[2] = k + 1
    <2>1. SectorsOf(e[1]) * Entries \in Nat
      BY <1>2, <1>3, Products
    <2> QED BY <1>1, <1>2, <2>1
  <1> HIDE DEF k
  <1>5. n \in Nat /\ i \in 0 .. Entries - 1 /\ k = n * Entries + i
    BY <1>3, <1>4, Division
  <1> HIDE DEF n, i
  <1>6. n < SectorsOf(e[1])
    BY <1>2, <1>3, <1>4, <1>5, Division
  <1>7. n \in 0 .. SectorsOf(e[1]) - 1 /\ e[2] = n * Entries + i + 1
    BY <1>2, <1>4, <1>5, <1>6
  <1> QED BY <1>5, <1>7

(* The k-th entry is read where the k-th entry is, and behind the last one *)
(* there is none.                                                          *)
LEMMA EntryIsRead ==
    ASSUME Floppy!FloppyConstants, disk \in Images, NEW d \in Floppy!Dirs,
           NEW n \in 0 .. SectorsOf(d) - 1, NEW i \in 0 .. Entries - 1, NEW k,
           k = n * Entries + i + 1, filePos = Unit(SectorOf(d, n)) * Entries + i
    PROVE  /\ k \in 1 .. Len(disk.dirs[d]) => /\ <<d, k>> \in Floppy!PlacesIn(disk.dirs)
                                              /\ Floppy!Entry = disk.dirs[d][k]
           /\ k \notin 1 .. Len(disk.dirs[d]) => Floppy!Entry = "none"
           /\ Floppy!Place(d, k) = filePos
  <1>0. Entries \in Nat \ {0} /\ SECTORS \in Nat /\ Clusters \in Nat
    BY DEF Floppy!FloppyConstants
  <1>1. Floppy!Place(d, k) = filePos
    BY PlaceIs
  <1>2. ASSUME NEW e \in Floppy!PlacesIn(disk.dirs), Floppy!Place(e[1], e[2]) = filePos
        PROVE  e = <<d, k>> /\ k \in 1 .. Len(disk.dirs[d])
    <2>1. e[1] \in Floppy!Dirs /\ e[2] \in 1 .. Len(disk.dirs[e[1]]) /\ e = <<e[1], e[2]>>
      BY DiskPlaces
    <2>2. PICK m \in 0 .. SectorsOf(e[1]) - 1, j \in 0 .. Entries - 1 : e[2] = m * Entries + j + 1
      BY EntrySectorIs
    <2>3. Floppy!Place(e[1], e[2]) = Unit(SectorOf(e[1], m)) * Entries + j
      BY <2>1, <2>2, PlaceIs
    <2>4. Unit(SectorOf(e[1], m)) \in Nat /\ Unit(SectorOf(d, n)) \in Nat
      BY <2>1, <2>2, UnitIs
    <2>5. Unit(SectorOf(e[1], m)) = Unit(SectorOf(d, n)) /\ i = j
      <3> DEFINE u == Unit(SectorOf(e[1], m))
                 v == Unit(SectorOf(d, n))
      <3>1. u * Entries + j = v * Entries + i /\ u \in Nat /\ v \in Nat
        BY <1>2, <2>3, <2>4
      <3> HIDE DEF u, v
      <3>2. \A a, b \in Nat, x, y \in 0 .. Entries - 1 :
               a * Entries + x = b * Entries + y => a = b /\ x = y
        BY <1>0, Division
      <3>3. u = v /\ j = i
        BY <3>1, <3>2
      <3> QED BY <3>3 DEF u, v
    <2>6. e[1] = d /\ m = n
      BY <2>1, <2>2, <2>5, UnitsDiffer
    <2> QED BY <2>1, <2>2, <2>5, <2>6
  <1>3. CASE k \notin 1 .. Len(disk.dirs[d])
    <2>1. {e \in Floppy!PlacesIn(disk.dirs) : Floppy!Place(e[1], e[2]) = filePos} = {}
      BY <1>2, <1>3
    <2>2. Floppy!EntryAt(filePos) = "none"
      BY <2>1 DEF Floppy!EntryAt
    <2> QED BY <1>1, <1>3, <2>2 DEF Floppy!Entry
  <1>4. CASE k \in 1 .. Len(disk.dirs[d])
    <2> DEFINE here == {e \in Floppy!PlacesIn(disk.dirs) : Floppy!Place(e[1], e[2]) = filePos}
    <2>0. <<d, k>> \in Floppy!PlacesIn(disk.dirs)
      BY <1>4, DiskPlaces
    <2>1. <<d, k>> \in here /\ \A e \in here : e = <<d, k>>
      BY <1>1, <1>2, <2>0
    <2>2. (CHOOSE e \in here : TRUE) = <<d, k>> /\ here # {}
      BY <2>1
    <2>3. Floppy!EntryAt(filePos) = Floppy!Held(<<d, k>>)
      BY <2>2 DEF Floppy!EntryAt
    <2>4. filePos < Floppy!EndOfFile
      <3>1. Unit(SectorOf(d, n)) \in Nat /\ Unit(SectorOf(d, n)) < SECTORS + Clusters
        BY UnitIs
      <3>2. Unit(SectorOf(d, n)) * Entries + i < (SECTORS + Clusters) * Entries
        <4> DEFINE u == Unit(SectorOf(d, n))
                   all == SECTORS + Clusters
        <4>1. u \in Nat /\ all \in Nat /\ u < all
          BY <1>0, <3>1
        <4> HIDE DEF u, all
        <4>2. \A a, b \in Nat, x \in 0 .. Entries - 1 : a < b => a * Entries + x < b * Entries
          BY <1>0, Division
        <4>3. u * Entries + i < all * Entries
          BY <4>1, <4>2
        <4> QED BY <4>3 DEF u, all
      <3>3. SECTORS + (Clusters + 2) - 2 = SECTORS + Clusters
        BY <1>0
      <3> QED BY <3>2, <3>3 DEF Floppy!EndOfFile, Floppy!SectorStart
    <2>5. filePos \in Int /\ Floppy!EndOfFile \in Int
      <3>1. Unit(SectorOf(d, n)) * Entries \in Nat
        BY <1>0, UnitIs, Products
      <3>2. (SECTORS + Clusters + 2 - 2) * Entries \in Int
        BY <1>0
      <3> QED BY <1>0, <3>1 DEF Floppy!EndOfFile, Floppy!SectorStart
    <2>6. Floppy!Entry = Floppy!EntryAt(filePos)
      BY <2>4, <2>5 DEF Floppy!Entry
    <2> QED BY <1>1, <1>4, <2>0, <2>3, <2>6 DEF Floppy!Held
  <1> QED BY <1>3, <1>4, <1>1

-----------------------------------------------------------------------------
(* The way of the reader: the entries whose directories it is in, and the  *)
(* place it has got to in the last of them.                                *)
PlacesOfDisk == Floppy!PlacesIn(disk.dirs)

Way(r) ==
    /\ r \in Seq(Floppy!Dirs \X Nat) /\ Len(r) # 0 /\ r[1][1] = "root"
    /\ \A n \in 1 .. Len(r) - 1 : r[n] \in PlacesOfDisk /\ r[n + 1][1] = Floppy!Held(r[n])
    /\ r[Len(r)][2] \in 1 .. Len(disk.dirs[r[Len(r)][1]]) + 1

WayOf(calls, r) ==
    /\ Way(r) /\ Len(r) = Len(calls)
    /\ \A n \in 1 .. Len(r) : IsAt(calls[Len(r) + 1 - n], r[n][1], r[n][2])

(* The next entry of the directory, the first of the one that it stands    *)
(* for, and the way to that one.                                           *)
Bump(r) == [r EXCEPT ![Len(r)] = <<r[Len(r)][1], r[Len(r)][2] + 1>>]
Grow(r, e) == Append(r, <<e, 1>>)
Back(r) == [n \in 1 .. Len(r) - 1 |-> r[n]]

Under(g, r) == Len(r) <= Len(g) /\ \A m \in 1 .. Len(r) : g[m] = r[m]

LEMMA RouteIs ==
    ASSUME Floppy!FloppyConstants, disk \in Images, NEW g \in Floppy!Routes
    PROVE  /\ Len(g) \in Nat \ {0} /\ Len(g) <= 3 /\ g \in [1 .. Len(g) -> PlacesOfDisk]
           /\ g[1][1] = "root"
           /\ \A n \in 1 .. Len(g) :
                 /\ g[n] \in PlacesOfDisk /\ g[n][1] \in Floppy!Dirs
                 /\ g[n][2] \in 1 .. Len(disk.dirs[g[n][1]]) /\ g[n] = <<g[n][1], g[n][2]>>
           /\ \A n \in 1 .. Len(g) - 1 : g[n + 1][1] = Floppy!Held(g[n])
  <1>1. PICK n \in 1 .. 3 : g \in [1 .. n -> PlacesOfDisk]
    BY DEF Floppy!Routes, PlacesOfDisk
  <1>2. Len(g) = n
    BY <1>1
  <1>3. g[1][1] = "root" /\ \A m \in 1 .. Len(g) - 1 : g[m + 1][1] = Floppy!Held(g[m])
    BY DEF Floppy!Routes
  <1>4. \A m \in 1 .. Len(g) : g[m] \in PlacesOfDisk
    BY <1>1, <1>2
  <1>5. \A e \in PlacesOfDisk : /\ e[1] \in Floppy!Dirs /\ e[2] \in 1 .. Len(disk.dirs[e[1]])
                                /\ e = <<e[1], e[2]>>
    BY DiskPlaces DEF PlacesOfDisk
  <1> QED BY <1>1, <1>2, <1>3, <1>4, <1>5

LEMMA WayIs ==
    ASSUME Floppy!FloppyConstants, disk \in Images, NEW r, Way(r)
    PROVE  /\ Len(r) \in Nat \ {0} /\ r \in [1 .. Len(r) -> Floppy!Dirs \X Nat]
           /\ \A n \in 1 .. Len(r) : /\ r[n][1] \in Floppy!Dirs /\ r[n][2] \in Nat
                                     /\ r[n] = <<r[n][1], r[n][2]>>
           /\ Len(disk.dirs[r[Len(r)][1]]) \in Nat
  <1>1. Len(r) \in Nat \ {0} /\ r \in [1 .. Len(r) -> Floppy!Dirs \X Nat]
    BY DEF Way
  <1>2. \A n \in 1 .. Len(r) : /\ r[n][1] \in Floppy!Dirs /\ r[n][2] \in Nat
                               /\ r[n] = <<r[n][1], r[n][2]>>
    BY <1>1
  <1> QED BY <1>1, <1>2, DiskIs

LEMMA LastChanged ==
    ASSUME NEW S, NEW n \in Nat \ {0}, NEW s \in [1 .. n -> S], NEW x \in S
    PROVE  /\ [s EXCEPT ![n] = x] \in [1 .. n -> S]
           /\ \A k \in 1 .. n - 1 : [s EXCEPT ![n] = x][k] = s[k]
           /\ [s EXCEPT ![n] = x][n] = x
  OBVIOUS

LEMMA ExtendedWays ==
    ASSUME Floppy!FloppyConstants, disk \in Images, NEW r, Way(r)
    PROVE  /\ Bump(r) \in Seq(Floppy!Dirs \X Nat) /\ Len(Bump(r)) = Len(r)
           /\ \A n \in 1 .. Len(r) - 1 : Bump(r)[n] = r[n]
           /\ Bump(r)[Len(r)] = <<r[Len(r)][1], r[Len(r)][2] + 1>>
           /\ \A e \in Floppy!Dirs : 
                 /\ Grow(r, e) \in Seq(Floppy!Dirs \X Nat) /\ Len(Grow(r, e)) = Len(r) + 1
                 /\ \A n \in 1 .. Len(r) : Grow(r, e)[n] = r[n]
                 /\ Grow(r, e)[Len(r) + 1] = <<e, 1>>
           /\ Back(r) \in Seq(Floppy!Dirs \X Nat) /\ Len(Back(r)) = Len(r) - 1
           /\ \A n \in 1 .. Len(r) - 1 : Back(r)[n] = r[n]
  <1>1. /\ Len(r) \in Nat \ {0} /\ r \in [1 .. Len(r) -> Floppy!Dirs \X Nat]
        /\ r[Len(r)][1] \in Floppy!Dirs /\ r[Len(r)][2] \in Nat /\ Len(r) \in 1 .. Len(r)
    BY WayIs
  <1> DEFINE x == <<r[Len(r)][1], r[Len(r)][2] + 1>>
  <1>2. x \in Floppy!Dirs \X Nat
    BY <1>1
  <1>3. /\ Bump(r) \in [1 .. Len(r) -> Floppy!Dirs \X Nat]
        /\ \A n \in 1 .. Len(r) - 1 : Bump(r)[n] = r[n]
        /\ Bump(r)[Len(r)] = x
    <2> HIDE DEF x
    <2>1. Bump(r) = [r EXCEPT ![Len(r)] = x]
      BY DEF Bump, x
    <2> DEFINE n == Len(r)
    <2>2. n \in Nat \ {0} /\ r \in [1 .. n -> Floppy!Dirs \X Nat] /\ x \in Floppy!Dirs \X Nat
      BY <1>1, <1>2
    <2> HIDE DEF n
    <2>3. /\ [r EXCEPT ![n] = x] \in [1 .. n -> Floppy!Dirs \X Nat]
          /\ \A m \in 1 .. n - 1 : [r EXCEPT ![n] = x][m] = r[m]
          /\ [r EXCEPT ![n] = x][n] = x
      BY <2>2, LastChanged
    <2> QED BY <2>1, <2>3, Zenon DEF n
  <1>4. Bump(r) \in Seq(Floppy!Dirs \X Nat) /\ Len(Bump(r)) = Len(r)
    BY <1>1, <1>3, FunctionIsSequence
  <1>5. ASSUME NEW e \in Floppy!Dirs
        PROVE  /\ Grow(r, e) \in Seq(Floppy!Dirs \X Nat) /\ Len(Grow(r, e)) = Len(r) + 1
               /\ \A n \in 1 .. Len(r) : Grow(r, e)[n] = r[n]
               /\ Grow(r, e)[Len(r) + 1] = <<e, 1>>
    <2>1. <<e, 1>> \in Floppy!Dirs \X Nat
      OBVIOUS
    <2> QED BY <2>1 DEF Grow, Way
  <1>6. /\ Back(r) \in [1 .. Len(r) - 1 -> Floppy!Dirs \X Nat] /\ Len(r) - 1 \in Nat
        /\ \A n \in 1 .. Len(r) - 1 : Back(r)[n] = r[n]
    BY <1>1 DEF Back
  <1>7. Back(r) \in Seq(Floppy!Dirs \X Nat) /\ Len(Back(r)) = Len(r) - 1
    BY <1>6, FunctionIsSequence
  <1> QED BY <1>3, <1>4, <1>5, <1>6, <1>7

(* Where two ways part they are in one directory.                          *)
LEMMA SameDirectory ==
    ASSUME Floppy!FloppyConstants, disk \in Images, NEW r, Way(r), NEW g \in Floppy!Routes,
           NEW n \in Nat, n < Len(g), n < Len(r), \A m \in 1 .. n : g[m] = r[m]
    PROVE  g[n + 1][1] = r[n + 1][1]
  <1>1. Len(g) \in Nat /\ Len(r) \in Nat
    BY RouteIs, WayIs
  <1>2. CASE n = 0
    <2>1. g[1][1] = "root" /\ r[1][1] = "root"
      BY RouteIs DEF Way
    <2> QED BY <1>2, <2>1
  <1>3. CASE n # 0
    <2>1. n \in 1 .. Len(g) - 1 /\ n \in 1 .. Len(r) - 1 /\ n \in 1 .. n
      BY <1>1, <1>3
    <2>2. g[n + 1][1] = Floppy!Held(g[n]) /\ r[n + 1][1] = Floppy!Held(r[n])
      BY <2>1, RouteIs DEF Way
    <2>3. g[n] = r[n]
      BY <2>1
    <2> QED BY <2>2, <2>3, Zenon
  <1> QED BY <1>2, <1>3

(* What is before the next entry: what was before this one, it, and what   *)
(* is in it.                                                               *)
LEMMA BeforeBump ==
    ASSUME Floppy!FloppyConstants, disk \in Images, NEW r, Way(r), NEW g \in Floppy!Routes
    PROVE  Floppy!Earlier(g, Bump(r)) <=> Floppy!Earlier(g, r) \/ Under(g, r)
  <1> DEFINE b == Bump(r)
  <1>0. /\ Len(g) \in Nat \ {0} /\ Len(r) \in Nat \ {0} /\ Len(b) = Len(r)
        /\ \A n \in 1 .. Len(r) - 1 : b[n] = r[n]
        /\ b[Len(r)][1] = r[Len(r)][1] /\ b[Len(r)][2] = r[Len(r)][2] + 1
        /\ \A n \in 1 .. Len(r) : r[n][2] \in Nat /\ r[n] = <<r[n][1], r[n][2]>>
        /\ \A n \in 1 .. Len(g) : g[n][2] \in Nat /\ g[n] = <<g[n][1], g[n][2]>>
    <2>1. /\ Len(r) \in Nat \ {0}
          /\ \A n \in 1 .. Len(r) : r[n][2] \in Nat /\ r[n] = <<r[n][1], r[n][2]>>
      BY WayIs
    <2>2. /\ Len(b) = Len(r) /\ \A n \in 1 .. Len(r) - 1 : b[n] = r[n]
          /\ b[Len(r)] = <<r[Len(r)][1], r[Len(r)][2] + 1>>
      BY ExtendedWays
    <2>3. Len(g) \in Nat \ {0} /\ \A n \in 1 .. Len(g) : g[n] = <<g[n][1], g[n][2]>>
      BY RouteIs
    <2>4. \A n \in 1 .. Len(g) : g[n][2] \in Nat
      <3> TAKE n \in 1 .. Len(g)
      <3>1. g[n][2] \in 1 .. Len(disk.dirs[g[n][1]]) /\ g[n][1] \in Floppy!Dirs
        BY RouteIs
      <3>2. Len(disk.dirs[g[n][1]]) \in Nat
        BY <3>1, DiskIs
      <3> QED BY <3>1, <3>2
    <2> QED BY <2>1, <2>2, <2>3, <2>4
  <1> HIDE DEF b
  <1>1. ASSUME Floppy!Earlier(g, r) PROVE Floppy!Earlier(g, b)
    <2>1. PICK n \in 0 .. Len(g) :
             /\ n < Len(r) /\ \A m \in 1 .. n : g[m] = r[m]
             /\ n < Len(g) => g[n + 1][2] < r[n + 1][2]
      BY <1>1 DEF Floppy!Earlier
    <2>2. n < Len(b) /\ \A m \in 1 .. n : g[m] = b[m]
      BY <1>0, <2>1
    <2>3. n < Len(g) => g[n + 1][2] < b[n + 1][2]
      <3>1. CASE n + 1 = Len(r)
        <4>1. n + 1 \in 1 .. Len(r)
          BY <1>0, <2>1
        <4>2. b[n + 1][2] = r[n + 1][2] + 1 /\ r[n + 1][2] \in Nat
          BY <1>0, <3>1, <4>1
        <4>3. ASSUME n < Len(g) PROVE g[n + 1][2] \in Nat
          BY <1>0, <4>3
        <4> QED BY <2>1, <4>2, <4>3
      <3>2. CASE n + 1 # Len(r)
        <4>1. n + 1 \in 1 .. Len(r) - 1
          BY <1>0, <2>1, <3>2
        <4> QED BY <1>0, <2>1, <4>1
      <3> QED BY <3>1, <3>2
    <2> QED BY <2>1, <2>2, <2>3 DEF Floppy!Earlier
  <1>2. ASSUME Under(g, r) PROVE Floppy!Earlier(g, b)
    <2> DEFINE n == Len(r) - 1
    <2>1. n \in 0 .. Len(g) /\ n < Len(b) /\ n + 1 = Len(r) /\ n + 1 \in 1 .. Len(r)
      BY <1>0, <1>2 DEF Under
    <2>2. \A m \in 1 .. n : g[m] = b[m]
      BY <1>0, <1>2 DEF Under
    <2>3. g[n + 1] = r[n + 1] /\ b[n + 1][2] = r[n + 1][2] + 1 /\ r[n + 1][2] \in Nat
      <3>1. \A m \in 1 .. Len(r) : g[m] = r[m]
        BY <1>2 DEF Under
      <3> HIDE DEF n
      <3> QED BY <1>0, <2>1, <3>1
    <2>4. g[n + 1][2] < b[n + 1][2]
      <3> HIDE DEF n
      <3> QED BY <2>3
    <2> HIDE DEF n
    <2> QED BY <2>1, <2>2, <2>4 DEF Floppy!Earlier
  <1>3. ASSUME Floppy!Earlier(g, b), ~Floppy!Earlier(g, r) PROVE Under(g, r)
    <2>1. PICK n \in 0 .. Len(g) :
             /\ n < Len(b) /\ \A m \in 1 .. n : g[m] = b[m]
             /\ n < Len(g) => g[n + 1][2] < b[n + 1][2]
      BY <1>3 DEF Floppy!Earlier
    <2>2. n < Len(r) /\ \A m \in 1 .. n : g[m] = r[m]
      BY <1>0, <2>1
    <2>3. n < Len(g) /\ ~(g[n + 1][2] < r[n + 1][2])
      BY <1>3, <2>2 DEF Floppy!Earlier
    <2>4. n + 1 = Len(r)
      <3>1. SUFFICES ASSUME n + 1 # Len(r) PROVE FALSE
        OBVIOUS
      <3>2. n + 1 \in 1 .. Len(r) - 1
        BY <1>0, <2>2, <3>1
      <3>3. b[n + 1] = r[n + 1]
        BY <1>0, <3>2
      <3> QED BY <2>1, <2>3, <3>3
    <2>5. n \in Nat /\ n + 1 \in 1 .. Len(r) /\ n + 1 \in 1 .. Len(g)
      BY <1>0, <2>2, <2>3
    <2>6. g[n + 1][2] = r[n + 1][2]
      <3>1. g[n + 1][2] < r[n + 1][2] + 1 /\ g[n + 1][2] \in Nat /\ r[n + 1][2] \in Nat
        BY <1>0, <2>1, <2>3, <2>4, <2>5
      <3> QED BY <2>3, <3>1
    <2>7. g[n + 1][1] = r[n + 1][1]
      BY <2>2, <2>3, <2>5, SameDirectory
    <2>8. g[n + 1] = r[n + 1]
      BY <1>0, <2>5, <2>6, <2>7
    <2>9. \A m \in 1 .. Len(r) : g[m] = r[m]
      <3> TAKE m \in 1 .. Len(r)
      <3>1. m = n + 1 \/ m \in 1 .. n
        BY <1>0, <2>4, <2>5
      <3> QED BY <2>2, <2>8, <3>1
    <2> QED BY <1>0, <2>3, <2>4, <2>9 DEF Under
  <1> QED BY <1>1, <1>2, <1>3 DEF b

LEMMA BeforeGrow ==
    ASSUME Floppy!FloppyConstants, disk \in Images, NEW r, Way(r), NEW g \in Floppy!Routes,
           NEW e \in Floppy!Dirs
    PROVE  Floppy!Earlier(g, Grow(r, e)) <=> Floppy!Earlier(g, r) \/ g = r
  <1> DEFINE b == Grow(r, e)
  <1>0. /\ Len(g) \in Nat \ {0} /\ Len(r) \in Nat \ {0} /\ Len(b) = Len(r) + 1
        /\ \A n \in 1 .. Len(r) : b[n] = r[n]
        /\ b[Len(r) + 1][2] = 1
    <2>1. Len(r) \in Nat \ {0} /\ Len(g) \in Nat \ {0}
      BY WayIs, RouteIs
    <2>2. /\ Len(b) = Len(r) + 1 /\ \A n \in 1 .. Len(r) : b[n] = r[n]
          /\ b[Len(r) + 1] = <<e, 1>>
      BY ExtendedWays
    <2> HIDE DEF b
    <2> QED BY <2>1, <2>2
  <1> HIDE DEF b
  <1>1. ASSUME Floppy!Earlier(g, r) PROVE Floppy!Earlier(g, b)
    <2>1. PICK n \in 0 .. Len(g) :
             /\ n < Len(r) /\ \A m \in 1 .. n : g[m] = r[m]
             /\ n < Len(g) => g[n + 1][2] < r[n + 1][2]
      BY <1>1 DEF Floppy!Earlier
    <2>2. n < Len(b) /\ (\A m \in 1 .. n : g[m] = b[m]) /\ b[n + 1] = r[n + 1]
      BY <1>0, <2>1
    <2>3. n < Len(g) => g[n + 1][2] < b[n + 1][2]
      BY <2>1, <2>2
    <2> QED BY <2>1, <2>2, <2>3 DEF Floppy!Earlier
  <1>2. ASSUME g = r PROVE Floppy!Earlier(g, b)
    <2>1. Len(g) \in 0 .. Len(g) /\ Len(g) < Len(b) /\ ~(Len(g) < Len(g))
      BY <1>0, <1>2
    <2>2. \A m \in 1 .. Len(g) : g[m] = b[m]
      BY <1>0, <1>2
    <2> QED BY <2>1, <2>2 DEF Floppy!Earlier
  <1>3. ASSUME Floppy!Earlier(g, b), ~Floppy!Earlier(g, r) PROVE g = r
    <2>1. PICK n \in 0 .. Len(g) :
             /\ n < Len(b) /\ \A m \in 1 .. n : g[m] = b[m]
             /\ n < Len(g) => g[n + 1][2] < b[n + 1][2]
      BY <1>3 DEF Floppy!Earlier
    <2>2. n = Len(r)
      <3>1. SUFFICES ASSUME n # Len(r) PROVE FALSE
        OBVIOUS
      <3>2. n < Len(r) /\ n \in Nat
        BY <1>0, <2>1, <3>1
      <3>3. (\A m \in 1 .. n : g[m] = r[m]) /\ b[n + 1] = r[n + 1]
        BY <1>0, <2>1, <3>2
      <3>4. n < Len(g) => g[n + 1][2] < r[n + 1][2]
        BY <2>1, <3>3
      <3> QED BY <1>3, <2>1, <3>2, <3>3, <3>4 DEF Floppy!Earlier
    <2>3. n = Len(g)
      <3>1. SUFFICES ASSUME n < Len(g) PROVE FALSE
        BY <1>0, <2>1
      <3>2. n + 1 \in 1 .. Len(g)
        BY <1>0, <2>2, <3>1
      <3>3. g[n + 1][2] \in 1 .. Len(disk.dirs[g[n + 1][1]]) /\ g[n + 1][1] \in Floppy!Dirs
        BY <3>2, RouteIs
      <3>4. g[n + 1][2] \in Nat /\ g[n + 1][2] >= 1
        BY <3>3, DiskIs
      <3>5. g[n + 1][2] < 1
        BY <1>0, <2>1, <2>2, <3>1
      <3> QED BY <3>4, <3>5
    <2>4. \A m \in 1 .. n : g[m] = r[m]
      BY <1>0, <2>1, <2>2
    <2>5. g \in [1 .. n -> PlacesOfDisk] /\ r \in [1 .. n -> Floppy!Dirs \X Nat]
      BY <2>2, <2>3, RouteIs, WayIs
    <2> QED BY <2>4, <2>5
  <1> QED BY <1>1, <1>2, <1>3 DEF b

(* At the end of a directory everything in it has been read.               *)
LEMMA BeforeBack ==
    ASSUME Floppy!FloppyConstants, disk \in Images, NEW r, Way(r), Len(r) > 1,
           r[Len(r)][2] = Len(disk.dirs[r[Len(r)][1]]) + 1, NEW g \in Floppy!Routes
    PROVE  Floppy!Earlier(g, r) <=> Floppy!Earlier(g, Back(r)) \/ Under(g, Back(r))
  <1> DEFINE b == Back(r)
  <1>0. /\ Len(g) \in Nat \ {0} /\ Len(r) \in Nat \ {0} /\ Len(b) = Len(r) - 1
        /\ \A n \in 1 .. Len(r) - 1 : b[n] = r[n]
    BY WayIs, RouteIs, ExtendedWays
  <1> HIDE DEF b
  <1>1. ASSUME Floppy!Earlier(g, b) PROVE Floppy!Earlier(g, r)
    <2>1. PICK n \in 0 .. Len(g) :
             /\ n < Len(b) /\ \A m \in 1 .. n : g[m] = b[m]
             /\ n < Len(g) => g[n + 1][2] < b[n + 1][2]
      BY <1>1 DEF Floppy!Earlier
    <2>2. n < Len(r) /\ (\A m \in 1 .. n : g[m] = r[m]) /\ b[n + 1] = r[n + 1]
      BY <1>0, <2>1
    <2>3. n < Len(g) => g[n + 1][2] < r[n + 1][2]
      BY <2>1, <2>2
    <2> QED BY <2>1, <2>2, <2>3 DEF Floppy!Earlier
  <1>2. ASSUME Under(g, b) PROVE Floppy!Earlier(g, r)
    <2> DEFINE n == Len(r) - 1
    <2>1. n \in 0 .. Len(g) /\ n \in Nat /\ n < Len(r) /\ n + 1 = Len(r) /\ Len(b) = n
      BY <1>0, <1>2 DEF Under
    <2>2. \A m \in 1 .. n : g[m] = r[m]
      BY <1>0, <1>2 DEF Under
    <2> HIDE DEF n
    <2>3. ASSUME n < Len(g) PROVE g[n + 1][2] < r[n + 1][2]
      <3>1. g[n + 1][1] = r[n + 1][1]
        BY <2>1, <2>2, <2>3, SameDirectory
      <3>2. n + 1 \in 1 .. Len(g)
        BY <1>0, <2>1, <2>3
      <3>3. g[n + 1][2] \in 1 .. Len(disk.dirs[g[n + 1][1]]) /\ g[n + 1][1] \in Floppy!Dirs
        BY <3>2, RouteIs
      <3>4. Len(disk.dirs[g[n + 1][1]]) \in Nat
        BY <3>3, DiskIs
      <3>5. r[n + 1][2] = Len(disk.dirs[r[n + 1][1]]) + 1
        BY <2>1
      <3> QED BY <3>1, <3>3, <3>4, <3>5
    <2> QED BY <2>1, <2>2, <2>3 DEF Floppy!Earlier
  <1>3. ASSUME Floppy!Earlier(g, r), ~Floppy!Earlier(g, b) PROVE Under(g, b)
    <2>1. PICK n \in 0 .. Len(g) :
             /\ n < Len(r) /\ \A m \in 1 .. n : g[m] = r[m]
             /\ n < Len(g) => g[n + 1][2] < r[n + 1][2]
      BY <1>3 DEF Floppy!Earlier
    <2>2. n = Len(b)
      <3>1. SUFFICES ASSUME n # Len(b) PROVE FALSE
        OBVIOUS
      <3>2. n < Len(b) /\ n \in Nat
        BY <1>0, <2>1, <3>1
      <3>3. (\A m \in 1 .. n : g[m] = b[m]) /\ b[n + 1] = r[n + 1]
        BY <1>0, <2>1, <3>2
      <3>4. n < Len(g) => g[n + 1][2] < b[n + 1][2]
        BY <2>1, <3>3
      <3> QED BY <1>3, <2>1, <3>2, <3>3, <3>4 DEF Floppy!Earlier
    <2>3. \A m \in 1 .. Len(b) : g[m] = b[m]
      BY <1>0, <2>1, <2>2
    <2> QED BY <1>0, <2>1, <2>2, <2>3 DEF Under
  <1> QED BY <1>1, <1>2, <1>3 DEF b

LEMMA BeforeEnd ==
    ASSUME Floppy!FloppyConstants, disk \in Images, NEW r, Way(r), Len(r) = 1,
           r[Len(r)][2] = Len(disk.dirs[r[Len(r)][1]]) + 1, NEW g \in Floppy!Routes
    PROVE  Floppy!Earlier(g, r)
  <1>1. Len(g) \in Nat \ {0} /\ g[1][1] = "root" /\ g[1][2] \in 1 .. Len(disk.dirs[g[1][1]])
    <2>1. Len(g) \in Nat \ {0} /\ g[1][1] = "root"
      BY RouteIs
    <2>2. 1 \in 1 .. Len(g)
      BY <2>1
    <2> QED BY <2>1, <2>2, RouteIs
  <1>2. r[1][1] = "root" /\ r[1][2] = Len(disk.dirs["root"]) + 1
    BY DEF Way
  <1>3. Len(disk.dirs["root"]) \in Nat
    BY DiskIs DEF Floppy!Dirs
  <1>4. g[1][2] < r[1][2]
    BY <1>1, <1>2, <1>3
  <1>5. 0 \in 0 .. Len(g) /\ 0 < Len(r) /\ 0 + 1 = 1 /\ \A m \in 1 .. 0 : g[m] = r[m]
    BY <1>1
  <1> QED BY <1>4, <1>5 DEF Floppy!Earlier

LEMMA NotBeforeItself ==
    ASSUME Floppy!FloppyConstants, disk \in Images, NEW g \in Floppy!Routes
    PROVE  ~Floppy!Earlier(g, g)
  <1> SUFFICES ASSUME NEW n \in 0 .. Len(g), n < Len(g), g[n + 1][2] < g[n + 1][2] PROVE FALSE
    BY DEF Floppy!Earlier
  <1>1. Len(g) \in Nat /\ n + 1 \in 1 .. Len(g)
    BY RouteIs
  <1>2. g[n + 1][2] \in 1 .. Len(disk.dirs[g[n + 1][1]]) /\ g[n + 1][1] \in Floppy!Dirs
    BY <1>1, RouteIs
  <1>3. g[n + 1][2] \in Nat
    BY <1>2, DiskIs
  <1> QED BY <1>3

(* No directory is in itself, so the reader is in at most three.           *)
LEMMA WaysAreShort ==
    ASSUME Floppy!FloppyConstants, disk \in Images, NEW r, Way(r)
    PROVE  Len(r) <= 3
  <1>1. PICK depth \in [Floppy!Dirs -> 1 .. 3] :
           \A e \in PlacesOfDisk :
              Floppy!Held(e) \in Floppy!SubDirs => depth[Floppy!Held(e)] > depth[e[1]]
    BY DEF Floppy!FloppyConstants, Floppy!WellFormed, Floppy!Held, PlacesOfDisk
  <1>2. Len(r) \in Nat /\ \A n \in 1 .. Len(r) : r[n][1] \in Floppy!Dirs
    BY WayIs
  <1>3. ASSUME NEW n \in 1 .. Len(r) - 1 PROVE depth[r[n + 1][1]] > depth[r[n][1]]
    <2>1. r[n] \in PlacesOfDisk /\ r[n + 1][1] = Floppy!Held(r[n]) /\ n + 1 \in 1 .. Len(r)
      BY <1>2 DEF Way
    <2>2. r[n][1] \in Floppy!Dirs /\ r[n][2] \in 1 .. Len(disk.dirs[r[n][1]])
      BY <2>1, DiskPlaces DEF PlacesOfDisk
    <2>3. Floppy!Held(r[n]) \in Floppy!Kinds /\ Floppy!Held(r[n]) \in Floppy!Dirs
      <3>1. disk.dirs[r[n][1]][r[n][2]] \in Floppy!Kinds
        BY <2>2, DiskIs
      <3>2. r[n + 1][1] \in Floppy!Dirs
        BY <1>2, <2>1
      <3> QED BY <2>1, <3>1, <3>2, Zenon DEF Floppy!Held
    <2>4. Floppy!Held(r[n]) \in Floppy!SubDirs
      BY <2>3 DEF Floppy!Kinds, Floppy!Dirs, Floppy!SubDirs
    <2> QED BY <1>1, <2>1, <2>4
  <1> SUFFICES ASSUME Len(r) > 3 PROVE FALSE
    BY <1>2
  <1>4. /\ depth[r[1 + 1][1]] > depth[r[1][1]] /\ depth[r[2 + 1][1]] > depth[r[2][1]]
        /\ depth[r[3 + 1][1]] > depth[r[3][1]]
    BY <1>2, <1>3
  <1>5. /\ depth[r[1][1]] \in 1 .. 3 /\ depth[r[2][1]] \in 1 .. 3 /\ depth[r[3][1]] \in 1 .. 3
        /\ depth[r[4][1]] \in 1 .. 3
    BY <1>2
  <1> QED BY <1>4, <1>5

-----------------------------------------------------------------------------
(* The steps along a way.                                                  *)
LEMMA WaysGoOn ==
    ASSUME Floppy!FloppyConstants, disk \in Images, NEW r, Way(r)
    PROVE  /\ r[Len(r)] \in PlacesOfDisk => Way(Bump(r))
           /\ r[Len(r)] \in PlacesOfDisk /\ Floppy!Held(r[Len(r)]) \in Floppy!SubDirs
                 => Way(Grow(r, Floppy!Held(r[Len(r)])))
           /\ Len(r) > 1 => /\ Way(Back(r)) /\ Back(r)[Len(r) - 1] = r[Len(r) - 1]
                            /\ r[Len(r) - 1] \in PlacesOfDisk /\ Len(Back(r)) = Len(r) - 1
                            /\ r[Len(r)][1] = Floppy!Held(r[Len(r) - 1])
  <1> DEFINE n == Len(r)
  <1>0. /\ n \in Nat \ {0} /\ r[1][1] = "root"
        /\ \A m \in 1 .. n - 1 : r[m] \in PlacesOfDisk /\ r[m + 1][1] = Floppy!Held(r[m])
    BY WayIs DEF Way
  <1>1. ASSUME r[n] \in PlacesOfDisk PROVE Way(Bump(r))
    <2> DEFINE b == Bump(r)
    <2>1. /\ b \in Seq(Floppy!Dirs \X Nat) /\ Len(b) = n
          /\ \A m \in 1 .. n - 1 : b[m] = r[m]
          /\ b[n] = <<r[n][1], r[n][2] + 1>>
      BY ExtendedWays
    <2> HIDE DEF b
    <2>2. b[n][1] = r[n][1] /\ b[n][2] = r[n][2] + 1
      BY <2>1
    <2>3. b[n][2] \in 1 .. Len(disk.dirs[b[n][1]]) + 1
      <3>1. r[n][1] \in Floppy!Dirs /\ r[n][2] \in 1 .. Len(disk.dirs[r[n][1]])
        BY <1>1, DiskPlaces DEF PlacesOfDisk
      <3>2. Len(disk.dirs[r[n][1]]) \in Nat
        BY <3>1, DiskIs
      <3> QED BY <2>2, <3>1, <3>2
    <2>4. \A m \in 1 .. n : b[m][1] = r[m][1]
      <3> HIDE DEF n
      <3> TAKE m \in 1 .. n
      <3>1. m \in 1 .. n - 1 \/ m = n
        BY <1>0
      <3> QED BY <2>1, <2>2, <3>1
    <2>5. ASSUME NEW m \in 1 .. n - 1
          PROVE  b[m] \in PlacesOfDisk /\ b[m + 1][1] = Floppy!Held(b[m])
      <3> HIDE DEF n
      <3>1. m + 1 \in 1 .. n
        BY <1>0
      <3>2. b[m] = r[m] /\ b[m + 1][1] = r[m + 1][1]
        BY <2>1, <2>4, <3>1
      <3> QED BY <1>0, <3>2
    <2>6. b[1][1] = "root"
      <3> HIDE DEF n
      <3>1. 1 \in 1 .. n
        BY <1>0
      <3> QED BY <1>0, <2>4, <3>1
    <2> QED BY <1>0, <2>1, <2>3, <2>5, <2>6 DEF Way, b
  <1>2. ASSUME r[n] \in PlacesOfDisk, NEW e \in Floppy!SubDirs, Floppy!Held(r[n]) = e
        PROVE  Way(Grow(r, e))
    <2> DEFINE b == Grow(r, e)
    <2>0. e \in Floppy!Dirs
      BY DEF Floppy!Dirs
    <2>1. /\ b \in Seq(Floppy!Dirs \X Nat) /\ Len(b) = n + 1
          /\ \A m \in 1 .. n : b[m] = r[m]
          /\ b[n + 1] = <<e, 1>>
      BY <2>0, ExtendedWays
    <2> HIDE DEF b, n
    <2>2. b[n + 1][1] = e /\ b[n + 1][2] = 1
      BY <2>1
    <2>3. b[n + 1][2] \in 1 .. Len(disk.dirs[b[n + 1][1]]) + 1
      <3>1. Len(disk.dirs[e]) \in Nat
        BY <2>0, DiskIs
      <3>2. 1 \in 1 .. Len(disk.dirs[e]) + 1
        BY <3>1
      <3> QED BY <2>2, <3>2
    <2>4. ASSUME NEW m \in 1 .. n
          PROVE  b[m] \in PlacesOfDisk /\ b[m + 1][1] = Floppy!Held(b[m])
      <3>1. CASE m = n
        BY <1>0, <1>2, <2>1, <2>2, <3>1
      <3>2. CASE m # n
        <4>1. m \in 1 .. n - 1 /\ m + 1 \in 1 .. n
          BY <1>0, <3>2
        <4>2. b[m] = r[m] /\ b[m + 1] = r[m + 1]
          BY <2>1, <4>1
        <4> QED BY <1>0, <4>1, <4>2
      <3> QED BY <3>1, <3>2
    <2>5. b[1][1] = "root"
      <3>1. 1 \in 1 .. n
        BY <1>0
      <3> QED BY <1>0, <2>1, <3>1
    <2>6. Len(b) - 1 = n /\ Len(b) # 0
      BY <1>0, <2>1
    <2>7. \A m \in 1 .. Len(b) - 1 : b[m] \in PlacesOfDisk /\ b[m + 1][1] = Floppy!Held(b[m])
      BY <2>4, <2>6
    <2>8. b[Len(b)][2] \in 1 .. Len(disk.dirs[b[Len(b)][1]]) + 1
      BY <2>1, <2>3
    <2> QED BY <2>1, <2>5, <2>6, <2>7, <2>8 DEF Way, b
  <1>3. ASSUME n > 1
        PROVE  /\ Way(Back(r)) /\ Back(r)[n - 1] = r[n - 1] /\ Len(Back(r)) = n - 1
               /\ r[n - 1] \in PlacesOfDisk /\ r[n][1] = Floppy!Held(r[n - 1])
    <2> DEFINE b == Back(r)
    <2>1. /\ b \in Seq(Floppy!Dirs \X Nat) /\ Len(b) = n - 1
          /\ \A m \in 1 .. n - 1 : b[m] = r[m]
      BY ExtendedWays
    <2> HIDE DEF b, n
    <2>2. n - 1 \in 1 .. n - 1 /\ (n - 1) + 1 = n /\ 1 \in 1 .. n - 1
      BY <1>0, <1>3
    <2>3. r[n - 1] \in PlacesOfDisk /\ r[n][1] = Floppy!Held(r[n - 1]) /\ b[n - 1] = r[n - 1]
      BY <1>0, <2>1, <2>2
    <2>4. b[n - 1][2] \in 1 .. Len(disk.dirs[b[n - 1][1]]) + 1
      <3>1. r[n - 1][1] \in Floppy!Dirs /\ r[n - 1][2] \in 1 .. Len(disk.dirs[r[n - 1][1]])
        BY <2>3, DiskPlaces DEF PlacesOfDisk
      <3>2. Len(disk.dirs[r[n - 1][1]]) \in Nat
        BY <3>1, DiskIs
      <3>3. r[n - 1][2] \in 1 .. Len(disk.dirs[r[n - 1][1]]) + 1
        BY <3>1, <3>2
      <3> QED BY <2>3, <3>3
    <2>5. \A m \in 1 .. Len(b) - 1 : b[m] \in PlacesOfDisk /\ b[m + 1][1] = Floppy!Held(b[m])
      <3> TAKE m \in 1 .. Len(b) - 1
      <3>1. m \in 1 .. n - 1 /\ m + 1 \in 1 .. n - 1
        BY <1>0, <2>1
      <3>2. b[m] = r[m] /\ b[m + 1] = r[m + 1]
        BY <2>1, <3>1
      <3> QED BY <1>0, <3>1, <3>2
    <2>6. b[1][1] = "root"
      BY <1>0, <2>1, <2>2
    <2>7. Len(b) # 0 /\ b[Len(b)][2] \in 1 .. Len(disk.dirs[b[Len(b)][1]]) + 1
      BY <1>0, <1>3, <2>1, <2>4
    <2>8. Way(b)
      BY <2>1, <2>5, <2>6, <2>7 DEF Way
    <2> QED BY <2>1, <2>3, <2>8 DEF b
  <1> QED BY <1>1, <1>2, <1>3 DEF n

LEMMA WayIsRoute ==
    ASSUME Floppy!FloppyConstants, disk \in Images, NEW r, Way(r), r[Len(r)] \in PlacesOfDisk
    PROVE  r \in Floppy!Routes
  <1> DEFINE n == Len(r)
  <1>1. n \in 1 .. 3 /\ r \in [1 .. n -> Floppy!Dirs \X Nat]
    <2>1. Len(r) \in Nat \ {0} /\ r \in [1 .. Len(r) -> Floppy!Dirs \X Nat]
      BY WayIs
    <2>2. Len(r) <= 3
      BY WaysAreShort
    <2> QED BY <2>1, <2>2
  <1>2. \A m \in 1 .. n : r[m] \in PlacesOfDisk
    <2>1. \A m \in 1 .. n - 1 : r[m] \in PlacesOfDisk
      BY DEF Way
    <2>2. r[n] \in PlacesOfDisk
      OBVIOUS
    <2> HIDE DEF n
    <2>3. \A m \in 1 .. n : m \in 1 .. n - 1 \/ m = n
      BY <1>1
    <2> QED BY <2>1, <2>2, <2>3
  <1>3. r \in [1 .. n -> PlacesOfDisk]
    <2> HIDE DEF n
    <2> QED BY <1>1, <1>2
  <1>4. r[1][1] = "root" /\ \A m \in 1 .. Len(r) - 1 : r[m + 1][1] = Floppy!Held(r[m])
    BY DEF Way
  <1>5. r \in UNION {[1 .. m -> PlacesOfDisk] : m \in 1 .. 3}
    <2> HIDE DEF n
    <2> QED BY <1>1, <1>3
  <1> QED BY <1>4, <1>5 DEF Floppy!Routes, PlacesOfDisk

(* Only a directory has something in it.                                   *)
LEMMA NothingUnder ==
    ASSUME Floppy!FloppyConstants, disk \in Images, NEW r, Way(r),
           Floppy!Held(r[Len(r)]) \notin Floppy!Dirs, NEW g \in Floppy!Routes, Under(g, r)
    PROVE  g = r
  <1>1. /\ Len(g) \in Nat /\ Len(r) \in Nat \ {0} /\ Len(r) <= Len(g)
        /\ \A m \in 1 .. Len(r) : g[m] = r[m]
    BY RouteIs, WayIs DEF Under
  <1>2. Len(r) = Len(g)
    <2>1. SUFFICES ASSUME Len(r) < Len(g) PROVE FALSE
      BY <1>1
    <2>2. Len(r) \in 1 .. Len(g) - 1 /\ Len(r) \in 1 .. Len(r) /\ Len(r) + 1 \in 1 .. Len(g)
      BY <1>1, <2>1
    <2>3. g[Len(r) + 1][1] = Floppy!Held(g[Len(r)]) /\ g[Len(r) + 1][1] \in Floppy!Dirs
      BY <2>2, RouteIs
    <2>4. g[Len(r)] = r[Len(r)]
      BY <1>1, <2>2
    <2> QED BY <2>3, <2>4
  <1>3. g \in [1 .. Len(r) -> PlacesOfDisk] /\ r \in [1 .. Len(r) -> Floppy!Dirs \X Nat]
    BY <1>2, RouteIs, WayIs
  <1> QED BY <1>1, <1>3

LEMMA AfterEntry ==
    ASSUME Floppy!FloppyConstants, disk \in Images, NEW r, Way(r), r[Len(r)] \in PlacesOfDisk
    PROVE  /\ Floppy!Held(r[Len(r)]) = "deleted" => Floppy!Before(Bump(r)) = Floppy!Before(r)
           /\ Floppy!Held(r[Len(r)]) = "file"
                 => Floppy!Before(Bump(r)) = Floppy!Before(r) \cup {r}
           /\ Floppy!Held(r[Len(r)]) \in Floppy!SubDirs
                 => Floppy!Before(Grow(r, Floppy!Held(r[Len(r)]))) = Floppy!Before(r) \cup {r}
           /\ Floppy!Held(r[Len(r)]) # "deleted" => r \in Floppy!Listed
           /\ r \notin Floppy!Before(r)
  <1> DEFINE held == Floppy!Held(r[Len(r)])
  <1>1. r \in Floppy!Routes /\ ~Floppy!Earlier(r, r)
    BY WayIsRoute, NotBeforeItself
  <1>2. r \in Floppy!Listed <=> held # "deleted"
    BY <1>1 DEF Floppy!Listed, Floppy!Last
  <1>3. \A g : g \in Floppy!Listed => g \in Floppy!Routes
    BY DEF Floppy!Listed
  <1>4. Under(r, r)
    BY WayIs DEF Under
  <1>5. ASSUME held \notin Floppy!Dirs, NEW g \in Floppy!Listed
        PROVE  Floppy!Earlier(g, Bump(r)) <=> Floppy!Earlier(g, r) \/ g = r
    <2>1. g \in Floppy!Routes
      BY <1>3
    <2>2. Under(g, r) <=> g = r
      BY <1>4, <1>5, <2>1, NothingUnder
    <2> QED BY <2>1, <2>2, BeforeBump
  <1>6. ASSUME held \in Floppy!SubDirs, NEW g \in Floppy!Listed
        PROVE  Floppy!Earlier(g, Grow(r, held)) <=> Floppy!Earlier(g, r) \/ g = r
    <2>1. held \in Floppy!Dirs /\ g \in Floppy!Routes
      BY <1>3, <1>6 DEF Floppy!Dirs
    <2> HIDE DEF held
    <2> QED BY <2>1, BeforeGrow
  <1>7. "deleted" \notin Floppy!Dirs /\ "file" \notin Floppy!Dirs /\ "file" # "deleted"
        /\ "deleted" \notin Floppy!SubDirs
    BY DEF Floppy!Dirs, Floppy!SubDirs
  <1> HIDE DEF held
  <1>9. ASSUME held # "deleted" PROVE r \in Floppy!Listed
    BY <1>2, <1>9
  <1>10. ASSUME held = "file" PROVE Floppy!Before(Bump(r)) = Floppy!Before(r) \cup {r}
    BY <1>2, <1>5, <1>7, <1>10 DEF Floppy!Before
  <1>11. ASSUME held \in Floppy!SubDirs
         PROVE  Floppy!Before(Grow(r, held)) = Floppy!Before(r) \cup {r}
    BY <1>2, <1>6, <1>7, <1>11 DEF Floppy!Before
  <1>12. r \notin Floppy!Before(r)
    BY <1>1 DEF Floppy!Before
  <1>13. held = "deleted" => Floppy!Before(Bump(r)) = Floppy!Before(r)
    BY <1>1, <1>2, <1>5, <1>7 DEF Floppy!Before
  <1> QED BY <1>9, <1>10, <1>11, <1>12, <1>13 DEF held

LEMMA AfterDirectory ==
    ASSUME Floppy!FloppyConstants, disk \in Images, NEW r, Way(r),
           r[Len(r)][2] = Len(disk.dirs[r[Len(r)][1]]) + 1
    PROVE  /\ Len(r) > 1 => Floppy!Before(Bump(Back(r))) = Floppy!Before(r)
           /\ Len(r) = 1 => Floppy!Before(r) = Floppy!Listed
  <1>1. \A g : g \in Floppy!Listed => g \in Floppy!Routes
    BY DEF Floppy!Listed
  <1>2. ASSUME Len(r) > 1, NEW g \in Floppy!Listed
        PROVE  Floppy!Earlier(g, Bump(Back(r))) <=> Floppy!Earlier(g, r)
    <2>1. g \in Floppy!Routes /\ Way(Back(r))
      BY <1>1, <1>2, WaysGoOn
    <2>2. Floppy!Earlier(g, r) <=> Floppy!Earlier(g, Back(r)) \/ Under(g, Back(r))
      BY <1>2, <2>1, BeforeBack
    <2>3. Floppy!Earlier(g, Bump(Back(r))) <=> Floppy!Earlier(g, Back(r)) \/ Under(g, Back(r))
      BY <2>1, BeforeBump
    <2> QED BY <2>2, <2>3
  <1>3. ASSUME Len(r) = 1, NEW g \in Floppy!Listed PROVE Floppy!Earlier(g, r)
    BY <1>1, <1>3, BeforeEnd
  <1> QED BY <1>2, <1>3 DEF Floppy!Before

-----------------------------------------------------------------------------
(* The report, the lines of some entries.                                  *)
ReportOK(rep, G) ==
    /\ IsFiniteSet(G) /\ Len(rep) = Cardinality(G)
    /\ \A g \in G : /\ Cardinality(Floppy!Before(g)) + 1 \in 1 .. Len(rep)
                    /\ rep[Cardinality(Floppy!Before(g)) + 1] = Floppy!LineOf(g)

LEMMA ReportGrows ==
    ASSUME NEW S, NEW rep \in Seq(S), NEW g, Floppy!LineOf(g) \in S,
           ReportOK(rep, Floppy!Before(g)), g \notin Floppy!Before(g)
    PROVE  ReportOK(Append(rep, Floppy!LineOf(g)), Floppy!Before(g) \cup {g})
  <1> DEFINE G == Floppy!Before(g)
             line == Floppy!LineOf(g)
             new == Append(rep, line)
             n(h) == Cardinality(Floppy!Before(h)) + 1
  <1>1. /\ IsFiniteSet(G) /\ Len(rep) = Cardinality(G) /\ Len(rep) \in Nat
        /\ \A h \in G : n(h) \in 1 .. Len(rep) /\ rep[n(h)] = Floppy!LineOf(h)
    BY DEF ReportOK
  <1>2. IsFiniteSet(G \cup {g}) /\ Cardinality(G \cup {g}) = Cardinality(G) + 1
    BY <1>1, FS_AddElement
  <1>3. /\ Len(new) = Len(rep) + 1 /\ new[Len(rep) + 1] = line
        /\ \A k \in 1 .. Len(rep) : new[k] = rep[k]
    OBVIOUS
  <1>4. n(g) = Len(rep) + 1
    BY <1>1
  <1> HIDE DEF new, G, n
  <1>5. \A h \in G \cup {g} : n(h) \in 1 .. Len(new) /\ new[n(h)] = Floppy!LineOf(h)
    <2> TAKE h \in G \cup {g}
    <2>1. CASE h = g
      <3>1. Len(rep) + 1 \in 1 .. Len(rep) + 1
        BY <1>1
      <3> QED BY <1>3, <1>4, <2>1, <3>1, Zenon
    <2>2. CASE h # g
      <3>1. h \in G
        BY <2>2
      <3>2. n(h) \in 1 .. Len(rep) /\ rep[n(h)] = Floppy!LineOf(h)
        BY <1>1, <3>1
      <3>3. n(h) \in 1 .. Len(new)
        BY <1>1, <1>3, <3>2
      <3> QED BY <1>3, <3>2, <3>3, Zenon
    <2> QED BY <2>1, <2>2
  <1> QED BY <1>1, <1>2, <1>3, <1>5 DEF ReportOK, new, G, n

-----------------------------------------------------------------------------
(* The calls along a way.                                                  *)
LEMMA WayOnTop ==
    ASSUME Floppy!FloppyConstants, disk \in Images, NEW c \in AnyCall, NEW calls \in Seq(AnyCall),
           NEW r, Way(r), Len(r) = Len(calls) + 1,
           IsAt(c, r[Len(r)][1], r[Len(r)][2]),
           \A n \in 1 .. Len(r) - 1 : IsAt(calls[Len(r) - n], r[n][1], r[n][2])
    PROVE  WayOf(<<c>> \o calls, r)
  <1> DEFINE all == <<c>> \o calls
  <1>1. /\ Len(all) = Len(calls) + 1 /\ Len(calls) \in Nat /\ all[1] = c
        /\ \A k \in 1 .. Len(calls) : all[k + 1] = calls[k]
    BY PushIs
  <1> HIDE DEF all
  <1>2. ASSUME NEW n \in 1 .. Len(r) PROVE IsAt(all[Len(r) + 1 - n], r[n][1], r[n][2])
    <2>1. CASE n = Len(r)
      <3>1. Len(r) + 1 - n = 1
        BY <1>1, <2>1
      <3> QED BY <1>1, <2>1, <3>1, Zenon
    <2>2. CASE n # Len(r)
      <3>1. n \in 1 .. Len(r) - 1 /\ Len(r) - n \in 1 .. Len(calls)
            /\ Len(r) + 1 - n = (Len(r) - n) + 1
        BY <1>1, <2>2
      <3>2. all[Len(r) + 1 - n] = calls[Len(r) - n]
        BY <1>1, <3>1
      <3> QED BY <3>1, <3>2, Zenon
    <2> QED BY <2>1, <2>2
  <1> QED BY <1>1, <1>2 DEF WayOf, all

LEMMA WayBelow ==
    ASSUME Floppy!FloppyConstants, WalkInv, levels # <<>>, NEW r, WayOf(levels, r)
    PROVE  /\ Way(r) /\ Len(r) = Len(levels) /\ Len(r) = Len(Floppy!Below) + 1
           /\ Len(r) \in Nat \ {0}
           /\ IsAt(Floppy!Top, r[Len(r)][1], r[Len(r)][2])
           /\ \A n \in 1 .. Len(r) - 1 : IsAt(Floppy!Below[Len(r) - n], r[n][1], r[n][2])
  <1>1. /\ Floppy!Top = levels[1] /\ Len(levels) \in Nat \ {0}
        /\ Len(Floppy!Below) = Len(levels) - 1
        /\ \A k \in 1 .. Len(levels) - 1 : Floppy!Below[k] = levels[k + 1]
    BY TopIs
  <1>2. /\ Way(r) /\ Len(r) = Len(levels)
        /\ \A n \in 1 .. Len(r) : IsAt(levels[Len(r) + 1 - n], r[n][1], r[n][2])
    BY DEF WayOf
  <1>3. IsAt(Floppy!Top, r[Len(r)][1], r[Len(r)][2])
    <2>1. Len(r) \in 1 .. Len(r) /\ Len(r) + 1 - Len(r) = 1
      BY <1>1, <1>2
    <2>2. IsAt(levels[Len(r) + 1 - Len(r)], r[Len(r)][1], r[Len(r)][2])
      BY <1>2, <2>1
    <2> QED BY <1>1, <2>1, <2>2, Zenon
  <1>4. ASSUME NEW n \in 1 .. Len(r) - 1 PROVE IsAt(Floppy!Below[Len(r) - n], r[n][1], r[n][2])
    <2>1. Len(r) - n \in 1 .. Len(levels) - 1 /\ (Len(r) - n) + 1 = Len(r) + 1 - n
          /\ n \in 1 .. Len(r)
      BY <1>1, <1>2
    <2>2. IsAt(levels[Len(r) + 1 - n], r[n][1], r[n][2])
      BY <1>2, <2>1
    <2>3. Floppy!Below[Len(r) - n] = levels[(Len(r) - n) + 1]
      BY <1>1, <2>1
    <2> QED BY <2>1, <2>2, <2>3, Zenon
  <1> QED BY <1>1, <1>2, <1>3, <1>4

(* What is read is the entry the way leads to.                             *)
LEMMA CurrentIs ==
    ASSUME Floppy!FloppyConstants, WalkInv, Floppy!Reading, NEW r, WayOf(levels, r)
    PROVE  /\ Floppy!Entry = "none" => r[Len(r)][2] = Len(disk.dirs[r[Len(r)][1]]) + 1
           /\ Floppy!Entry # "none" =>
                 /\ r[Len(r)] \in PlacesOfDisk /\ Floppy!Entry = Floppy!Held(r[Len(r)])
                 /\ Floppy!LineOf(r) = <<Len(levels) - 1, filePos>>
  <1> DEFINE d == r[Len(r)][1]
             k == r[Len(r)][2]
             c == Floppy!Top
  <1>0. disk \in Images /\ levels # <<>> /\ c.i < Entries
    BY DEF WalkInv, Floppy!Reading
  <1>1. Way(r) /\ Len(r) = Len(levels) /\ IsAt(c, d, k)
    BY <1>0, WayBelow
  <1>2. c = levels[1] /\ c \in AnyCall /\ c.sector \in Readable /\ c.i \in 0 .. Entries - 1
    <2>1. c = levels[1] /\ c \in AnyCall
      BY <1>0, TopIs
    <2>2. c.sector \in Readable /\ c.i \in Nat /\ Entries \in Nat
      BY <2>1, CallIs DEF Floppy!FloppyConstants
    <2> HIDE DEF c
    <2> QED BY <1>0, <2>1, <2>2
  <1>3. filePos = Unit(c.sector) * Entries + c.i
    <2>1. filePos = Floppy!Start(c.sector) + c.i
      BY <1>0, <1>2 DEF WalkInv
    <2> QED BY <1>2, <2>1, StartIs
  <1>4. PICK n \in 0 .. SectorsOf(d) - 1 : c.sector = SectorOf(d, n) /\ k = n * Entries + c.i + 1
    BY <1>1 DEF IsAt
  <1>5. /\ d \in Floppy!Dirs /\ r[Len(r)] = <<d, k>> /\ Len(r) \in 1 .. Len(r)
        /\ Len(disk.dirs[d]) \in Nat /\ k \in 1 .. Len(disk.dirs[d]) + 1
    <2>1. /\ Len(r) \in Nat \ {0}
          /\ \A m \in 1 .. Len(r) : r[m][1] \in Floppy!Dirs /\ r[m] = <<r[m][1], r[m][2]>>
          /\ Len(disk.dirs[d]) \in Nat
      BY <1>0, <1>1, WayIs
    <2>2. k \in 1 .. Len(disk.dirs[d]) + 1
      BY <1>1 DEF Way
    <2> QED BY <2>1, <2>2
  <1> HIDE DEF c, d, k
  <1>6. filePos = Unit(SectorOf(d, n)) * Entries + c.i
    BY <1>3, <1>4
  <1>7. /\ k \in 1 .. Len(disk.dirs[d]) => /\ <<d, k>> \in Floppy!PlacesIn(disk.dirs)
                                           /\ Floppy!Entry = disk.dirs[d][k]
        /\ k \notin 1 .. Len(disk.dirs[d]) => Floppy!Entry = "none"
        /\ Floppy!Place(d, k) = filePos
    BY <1>0, <1>2, <1>4, <1>5, <1>6, EntryIsRead
  <1>8. k \in 1 .. Len(disk.dirs[d]) => Floppy!Entry # "none"
    <2>1. ASSUME k \in 1 .. Len(disk.dirs[d]) PROVE disk.dirs[d][k] \in Floppy!Kinds
      BY <1>0, <1>5, <2>1, DiskIs
    <2>2. "none" \notin Floppy!Kinds
      BY DEF Floppy!Kinds, Floppy!SubDirs
    <2> QED BY <1>7, <2>1, <2>2
  <1>9. ASSUME Floppy!Entry = "none" PROVE k = Len(disk.dirs[d]) + 1
    BY <1>5, <1>8, <1>9
  <1>10. ASSUME Floppy!Entry # "none"
         PROVE  /\ r[Len(r)] \in PlacesOfDisk /\ Floppy!Entry = Floppy!Held(r[Len(r)])
                /\ Floppy!LineOf(r) = <<Len(levels) - 1, filePos>>
    <2>1. k \in 1 .. Len(disk.dirs[d])
      BY <1>7, <1>10
    <2>2. r[Len(r)][1] = d /\ r[Len(r)][2] = k
      BY DEF d, k
    <2>3. Floppy!LineOf(r) = <<Len(levels) - 1, filePos>>
      BY <1>1, <1>7, <2>2, Zenon DEF Floppy!LineOf, Floppy!Last
    <2>4. Floppy!Held(r[Len(r)]) = disk.dirs[d][k]
      BY <2>2, Zenon DEF Floppy!Held
    <2> QED BY <1>5, <1>7, <2>1, <2>3, <2>4 DEF PlacesOfDisk
  <1> QED BY <1>9, <1>10 DEF d, k

(* The next sector is the directory's, or the directory has ended.         *)
LEMMA SectorEnds ==
    ASSUME Floppy!FloppyConstants, WalkInv, Floppy!ReadsRight, levels # <<>>,
           Floppy!Top.i = Entries, NEW r, WayOf(levels, r)
    PROVE  /\ GoesOn => IsAt(Floppy!Call(NextIs), r[Len(r)][1], r[Len(r)][2])
           /\ ~GoesOn => r[Len(r)][2] = Len(disk.dirs[r[Len(r)][1]]) + 1
  <1> DEFINE d == r[Len(r)][1]
             k == r[Len(r)][2]
             c == Floppy!Top
  <1>0. disk \in Images /\ Entries \in Nat \ {0} /\ SECTORS \in Nat \ {0}
    BY DEF WalkInv, Floppy!FloppyConstants
  <1>1. Way(r) /\ IsAt(c, d, k)
    BY WayBelow
  <1>4. PICK n \in 0 .. SectorsOf(d) - 1 : c.sector = SectorOf(d, n) /\ k = n * Entries + c.i + 1
    BY <1>1 DEF IsAt
  <1>5. /\ d \in Floppy!Dirs
        /\ Len(disk.dirs[d]) \in Nat /\ k \in 1 .. Len(disk.dirs[d]) + 1
    <2>1. /\ Len(r) \in Nat \ {0} /\ \A m \in 1 .. Len(r) : r[m][1] \in Floppy!Dirs
          /\ Len(disk.dirs[d]) \in Nat
      BY <1>0, <1>1, WayIs
    <2>2. k \in 1 .. Len(disk.dirs[d]) + 1
      BY <1>1 DEF Way
    <2> QED BY <2>1, <2>2
  <1> DEFINE next == NextIs
  <1>6. Floppy!Call(next).sector = next /\ Floppy!Call(next).i = 0
    BY DEF Floppy!Call
  <1>7. c.i = Entries
    OBVIOUS
  <1>8. /\ SectorsOf(d) \in Nat \ {0} /\ Len(disk.dirs[d]) <= SectorsOf(d) * Entries
        /\ d # "root" => d \in Floppy!SubDirs
    BY <1>0, <1>5, DirIs
  <1>15. /\ next = IF c.sector < 0 THEN c.sector + 1 ELSE Floppy!GetFat12(c.sector)
         /\ GoesOn <=> \/ c.sector < 0 /\ next < 0
                       \/ c.sector >= 0 /\ Floppy!InData(next)
    BY DEF NextIs, GoesOn
  <1> HIDE DEF c, d, k, next
  <1>9. n \in Nat /\ n < SectorsOf(d)
    BY <1>8
  <1>10. k = (n + 1) * Entries + 1 /\ (n + 1) * Entries \in Nat
    <2>1. n * Entries \in Nat
      BY <1>0, <1>9, Products
    <2>2. (n + 1) * Entries = n * Entries + Entries
      BY <1>0, <1>9, Products
    <2> QED BY <1>0, <1>4, <1>7, <2>1, <2>2
  <1>11. (n + 1) * Entries <= Len(disk.dirs[d])
    BY <1>5, <1>10
  <1>12. ASSUME n + 1 < SectorsOf(d), next = SectorOf(d, n + 1)
         PROVE  IsAt(Floppy!Call(next), d, k)
    <2>1. n + 1 \in 0 .. SectorsOf(d) - 1
      BY <1>8, <1>9, <1>12
    <2>2. (n + 1) * Entries + 1 = (n + 1) * Entries + 0 + 1
      BY <1>10
    <2>3. k = (n + 1) * Entries + Floppy!Call(next).i + 1
      BY <1>6, <1>10, <2>2, Zenon
    <2> QED BY <1>6, <1>12, <2>1, <2>3, Zenon DEF IsAt
  <1>13. ASSUME ~(n + 1 < SectorsOf(d)) PROVE k = Len(disk.dirs[d]) + 1
    <2>1. n + 1 = SectorsOf(d)
      BY <1>8, <1>9, <1>13
    <2>2. Len(disk.dirs[d]) <= (n + 1) * Entries
      BY <1>8, <2>1, Zenon
    <2> QED BY <1>5, <1>10, <1>11, <2>2
  <1>14. /\ GoesOn => n + 1 < SectorsOf(d) /\ next = SectorOf(d, n + 1)
         /\ ~GoesOn => ~(n + 1 < SectorsOf(d))
    <2>1. CASE d = "root"
      <3>1. SectorsOf(d) = SECTORS /\ SectorOf(d, n) = n - SECTORS
            /\ SectorOf(d, n + 1) = (n + 1) - SECTORS
        BY <2>1 DEF SectorsOf, SectorOf
      <3>2. c.sector < 0 /\ c.sector \in Int /\ next = (n + 1) - SECTORS
        BY <1>0, <1>4, <1>9, <1>15, <3>1
      <3>3. GoesOn <=> next < 0
        BY <1>15, <3>2
      <3> QED BY <1>0, <1>9, <3>1, <3>2, <3>3
    <2>2. CASE d # "root"
      <3> DEFINE s == disk.chain[d]
      <3>1. d \in Floppy!SubDirs /\ SectorsOf(d) = Len(s) /\ SectorOf(d, n) = s[n + 1]
            /\ SectorOf(d, n + 1) = s[(n + 1) + 1]
        BY <1>8, <2>2 DEF SectorsOf, SectorOf
      <3>2. n + 1 \in 1 .. Len(s) /\ Len(s) \in Nat
        BY <1>8, <1>9, <3>1
      <3>3. s[n + 1] \in 2 .. Clusters + 1 /\ Clusters \in Nat
        BY <1>0, <3>1, <3>2, ClusterIs, DiskIs
      <3>4. c.sector = s[n + 1] /\ c.sector >= 2 /\ c.sector \in Nat
        BY <1>4, <3>1, <3>3
      <3>5. reader = "floppyDir" \/ c.sector % 2 = 0
        <4>1. SUFFICES ASSUME reader # "floppyDir", c.sector % 2 # 0 PROVE FALSE
          OBVIOUS
        <4>2. reader = "floppyDirNew" /\ s[n + 1] % 2 = 1
          BY <3>4, <4>1 DEF WalkInv
        <4>3. Floppy!OddChain
          BY <1>11, <3>1, <3>2, <4>2 DEF Floppy!OddChain
        <4> QED BY <4>2, <4>3 DEF Floppy!ReadsRight
      <3>6. Floppy!GetFat12(c.sector) = Floppy!NextCluster(c.sector)
        BY <1>0, <3>4, <3>5, TableIsRead
      <3>7. next = IF n + 1 < Len(s) THEN s[(n + 1) + 1] ELSE disk.eoc
        <4>1. Floppy!NextCluster(s[n + 1]) = IF n + 1 < Len(s) THEN s[(n + 1) + 1] ELSE disk.eoc
          BY <1>0, <3>1, <3>2, NextClusterIs
        <4>2. ~(c.sector < 0)
          BY <3>4
        <4> QED BY <1>15, <3>4, <3>6, <4>1, <4>2, Zenon
      <3>8. GoesOn <=> Floppy!InData(next)
        BY <1>15, <3>4
      <3>9. CASE n + 1 < Len(s)
        <4>1. (n + 1) + 1 \in 1 .. Len(s)
          BY <3>2, <3>9
        <4>2. s[(n + 1) + 1] \in 2 .. Clusters + 1 /\ Clusters + 1 < 4087
          BY <1>0, <3>1, <4>1, ClusterIs, DiskIs
        <4>3. next = s[(n + 1) + 1]
          BY <3>7, <3>9
        <4>4. Floppy!InData(next)
          BY <3>3, <4>2, <4>3 DEF Floppy!InData, Floppy!EOC_MARKER_START, Floppy!BAD_SECTOR
        <4> QED BY <3>1, <3>8, <3>9, <4>3, <4>4
      <3>10. CASE ~(n + 1 < Len(s))
        <4>1. next = disk.eoc /\ disk.eoc \in Word /\ disk.eoc >= 4088
          BY <1>0, <3>7, <3>10, DiskIs
        <4>2. ~Floppy!InData(next)
          BY <4>1 DEF Floppy!InData, Floppy!EOC_MARKER_START, Word
        <4> QED BY <3>1, <3>8, <3>10, <4>2
      <3> QED BY <3>9, <3>10
    <2> QED BY <2>1, <2>2
  <1> QED BY <1>12, <1>13, <1>14 DEF d, k, next

-----------------------------------------------------------------------------
(* The invariant: some way has led to where the reader is, and the report  *)
(* has the entries before that.                                            *)
RouteInv ==
    Floppy!ReadsRight =>
       IF levels = <<>> THEN ReportOK(report, Floppy!Listed)
       ELSE \E r : WayOf(levels, r) /\ ReportOK(report, Floppy!Before(r))

(* The steps do not write to the image.                                    *)
LEMMA DiskStays ==
    ASSUME UNCHANGED <<reader, disk>>
    PROVE  /\ Floppy!ReadsRight' <=> Floppy!ReadsRight
           /\ Floppy!Listed' = Floppy!Listed
           /\ \A r : Floppy!Before(r)' = Floppy!Before(r)
           /\ \A calls, r : WayOf(calls, r)' <=> WayOf(calls, r)
           /\ \A rep, G : ReportOK(rep, G)' <=> ReportOK(rep, G)
  <1>1. Floppy!ReadsRight' <=> Floppy!ReadsRight
    BY DEF Floppy!ReadsRight, Floppy!OddChain
  <1>2. \A e : Floppy!Held(e)' = Floppy!Held(e)
    BY DEF Floppy!Held
  <1>3. PlacesOfDisk' = PlacesOfDisk
    BY DEF PlacesOfDisk
  <1>4. Floppy!Routes' = Floppy!Routes
    BY <1>2 DEF Floppy!Routes
  <1>5. Floppy!Listed' = Floppy!Listed
    BY <1>2, <1>4 DEF Floppy!Listed
  <1>6. \A r : Floppy!Before(r)' = Floppy!Before(r)
    BY <1>5 DEF Floppy!Before
  <1>7. \A r : Way(r)' <=> Way(r)
    BY <1>2, <1>3 DEF Way
  <1>8. \A c, d, k : IsAt(c, d, k)' <=> IsAt(c, d, k)
    BY DEF IsAt, SectorsOf, SectorOf
  <1>9. \A calls, r : WayOf(calls, r)' <=> WayOf(calls, r)
    BY <1>7, <1>8 DEF WayOf
  <1>10. \A r : Floppy!LineOf(r)' = Floppy!LineOf(r)
    <2>1. \A d, k : Floppy!Place(d, k)' = Floppy!Place(d, k)
      BY DEF Floppy!Place
    <2> QED BY <2>1 DEF Floppy!LineOf
  <1>11. \A rep, G : ReportOK(rep, G)' <=> ReportOK(rep, G)
    BY <1>6, <1>10 DEF ReportOK
  <1> QED BY <1>1, <1>5, <1>6, <1>9, <1>11

LEMMA RouteFollows ==
    ASSUME UNCHANGED <<reader, disk>>, Floppy!ReadsRight,
           IF levels' = <<>> THEN ReportOK(report', Floppy!Listed)
           ELSE \E r : WayOf(levels', r) /\ ReportOK(report', Floppy!Before(r))
    PROVE  RouteInv'
  <1>1. /\ Floppy!Listed' = Floppy!Listed
        /\ \A r : Floppy!Before(r)' = Floppy!Before(r)
        /\ \A calls, r : WayOf(calls, r)' <=> WayOf(calls, r)
        /\ \A rep, G : ReportOK(rep, G)' <=> ReportOK(rep, G)
    BY DiskStays
  <1>2. CASE levels' = <<>>
    <2>1. ReportOK(report, Floppy!Listed)'
      BY <1>1, <1>2, Zenon
    <2> QED BY <1>2, <2>1 DEF RouteInv
  <1>3. CASE levels' # <<>>
    <2>1. PICK r : WayOf(levels', r) /\ ReportOK(report', Floppy!Before(r))
      BY <1>3
    <2>2. WayOf(levels, r)' /\ ReportOK(report, Floppy!Before(r))'
      BY <1>1, <2>1
    <2> QED BY <1>3, <2>2 DEF RouteInv
  <1> QED BY <1>2, <1>3

(* A call ends: the way goes on behind the directory's entry.              *)
LEMMA LeaveRoute ==
    ASSUME Floppy!FloppyConstants, WalkInv, Floppy!ReadsRight, levels # <<>>,
           UNCHANGED <<reader, disk, report>>, Floppy!Leave,
           NEW r, WayOf(levels, r), ReportOK(report, Floppy!Before(r)),
           r[Len(r)][2] = Len(disk.dirs[r[Len(r)][1]]) + 1
    PROVE  RouteInv'
  <1>0. disk \in Images
    BY DEF WalkInv
  <1>1. /\ Way(r) /\ Len(r) = Len(Floppy!Below) + 1 /\ Len(r) \in Nat \ {0}
        /\ \A n \in 1 .. Len(r) - 1 : IsAt(Floppy!Below[Len(r) - n], r[n][1], r[n][2])
    BY WayBelow
  <1>2. CASE Floppy!Below = <<>>
    <2>1. levels' = <<>>
      BY <1>2 DEF Floppy!Leave
    <2>2. Len(r) = 1
      BY <1>1, <1>2
    <2>3. Floppy!Before(r) = Floppy!Listed
      BY <1>0, <1>1, <2>2, AfterDirectory
    <2> QED BY <2>1, <2>3, RouteFollows
  <1>3. CASE Floppy!Below # <<>>
    <2> DEFINE c == [Head(Floppy!Below) EXCEPT !.i = @ + 1]
               calls == Tail(Floppy!Below)
               b == Bump(Back(r))
    <2>1. /\ Floppy!Below \in Seq(AnyCall) /\ \A k \in 1 .. Len(Floppy!Below) : CallWaits(Floppy!Below[k])
      BY TopIs
    <2>2. /\ Len(Floppy!Below) \in Nat \ {0} /\ Head(Floppy!Below) = Floppy!Below[1]
          /\ Floppy!Below[1] \in AnyCall /\ Len(r) > 1
      BY <1>1, <1>3, <2>1
    <2>3. /\ calls \in Seq(AnyCall) /\ Len(calls) = Len(Floppy!Below) - 1
          /\ \A k \in 1 .. Len(Floppy!Below) - 1 : calls[k] = Floppy!Below[k + 1]
      BY <2>1, <2>2, TailFacts
    <2>4. c \in AnyCall /\ c.sector = Floppy!Below[1].sector /\ c.i = Floppy!Below[1].i + 1
          /\ Floppy!Below[1].i \in Nat
      <3>1. CallWaits(Floppy!Below[1])
        BY <2>1, <2>2
      <3>2. c \in AnyCall /\ c.sector = Floppy!Below[1].sector /\ c.i = Floppy!Below[1].i + 1
        BY <2>2, <3>1, CallIs DEF CallWaits, AnyCall
      <3>3. Floppy!Below[1].i \in Nat
        BY <2>2, CallIs
      <3> QED BY <3>2, <3>3
    <2>5. levels' = <<c>> \o calls
      BY <1>3, <2>2 DEF Floppy!Leave
    <2>6. /\ Way(Back(r)) /\ Len(Back(r)) = Len(r) - 1 /\ Back(r)[Len(r) - 1] = r[Len(r) - 1]
          /\ r[Len(r) - 1] \in PlacesOfDisk
      BY <1>0, <1>1, <2>2, WaysGoOn
    <2>7. /\ Way(b) /\ Len(b) = Len(r) - 1
          /\ \A n \in 1 .. Len(r) - 2 : b[n] = r[n]
          /\ b[Len(r) - 1] = <<r[Len(r) - 1][1], r[Len(r) - 1][2] + 1>>
      <3>1. Way(b)
        BY <1>0, <2>6, WaysGoOn
      <3>2. /\ Len(b) = Len(Back(r)) /\ \A n \in 1 .. Len(Back(r)) - 1 : b[n] = Back(r)[n]
            /\ b[Len(Back(r))] = <<Back(r)[Len(Back(r))][1], Back(r)[Len(Back(r))][2] + 1>>
        BY <1>0, <2>6, ExtendedWays
      <3>3. \A n \in 1 .. Len(r) - 1 : Back(r)[n] = r[n]
        BY <1>0, <1>1, ExtendedWays
      <3> HIDE DEF b
      <3>4. Len(Back(r)) - 1 = Len(r) - 2 /\ \A n \in 1 .. Len(r) - 2 : n \in 1 .. Len(r) - 1
        BY <1>1, <2>6
      <3>5. \A n \in 1 .. Len(r) - 2 : b[n] = r[n]
        BY <3>2, <3>3, <3>4
      <3>6. b[Len(r) - 1] = <<r[Len(r) - 1][1], r[Len(r) - 1][2] + 1>>
        BY <2>6, <3>2
      <3> QED BY <2>6, <3>1, <3>2, <3>5, <3>6
    <2> HIDE DEF b, calls, c
    <2>8. \A n \in 1 .. Len(b) - 1 : IsAt(calls[Len(b) - n], b[n][1], b[n][2])
      <3> TAKE n \in 1 .. Len(b) - 1
      <3>1. n \in 1 .. Len(r) - 2 /\ n \in 1 .. Len(r) - 1 /\ Len(b) - n \in 1 .. Len(Floppy!Below) - 1
            /\ (Len(b) - n) + 1 = Len(r) - n
        BY <1>1, <2>2, <2>7
      <3>2. calls[Len(b) - n] = Floppy!Below[Len(r) - n] /\ b[n] = r[n]
        BY <2>3, <2>7, <3>1
      <3> QED BY <1>1, <3>1, <3>2, Zenon
    <2>9. IsAt(c, b[Len(b)][1], b[Len(b)][2])
      <3> DEFINE e == r[Len(r) - 1]
      <3>1. IsAt(Floppy!Below[1], e[1], e[2])
        <4>1. Len(r) - 1 \in 1 .. Len(r) - 1 /\ Len(r) - (Len(r) - 1) = 1
          BY <1>1, <2>2
        <4>2. IsAt(Floppy!Below[Len(r) - (Len(r) - 1)], e[1], e[2])
          BY <1>1, <4>1
        <4> QED BY <4>1, <4>2, Zenon
      <3>2. b[Len(b)][1] = e[1] /\ b[Len(b)][2] = e[2] + 1
        BY <2>7
      <3> HIDE DEF e
      <3>3. PICK n \in 0 .. SectorsOf(e[1]) - 1 :
               /\ Floppy!Below[1].sector = SectorOf(e[1], n)
               /\ e[2] = n * Entries + Floppy!Below[1].i + 1
        BY <3>1 DEF IsAt
      <3>4. e[2] + 1 = n * Entries + c.i + 1
        <4>1. n * Entries \in Nat
          <5>1. Entries \in Nat /\ n \in Nat
            BY DEF Floppy!FloppyConstants
          <5> QED BY <5>1, Products
        <4> QED BY <2>4, <3>3, <4>1
      <3>5. IsAt(c, e[1], e[2] + 1)
        BY <2>4, <3>3, <3>4, Zenon DEF IsAt
      <3> QED BY <3>2, <3>5, Zenon
    <2>10. WayOf(levels', b)
      <3>1. Len(b) = Len(calls) + 1
        BY <1>1, <2>2, <2>3, <2>7
      <3> QED BY <1>0, <2>3, <2>4, <2>5, <2>7, <2>8, <2>9, <3>1, WayOnTop
    <2>11. Floppy!Before(b) = Floppy!Before(r)
      BY <1>0, <1>1, <2>2, AfterDirectory DEF b
    <2>12. levels' # <<>>
      BY <2>3, <2>4, <2>5, PushIs
    <2> QED BY <2>10, <2>11, <2>12, RouteFollows
  <1> QED BY <1>2, <1>3

(* The way goes on to the next entry.                                      *)
LEMMA BumpRoute ==
    ASSUME Floppy!FloppyConstants, WalkInv, Floppy!ReadsRight, Floppy!Reading,
           UNCHANGED <<reader, disk>>,
           levels' = <<[Floppy!Top EXCEPT !.i = @ + 1]>> \o Floppy!Below,
           NEW r, WayOf(levels, r), r[Len(r)] \in PlacesOfDisk,
           ReportOK(report', Floppy!Before(Bump(r)))
    PROVE  RouteInv'
  <1> DEFINE c == [levels[1] EXCEPT !.i = @ + 1]
             b == Bump(r)
             d == r[Len(r)][1]
             k == r[Len(r)][2]
  <1>0. levels # <<>> /\ disk \in Images
    BY DEF Floppy!Reading, WalkInv
  <1>1. levels[1] \in AnyCall /\ Floppy!Top = levels[1] /\ levels[1].i < Entries
        /\ Floppy!Below \in Seq(AnyCall)
    BY <1>0, TopIs DEF Floppy!Reading
  <1>2. c \in AnyCall /\ c.sector = levels[1].sector /\ c.i = levels[1].i + 1 /\ levels[1].i \in Nat
    BY <1>1, CallIs DEF AnyCall
  <1>3. /\ Way(r) /\ Len(r) = Len(Floppy!Below) + 1 /\ Len(r) \in Nat \ {0}
        /\ IsAt(levels[1], d, k)
        /\ \A n \in 1 .. Len(r) - 1 : IsAt(Floppy!Below[Len(r) - n], r[n][1], r[n][2])
    BY <1>0, <1>1, WayBelow
  <1>4. /\ Way(b) /\ Len(b) = Len(r) /\ \A n \in 1 .. Len(r) - 1 : b[n] = r[n]
        /\ b[Len(r)] = <<d, k + 1>>
    BY <1>0, <1>3, WaysGoOn, ExtendedWays
  <1> HIDE DEF b, c
  <1>5. IsAt(c, d, k + 1)
    <2> HIDE DEF d, k
    <2>1. PICK n \in 0 .. SectorsOf(d) - 1 :
             levels[1].sector = SectorOf(d, n) /\ k = n * Entries + levels[1].i + 1
      BY <1>3 DEF IsAt
    <2>2. k + 1 = n * Entries + c.i + 1
      <3>1. n * Entries \in Nat
        <4>1. Entries \in Nat /\ n \in Nat
          BY DEF Floppy!FloppyConstants
        <4> QED BY <4>1, Products
      <3> QED BY <1>2, <2>1, <3>1
    <2> QED BY <1>2, <2>1, <2>2, Zenon DEF IsAt
  <1>6. IsAt(c, b[Len(b)][1], b[Len(b)][2])
    <2>1. b[Len(b)][1] = d /\ b[Len(b)][2] = k + 1
      BY <1>4
    <2> QED BY <1>5, <2>1, Zenon
  <1>7. \A n \in 1 .. Len(b) - 1 : IsAt(Floppy!Below[Len(b) - n], b[n][1], b[n][2])
    BY <1>3, <1>4, Zenon
  <1>8. levels' = <<c>> \o Floppy!Below
    BY <1>1 DEF c
  <1>9. WayOf(levels', b)
    <2>1. Len(b) = Len(Floppy!Below) + 1
      BY <1>3, <1>4
    <2> QED BY <1>0, <1>1, <1>2, <1>4, <1>6, <1>7, <1>8, <2>1, WayOnTop
  <1>10. levels' # <<>>
    BY <1>1, <1>2, <1>8, PushIs
  <1> QED BY <1>9, <1>10, RouteFollows DEF b

(* The call of a directory: the way grows by its first entry.              *)
LEMMA EnterRoute ==
    ASSUME Floppy!FloppyConstants, WalkInv, Floppy!ReadsRight, Floppy!Directory,
           UNCHANGED <<reader, disk>>, NEW r, WayOf(levels, r), r[Len(r)] \in PlacesOfDisk,
           Floppy!Entry = Floppy!Held(r[Len(r)]),
           ReportOK(report', Floppy!Before(Grow(r, Floppy!Entry)))
    PROVE  RouteInv'
  <1> DEFINE e == Floppy!Entry
             first == disk.chain[e][1]
             c == Floppy!Call(first)
             w == [levels[1] EXCEPT !.nextEntryPos = filePos + 1]
             calls == <<w>> \o Floppy!Below
             g == Grow(r, e)
  <1>0. levels # <<>> /\ disk \in Images /\ e \in Floppy!SubDirs
    BY DEF Floppy!Directory, Floppy!Reading, WalkInv
  <1>1. levels[1] \in AnyCall /\ Floppy!Top = levels[1] /\ Floppy!Below \in Seq(AnyCall)
    BY <1>0, TopIs
  <1>2. /\ 1 \in 1 .. Len(disk.chain[e]) /\ first \in Readable
        /\ SectorsOf(e) \in Nat \ {0} /\ e \in Floppy!Dirs /\ SectorOf(e, 0) = first
    <2> HIDE DEF e
    <2>1. 1 \in 1 .. Len(disk.chain[e])
      BY <1>0, DiskIs
    <2>2. first \in Readable
      BY <1>0, <2>1, ClusterIs
    <2>3. e \in Floppy!Dirs /\ e # "root"
      BY <1>0 DEF Floppy!Dirs, Floppy!SubDirs
    <2>4. SectorsOf(e) \in Nat \ {0}
      BY <1>0, <2>3, DirIs
    <2>5. SectorOf(e, 0) = first
      BY <2>3 DEF SectorOf
    <2> QED BY <2>1, <2>2, <2>3, <2>4, <2>5
  <1>3. levels' = <<c>> \o calls
    BY <1>1 DEF Floppy!Directory, Floppy!Enter
  <1>4. /\ Way(r) /\ Len(r) = Len(Floppy!Below) + 1 /\ Len(r) \in Nat \ {0}
        /\ IsAt(levels[1], r[Len(r)][1], r[Len(r)][2])
        /\ \A n \in 1 .. Len(r) - 1 : IsAt(Floppy!Below[Len(r) - n], r[n][1], r[n][2])
    BY <1>0, <1>1, WayBelow
  <1>5. /\ Way(g) /\ Len(g) = Len(r) + 1 /\ \A n \in 1 .. Len(r) : g[n] = r[n]
        /\ g[Len(r) + 1] = <<e, 1>>
    <2>1. Way(g)
      BY <1>0, <1>4, WaysGoOn
    <2> HIDE DEF e
    <2>2. /\ Len(g) = Len(r) + 1 /\ \A n \in 1 .. Len(r) : g[n] = r[n]
          /\ g[Len(r) + 1] = <<e, 1>>
      BY <1>0, <1>2, <1>4, ExtendedWays
    <2> QED BY <2>1, <2>2
  <1>6. c \in AnyCall /\ c.sector = first /\ c.i = 0
    <2> HIDE DEF first
    <2> QED BY <1>2 DEF Floppy!Call, AnyCall, Floppy!FloppyConstants
  <1>7. w \in AnyCall /\ w.sector = levels[1].sector /\ w.i = levels[1].i
    <2>1. filePos + 1 \in Int
      BY DEF WalkInv
    <2> QED BY <1>1, <2>1, CallIs DEF AnyCall
  <1> HIDE DEF w, c, g, e, first
  <1>8. /\ calls \in Seq(AnyCall) /\ Len(calls) = Len(Floppy!Below) + 1 /\ calls[1] = w
        /\ \A n \in 1 .. Len(Floppy!Below) : calls[n + 1] = Floppy!Below[n]
        /\ Len(Floppy!Below) \in Nat
    BY <1>1, <1>7, PushIs
  <1> HIDE DEF calls
  <1>9. \A n \in 1 .. Len(g) - 1 : IsAt(calls[Len(g) - n], g[n][1], g[n][2])
    <2> TAKE n \in 1 .. Len(g) - 1
    <2>0. n \in 1 .. Len(r) /\ g[n] = r[n]
      BY <1>4, <1>5
    <2>1. CASE n = Len(r)
      <3>1. Len(g) - n = 1
        BY <1>4, <1>5, <2>1
      <3>2. IsAt(w, r[Len(r)][1], r[Len(r)][2])
        BY <1>4, <1>7, Zenon DEF IsAt
      <3> QED BY <1>8, <2>0, <2>1, <3>1, <3>2, Zenon
    <2>2. CASE n # Len(r)
      <3>1. n \in 1 .. Len(r) - 1 /\ Len(r) - n \in 1 .. Len(Floppy!Below)
            /\ Len(g) - n = (Len(r) - n) + 1
        BY <1>4, <1>5, <1>8, <2>0, <2>2
      <3>2. calls[Len(g) - n] = Floppy!Below[Len(r) - n]
        BY <1>8, <3>1
      <3> QED BY <1>4, <2>0, <3>1, <3>2, Zenon
    <2> QED BY <2>1, <2>2
  <1>10. IsAt(c, g[Len(g)][1], g[Len(g)][2])
    <2>1. g[Len(g)][1] = e /\ g[Len(g)][2] = 1
      BY <1>5
    <2>2. 0 \in 0 .. SectorsOf(e) - 1
      BY <1>2
    <2>3. 1 = 0 * Entries + c.i + 1
      BY <1>6 DEF Floppy!FloppyConstants
    <2>4. IsAt(c, e, 1)
      BY <1>2, <1>6, <2>2, <2>3, Zenon DEF IsAt
    <2> QED BY <2>1, <2>4, Zenon
  <1>11. WayOf(levels', g)
    <2>1. Len(g) = Len(calls) + 1
      BY <1>4, <1>5, <1>8
    <2> QED BY <1>0, <1>3, <1>5, <1>6, <1>8, <1>9, <1>10, <2>1, WayOnTop
  <1>12. levels' # <<>>
    BY <1>3, <1>6, <1>8, PushIs
  <1> QED BY <1>11, <1>12, RouteFollows DEF g, e

LEMMA RouteStart == Floppy!FloppyConstants /\ Floppy!Init => RouteInv
  <1> SUFFICES ASSUME Floppy!FloppyConstants, Floppy!Init PROVE RouteInv
    OBVIOUS
  <1> DEFINE c == Floppy!Call(Floppy!RootSector(0))
             r == <<<<"root", 1>>>>
  <1>1. SECTORS \in Nat \ {0} /\ Entries \in Nat \ {0} /\ disk \in Images
    BY DEF Floppy!FloppyConstants, Floppy!Init
  <1>2. c \in AnyCall /\ c.sector = 0 - SECTORS /\ c.i = 0
    BY <1>1 DEF Floppy!Call, AnyCall, Floppy!RootSector, Readable
  <1>3. levels = <<c>> /\ report = <<>>
    BY DEF Floppy!Init
  <1>4. "root" \in Floppy!Dirs
    BY DEF Floppy!Dirs
  <1>5. Len(r) = 1 /\ r[1] = <<"root", 1>> /\ r \in Seq(Floppy!Dirs \X Nat)
    BY <1>4
  <1>6. Way(r)
    <2>1. Len(disk.dirs["root"]) \in Nat
      BY <1>1, <1>4, DirIs
    <2>2. r[1][1] = "root" /\ r[1][2] = 1
      BY <1>5
    <2>3. 1 \in 1 .. Len(disk.dirs["root"]) + 1
      BY <2>1
    <2>4. \A n \in 1 .. Len(r) - 1 : FALSE
      BY <1>5
    <2> HIDE DEF r
    <2> QED BY <1>5, <2>2, <2>3, <2>4 DEF Way
  <1>7. IsAt(c, "root", 1)
    <2>1. SectorsOf("root") = SECTORS /\ SectorOf("root", 0) = 0 - SECTORS
      BY <1>1 DEF SectorsOf, SectorOf
    <2>2. 0 \in 0 .. SectorsOf("root") - 1
      BY <1>1, <2>1
    <2>3. 1 = 0 * Entries + c.i + 1
      BY <1>1, <1>2
    <2> HIDE DEF c
    <2> QED BY <1>2, <2>1, <2>2, <2>3, Zenon DEF IsAt
  <1> HIDE DEF c
  <1>8. WayOf(levels, r)
    <2>1. <<>> \in Seq(AnyCall) /\ Len(<<>>) = 0 /\ <<c>> \o <<>> = <<c>>
      BY <1>2
    <2>2. r[Len(r)][1] = "root" /\ r[Len(r)][2] = 1 /\ Len(r) = 0 + 1
      BY <1>5
    <2>3. \A n \in 1 .. Len(r) - 1 : FALSE
      BY <1>5
    <2> HIDE DEF r
    <2>4. WayOf(<<c>> \o <<>>, r)
      BY <1>1, <1>2, <1>6, <1>7, <2>1, <2>2, <2>3, WayOnTop
    <2> QED BY <1>3, <2>1, <2>4, Zenon
  <1>9. Floppy!Before(r) = {}
    <2> SUFFICES ASSUME NEW h \in Floppy!Listed, Floppy!Earlier(h, r) PROVE FALSE
      BY DEF Floppy!Before
    <2>1. h \in Floppy!Routes
      BY DEF Floppy!Listed
    <2>2. /\ Len(h) \in Nat \ {0} /\ h[1][2] \in Nat \ {0}
      <3>1. Len(h) \in Nat \ {0} /\ \A n \in 1 .. Len(h) : h[n][2] \in 1 .. Len(disk.dirs[h[n][1]])
        BY <1>1, <2>1, RouteIs
      <3> QED BY <3>1
    <2>3. PICK n \in 0 .. Len(h) : n < Len(r) /\ (n < Len(h) => h[n + 1][2] < r[n + 1][2])
      BY DEF Floppy!Earlier
    <2>4. n = 0
      BY <1>5, <2>2, <2>3
    <2>5. h[1][2] < r[1][2]
      BY <2>2, <2>3, <2>4
    <2>6. r[1][2] = 1
      BY <1>5
    <2> QED BY <2>2, <2>5, <2>6
  <1>10. ReportOK(report, Floppy!Before(r))
    <2>1. IsFiniteSet({}) /\ Cardinality({}) = 0
      BY FS_EmptySet
    <2>2. Len(report) = 0
      BY <1>3
    <2> QED BY <1>9, <2>1, <2>2 DEF ReportOK
  <1>11. levels # <<>>
    BY <1>3
  <1> QED BY <1>8, <1>10, <1>11 DEF RouteInv

LEMMA RouteStays ==
    ASSUME Floppy!FloppyConstants, WalkInv, RouteInv, [Floppy!Next]_Floppy!vars
    PROVE  RouteInv'
  <1>0. disk \in Images /\ report \in Seq(Nat \X Int) /\ UNCHANGED <<reader, disk>>
    <2>1. UNCHANGED <<reader, disk>>
      BY DEF Floppy!Next, Floppy!Step, Floppy!NextSector, Floppy!EndOfDirectory, Floppy!Skip,
             Floppy!File, Floppy!Directory, Floppy!Report, Floppy!vars
    <2> QED BY <2>1 DEF WalkInv
  <1>1. CASE ~Floppy!ReadsRight
    BY <1>0, <1>1, DiskStays DEF RouteInv
  <1>2. CASE Floppy!ReadsRight /\ UNCHANGED Floppy!vars
    <2>1. levels' = levels /\ report' = report
      BY <1>2 DEF Floppy!vars
    <2> QED BY <1>0, <1>2, <2>1, RouteFollows DEF RouteInv
  <1>3. CASE Floppy!ReadsRight /\ Floppy!Step
    <2>1. levels # <<>>
      BY <1>3 DEF Floppy!Step, Floppy!NextSector, Floppy!EndOfDirectory, Floppy!Skip, Floppy!File,
                  Floppy!Directory, Floppy!Reading
    <2>2. PICK r : WayOf(levels, r) /\ ReportOK(report, Floppy!Before(r))
      BY <1>3, <2>1 DEF RouteInv
    <2>3. Way(r) /\ Len(levels) \in Nat \ {0}
      BY <2>1, <2>2, TopIs DEF WayOf
    <2>4. ASSUME Floppy!Reading, Floppy!Entry # "none"
          PROVE  /\ r[Len(r)] \in PlacesOfDisk /\ Floppy!Entry = Floppy!Held(r[Len(r)])
                 /\ Floppy!LineOf(r) = <<Len(levels) - 1, filePos>>
      BY <2>2, <2>4, CurrentIs
    <2>5. ASSUME Floppy!Reading, Floppy!Entry # "none", Floppy!Report
          PROVE  ReportOK(report', Floppy!Before(r) \cup {r})
      <3>1. Floppy!LineOf(r) = <<Len(levels) - 1, filePos>> /\ r \notin Floppy!Before(r)
        BY <1>0, <2>3, <2>4, <2>5, AfterEntry
      <3>2. <<Len(levels) - 1, filePos>> \in Nat \X Int
        BY <2>3 DEF WalkInv
      <3>3. Floppy!LineOf(r) \in Nat \X Int /\ report' = Append(report, Floppy!LineOf(r))
        BY <2>5, <3>1, <3>2 DEF Floppy!Report
      <3>4. ReportOK(Append(report, Floppy!LineOf(r)), Floppy!Before(r) \cup {r})
        BY <1>0, <2>2, <3>1, <3>3, ReportGrows
      <3> QED BY <3>3, <3>4, Zenon
    <2>6. CASE Floppy!NextSector
      <3>1. Floppy!Top.i = Entries /\ UNCHANGED report
        BY <2>1, <2>6, NextSectorIs
      <3>2. CASE GoesOn
        <4> DEFINE c == Floppy!Call(NextIs)
        <4>1. NextIs \in Readable /\ Floppy!Enter(NextIs, Floppy!Below)
          BY <2>1, <2>6, <3>2, NextSectorIs
        <4>2. c \in AnyCall
          BY <4>1 DEF Floppy!Call, AnyCall, Floppy!FloppyConstants
        <4>3. levels' = <<c>> \o Floppy!Below /\ Floppy!Below \in Seq(AnyCall)
          BY <2>1, <4>1, TopIs DEF Floppy!Enter
        <4>4. IsAt(c, r[Len(r)][1], r[Len(r)][2])
          BY <1>3, <2>1, <2>2, <3>1, <3>2, SectorEnds
        <4> HIDE DEF c
        <4>5. /\ Len(r) = Len(Floppy!Below) + 1
              /\ \A n \in 1 .. Len(r) - 1 : IsAt(Floppy!Below[Len(r) - n], r[n][1], r[n][2])
          BY <2>1, <2>2, WayBelow
        <4>6. WayOf(levels', r)
          BY <1>0, <2>3, <4>2, <4>3, <4>4, <4>5, WayOnTop
        <4>7. levels' # <<>>
          BY <4>2, <4>3, PushIs
        <4>8. ReportOK(report', Floppy!Before(r))
          BY <2>2, <3>1
        <4> QED BY <1>0, <1>3, <4>6, <4>7, <4>8, RouteFollows
      <3>3. CASE ~GoesOn
        <4>1. Floppy!Leave
          BY <2>1, <2>6, <3>3, NextSectorIs
        <4>2. r[Len(r)][2] = Len(disk.dirs[r[Len(r)][1]]) + 1
          BY <1>3, <2>1, <2>2, <3>1, <3>3, SectorEnds
        <4>3. UNCHANGED <<reader, disk, report>>
          BY <1>0, <3>1
        <4> QED BY <1>3, <2>1, <2>2, <4>1, <4>2, <4>3, LeaveRoute
      <3> QED BY <3>2, <3>3
    <2>7. CASE Floppy!EndOfDirectory
      <3>1. Floppy!Reading /\ Floppy!Entry = "none" /\ Floppy!Leave /\ UNCHANGED <<reader, disk, report>>
        BY <2>7 DEF Floppy!EndOfDirectory
      <3>2. r[Len(r)][2] = Len(disk.dirs[r[Len(r)][1]]) + 1
        BY <2>2, <3>1, CurrentIs
      <3> QED BY <1>3, <2>1, <2>2, <3>1, <3>2, LeaveRoute
    <2>8. CASE Floppy!Skip
      <3>1. /\ Floppy!Reading /\ Floppy!Entry = "deleted" /\ UNCHANGED report
            /\ levels' = <<[Floppy!Top EXCEPT !.i = @ + 1]>> \o Floppy!Below
        BY <2>8 DEF Floppy!Skip
      <3>2. r[Len(r)] \in PlacesOfDisk /\ Floppy!Held(r[Len(r)]) = "deleted"
        BY <2>4, <3>1
      <3>3. Floppy!Before(Bump(r)) = Floppy!Before(r)
        BY <1>0, <2>3, <3>2, AfterEntry
      <3>4. ReportOK(report', Floppy!Before(Bump(r)))
        BY <2>2, <3>1, <3>3
      <3> QED BY <1>0, <1>3, <2>2, <3>1, <3>2, <3>4, BumpRoute
    <2>9. CASE Floppy!File
      <3>1. /\ Floppy!Reading /\ Floppy!Entry = "file" /\ Floppy!Report
            /\ levels' = <<[Floppy!Top EXCEPT !.i = @ + 1]>> \o Floppy!Below
        BY <2>9 DEF Floppy!File
      <3>2. r[Len(r)] \in PlacesOfDisk /\ Floppy!Held(r[Len(r)]) = "file"
        BY <2>4, <3>1
      <3>3. Floppy!Before(Bump(r)) = Floppy!Before(r) \cup {r}
        BY <1>0, <2>3, <3>2, AfterEntry
      <3>4. ReportOK(report', Floppy!Before(Bump(r)))
        BY <2>5, <3>1, <3>3
      <3> QED BY <1>0, <1>3, <2>2, <3>1, <3>2, <3>4, BumpRoute
    <2>10. CASE Floppy!Directory
      <3>1. Floppy!Reading /\ Floppy!Entry \in Floppy!SubDirs /\ Floppy!Report
        BY <2>10 DEF Floppy!Directory
      <3>2. Floppy!Entry # "none"
        BY <3>1 DEF Floppy!SubDirs
      <3>3. r[Len(r)] \in PlacesOfDisk /\ Floppy!Entry = Floppy!Held(r[Len(r)])
        BY <2>4, <3>1, <3>2
      <3>4. Floppy!Before(Grow(r, Floppy!Entry)) = Floppy!Before(r) \cup {r}
        BY <1>0, <2>3, <3>1, <3>3, AfterEntry
      <3>5. ReportOK(report', Floppy!Before(Grow(r, Floppy!Entry)))
        BY <2>5, <3>1, <3>2, <3>4
      <3> QED BY <1>0, <1>3, <2>2, <2>10, <3>3, <3>5, EnterRoute
    <2> QED BY <1>3, <2>6, <2>7, <2>8, <2>9, <2>10 DEF Floppy!Step
  <1> QED BY <1>1, <1>2, <1>3 DEF Floppy!Next

LEMMA ReadersAreRight ==
    ASSUME Floppy!FloppyConstants, WalkInv, RouteInv
    PROVE  Floppy!TypeOK /\ Floppy!ReportIsTheTree
  <1>1. filePos \in 0 .. Floppy!SectorStart(Floppy!EOC_MARKER_START)
    BY DEF WalkInv, Floppy!EOC_MARKER_START
  <1>2. \A k \in DOMAIN levels : levels[k].i \in 0 .. Entries
    <2>1. \A k \in DOMAIN levels : levels[k] \in AnyCall
      BY DEF WalkInv
    <2>2. \A c \in AnyCall : c.i \in 0 .. Entries
      BY DEF AnyCall
    <2> QED BY <2>1, <2>2
  <1>3. ASSUME Floppy!ReadsRight PROVE Len(levels) <= 3
    <2>1. CASE levels = <<>>
      BY <2>1
    <2>2. CASE levels # <<>>
      <3>1. PICK r : WayOf(levels, r)
        BY <1>3, <2>2 DEF RouteInv
      <3>2. Len(r) = Len(levels) /\ Len(r) <= 3
        BY <3>1, WaysAreShort DEF WayOf, WalkInv
      <3> QED BY <3>2
    <2> QED BY <2>1, <2>2
  <1>4. ASSUME Floppy!ReadsRight, Floppy!Ended PROVE Floppy!Reported(Floppy!Listed)
    <2>1. ReportOK(report, Floppy!Listed)
      BY <1>4 DEF RouteInv, Floppy!Ended
    <2> QED BY <2>1 DEF ReportOK, Floppy!Reported, Floppy!Cardinality, Cardinality
  <1> QED BY <1>1, <1>2, <1>3, <1>4
          DEF Floppy!TypeOK, Floppy!ReportIsTheTree, Floppy!ReportIsExpected

(* Floppy readers: a reader whose image the code can follow ends with      *)
(* exactly the entries that are not deleted, each on its line, in order.   *)
THEOREM ReportAlwaysTheTree ==
    Floppy!FloppyConstants /\ Floppy!Init /\ [][Floppy!Next]_Floppy!vars
        => [](Floppy!TypeOK /\ Floppy!ReportIsTheTree)
  <1> SUFFICES ASSUME Floppy!FloppyConstants
               PROVE  Floppy!Init /\ [][Floppy!Next]_Floppy!vars
                         => [](Floppy!TypeOK /\ Floppy!ReportIsTheTree)
    OBVIOUS
  <1> DEFINE Inv == WalkInv /\ RouteInv
  <1>1. Floppy!Init => Inv
    BY WalkStart, RouteStart
  <1>2. Inv /\ [Floppy!Next]_Floppy!vars => Inv'
    BY WalkStays, RouteStays
  <1>3. Inv => Floppy!TypeOK /\ Floppy!ReportIsTheTree
    BY ReadersAreRight
  <1> HIDE DEF Inv
  <1> QED BY <1>1, <1>2, <1>3, PTL
=============================================================================
