----------------------------- MODULE ToolProofs -----------------------------
(* Proofs about the smaller programs, with variables of their own: the     *)
(* editors, the pipe of ps and grep, the processes and threads that print, *)
(* the process viewer and the HTTP client.                                 *)
EXTENDS Integers, Sequences, FiniteSets, FiniteSetTheorems, WellFoundedInduction, TLAPS

CONSTANTS
    None, STRING_LIMIT, Char, SharedChar, NUL, Process,     \* editors
    MaxLines, Capacity,                                     \* ps and grep
    Rounds,                                                 \* three threads
    Pid, MAX_PROC_NUM, ScreenRows,                          \* process viewer
    Byte, MaxResponse, BufferSize                           \* HTTP client

VARIABLES
    string, prev, len, num_undos, semaphore, pc, command, killed,
    history, undo_count, defined, before, wrapped,
    at, fds, pipe, toPrint, got,
    parent, calls, child, output, round, main, written, row, rows,
    memsize, alive, stayed, cursor, names, procs, shown, phase,
    response, taken, done, last4, inHeader, stderr, stdout

Plain == INSTANCE PlainEditor
Kept == INSTANCE Editing WITH
    UNDO_LIMIT <- 3, text <- Plain!Visible(string), past <- Plain!History
Shared == INSTANCE SharedEditor WITH Char <- SharedChar, sem <- semaphore
Ring == INSTANCE RingEditor
PsGrep == INSTANCE Pipeline
Family == INSTANCE ThreeChildren
Interleaved == INSTANCE Interleaving
ProcessList == INSTANCE ProcessTop WITH Rows <- ScreenRows
Http == INSTANCE HTTPClient

-----------------------------------------------------------------------------
(* Natural numbers, sequences and their values.                            *)
LEMMA LeastOfNat ==
    ASSUME NEW T \in SUBSET Nat, T # {}
    PROVE  \E n \in T : \A m \in T : n <= m
  <1>1. PICK n \in T : \A m \in T : ~(<<m, n>> \in OpToRel(<, Nat))
    BY NatLessThanWellFounded, WFMin, Zenon
  <1>2. \A m \in T : ~(m < n)
    BY <1>1, Zenon DEF OpToRel
  <1> QED BY <1>2

LEMMA NatSetInduction ==
    ASSUME NEW S, 0 \in S, \A n \in Nat : n \in S => n + 1 \in S
    PROVE  Nat \subseteq S
  <1> SUFFICES ASSUME Nat \ S # {} PROVE FALSE
    OBVIOUS
  <1>1. PICK n \in Nat \ S : \A m \in Nat \ S : n <= m
    BY LeastOfNat
  <1>2. n # 0 /\ n - 1 \in Nat /\ n - 1 \in S
    BY <1>1
  <1> QED BY <1>1, <1>2

LEMMA AppendFacts ==
    ASSUME NEW S, NEW s \in Seq(S), NEW e \in S
    PROVE  /\ Append(s, e) \in Seq(S) /\ Len(Append(s, e)) = Len(s) + 1 /\ Len(s) \in Nat
           /\ \A k \in 1 .. Len(s) : Append(s, e)[k] = s[k]
           /\ Append(s, e)[Len(s) + 1] = e
  OBVIOUS

LEMMA TailFacts ==
    ASSUME NEW S, NEW s \in Seq(S), Len(s) # 0
    PROVE  /\ Tail(s) \in Seq(S) /\ Len(Tail(s)) = Len(s) - 1
           /\ \A k \in 1 .. Len(s) - 1 : Tail(s)[k] = s[k + 1]
  OBVIOUS

LEMMA SequenceIsFunction ==
    ASSUME NEW S, NEW s \in Seq(S) PROVE s \in [1 .. Len(s) -> S]
  OBVIOUS

LEMMA SameSequence ==
    ASSUME NEW S, NEW s \in Seq(S), NEW t \in Seq(S), Len(s) = Len(t),
           \A m \in 1 .. Len(s) : s[m] = t[m]
    PROVE  s = t
  OBVIOUS

(* The first n values of a sequence.                                       *)
FirstOf(f, n) == {f[k] : k \in 1 .. n}

LEMMA InjectiveCounts ==
    ASSUME NEW n \in Nat, NEW f, \A a, b \in 1 .. n : f[a] = f[b] => a = b
    PROVE  IsFiniteSet(FirstOf(f, n)) /\ Cardinality(FirstOf(f, n)) = n
  <1> DEFINE g == [i \in 1 .. n |-> f[i]]
  <1>1. g \in Surjection(1 .. n, FirstOf(f, n)) /\ g \in Injection(1 .. n, FirstOf(f, n))
    BY DEF Surjection, Injection, IsInjective, FirstOf
  <1>2. IsFiniteSet(1 .. n) /\ Cardinality(1 .. n) = n
    BY FS_Interval
  <1> HIDE DEF g
  <1> QED BY <1>1, <1>2, FS_Surjection

LEMMA CountedIsInjective ==
    ASSUME NEW n \in Nat, NEW f, Cardinality(FirstOf(f, n)) = n
    PROVE  \A a, b \in 1 .. n : f[a] = f[b] => a = b
  <1> DEFINE g == [i \in 1 .. n |-> f[i]]
  <1>1. g \in Surjection(1 .. n, FirstOf(f, n))
    BY DEF Surjection, FirstOf
  <1>2. IsFiniteSet(1 .. n) /\ Cardinality(1 .. n) = n
    BY FS_Interval
  <1>3. g \in Injection(1 .. n, FirstOf(f, n))
    <2> HIDE DEF g
    <2> QED BY <1>1, <1>2, FS_Surjection
  <1> QED BY <1>3 DEF Injection, IsInjective

-----------------------------------------------------------------------------
(* The editors of hw3 and hw4.  What strings show, and what is left of it  *)
(* in a copy.                                                              *)
EditorConstants == STRING_LIMIT \in Nat \ {0}

LEMMA StrlenEnds ==
    ASSUME EditorConstants, NEW s
    PROVE  /\ Plain!Strlen(s) \in 0 .. STRING_LIMIT
           /\ \A k \in Plain!Cell : k < Plain!Strlen(s) => s[k] # NUL
           /\ Plain!Strlen(s) < STRING_LIMIT => s[Plain!Strlen(s)] = NUL
  <1>0. STRING_LIMIT \in Nat
    BY DEF EditorConstants
  <1>1. CASE ~Plain!Terminated(s)
    BY <1>0, <1>1 DEF Plain!Terminated, Plain!Strlen, Plain!Cell
  <1>2. CASE Plain!Terminated(s)
    <2> DEFINE zeros == {i \in Plain!Cell : s[i] = NUL}
    <2>1. zeros \subseteq Nat /\ zeros # {}
      BY <1>0, <1>2 DEF Plain!Terminated, Plain!Cell
    <2> HIDE DEF zeros
    <2>2. \E n \in zeros : \A m \in zeros : n <= m
      BY <2>1, LeastOfNat
    <2>3. Plain!Min(zeros) \in zeros /\ \A m \in zeros : Plain!Min(zeros) <= m
      BY <2>2 DEF Plain!Min
    <2>4. Plain!Strlen(s) = Plain!Min(zeros)
      BY <1>2 DEF Plain!Strlen, zeros
    <2>5. Plain!Strlen(s) \in Plain!Cell /\ s[Plain!Strlen(s)] = NUL
      BY <2>3, <2>4 DEF zeros
    <2>6. ASSUME NEW k \in Plain!Cell, k < Plain!Strlen(s) PROVE s[k] # NUL
      <3>1. ~(Plain!Strlen(s) <= k)
        BY <1>0, <2>5, <2>6 DEF Plain!Cell
      <3> QED BY <2>3, <2>4, <3>1 DEF zeros
    <2> QED BY <1>0, <2>5, <2>6 DEF Plain!Cell
  <1> QED BY <1>1, <1>2

(* Nothing else is the place of the first terminator.                      *)
LEMMA StrlenIsFirst ==
    ASSUME EditorConstants, NEW s, NEW n \in 0 .. STRING_LIMIT,
           \A k \in Plain!Cell : k < n => s[k] # NUL,
           n < STRING_LIMIT => s[n] = NUL
    PROVE  Plain!Strlen(s) = n
  <1>0. STRING_LIMIT \in Nat
    BY DEF EditorConstants
  <1> DEFINE m == Plain!Strlen(s)
  <1>1. /\ m \in 0 .. STRING_LIMIT
        /\ \A k \in Plain!Cell : k < m => s[k] # NUL
        /\ m < STRING_LIMIT => s[m] = NUL
    BY StrlenEnds
  <1> HIDE DEF m
  <1>2. ~(n < m)
    <2> SUFFICES ASSUME n < m PROVE FALSE
      OBVIOUS
    <2>1. n \in Plain!Cell /\ n < STRING_LIMIT
      BY <1>0, <1>1 DEF Plain!Cell
    <2> QED BY <1>1, <2>1
  <1>3. ~(m < n)
    <2> SUFFICES ASSUME m < n PROVE FALSE
      OBVIOUS
    <2>1. m \in Plain!Cell /\ m < STRING_LIMIT
      BY <1>0, <1>1 DEF Plain!Cell
    <2> QED BY <1>1, <2>1
  <1>4. m = n
    BY <1>0, <1>1, <1>2, <1>3
  <1> QED BY <1>4 DEF m

LEMMA CopyShows ==
    ASSUME EditorConstants, NEW s
    PROVE  Plain!Visible(Plain!Strncpy(s)) = Plain!Visible(s)
  <1>0. STRING_LIMIT \in Nat
    BY DEF EditorConstants
  <1> DEFINE n == Plain!Strlen(s)
             t == [i \in Plain!Cell |-> IF i < n THEN s[i] ELSE NUL]
  <1>1. /\ n \in 0 .. STRING_LIMIT
        /\ \A k \in Plain!Cell : k < n => s[k] # NUL
    BY StrlenEnds
  <1>2. Plain!Strncpy(s) = t
    BY DEF Plain!Strncpy
  <1> HIDE DEF n
  <1>3. \A k \in Plain!Cell : k < n => t[k] = s[k] /\ t[k] # NUL
    BY <1>1
  <1>4. n < STRING_LIMIT => t[n] = NUL
    <2>1. n < STRING_LIMIT => n \in Plain!Cell /\ ~(n < n)
      BY <1>0, <1>1 DEF Plain!Cell
    <2> QED BY <2>1
  <1> HIDE DEF t
  <1>5. Plain!Strlen(t) = n
    BY <1>1, <1>3, <1>4, StrlenIsFirst
  <1>6. \A i \in 1 .. n : t[i - 1] = s[i - 1]
    <2>1. \A i \in 1 .. n : i - 1 \in Plain!Cell /\ i - 1 < n
      BY <1>0, <1>1 DEF Plain!Cell
    <2> QED BY <1>3, <2>1
  <1> QED BY <1>2, <1>5, <1>6 DEF Plain!Visible, n

LEMMA ShownIsText ==
    ASSUME EditorConstants, NEW C, NEW s \in [Plain!Cell -> C \cup {NUL}]
    PROVE  Plain!Visible(s) \in Seq(C)
  <1>0. STRING_LIMIT \in Nat
    BY DEF EditorConstants
  <1> DEFINE n == Plain!Strlen(s)
  <1>1. /\ n \in 0 .. STRING_LIMIT
        /\ \A k \in Plain!Cell : k < n => s[k] # NUL
    BY StrlenEnds
  <1>2. Plain!Visible(s) = [i \in 1 .. n |-> s[i - 1]]
    BY DEF Plain!Visible
  <1> HIDE DEF n
  <1>3. \A i \in 1 .. n : s[i - 1] \in C
    <2>1. \A i \in 1 .. n : i - 1 \in Plain!Cell /\ i - 1 < n
      BY <1>0, <1>1 DEF Plain!Cell
    <2> QED BY <1>1, <2>1
  <1>4. n \in Nat
    BY <1>0, <1>1
  <1> QED BY <1>2, <1>3, <1>4

-----------------------------------------------------------------------------
(* The texts that undo goes back to, and what an edit and an undo make of  *)
(* them: the oldest of four is dropped.                                    *)
Texts(p, n) == [i \in 1 .. n |-> Plain!Visible(p[n + 1 - i])]

LastThree(all) == IF Len(all) > 3 THEN Tail(all) ELSE all

(* The n entries earlier the newest, and the d newest, of V[0], V[1] ...     *)
Older(V, n) == [i \in 1 .. n |-> V[n + 1 - i]]
Newest(V, d) == [i \in 1 .. d |-> V[d - i]]

LEMMA LastThreeAre ==
    ASSUME NEW V, NEW n \in 0 .. 3, NEW d, d = IF n < 3 THEN n + 1 ELSE n
    PROVE  LastThree(Append(Older(V, n), V[0])) = Newest(V, d)
  <1> DEFINE earlier == [i \in 1 .. n |-> V[n + 1 - i]]
             all == Append(earlier, V[0])
             longer == [i \in 1 .. n + 1 |-> V[n + 1 - i]]
  <1> SUFFICES LastThree(all) = [i \in 1 .. d |-> V[d - i]]
    BY DEF Older, Newest
  <1>1. all = longer
    <2> DEFINE S == {V[i] : i \in 0 .. 3}
    <2>1. \A i \in 1 .. n : V[n + 1 - i] \in S
      <3>1. \A i \in 1 .. n : n + 1 - i \in 0 .. 3
        OBVIOUS
      <3> QED BY <3>1
    <2>2. V[0] \in S
      OBVIOUS
    <2> HIDE DEF S
    <2>3. earlier \in Seq(S) /\ Len(earlier) = n
      BY <2>1
    <2>4. all \in Seq(S) /\ Len(all) = n + 1
      BY <2>2, <2>3
    <2>5. \A i \in 1 .. n + 1 : all[i] = IF i <= n THEN earlier[i] ELSE V[0]
      BY <2>2, <2>3
    <2>6. ASSUME NEW i \in 1 .. n + 1 PROVE all[i] = V[n + 1 - i]
      <3>1. CASE i <= n
        BY <2>5, <3>1
      <3>2. CASE i = n + 1
        <4>1. n + 1 - i = 0 /\ ~(i <= n)
          BY <3>2
        <4> QED BY <2>5, <4>1
      <3> QED BY <3>1, <3>2
    <2>7. all = [i \in 1 .. n + 1 |-> all[i]]
      BY <2>4
    <2> QED BY <2>6, <2>7
  <1>2. Len(longer) = n + 1
    OBVIOUS
  <1>3. CASE n < 3
    BY <1>1, <1>2, <1>3 DEF LastThree
  <1>4. CASE n = 3
    <2>1. longer = <<V[3], V[2], V[1], V[0]>>
      BY <1>4
    <2>2. [i \in 1 .. 3 |-> V[3 - i]] = <<V[2], V[1], V[0]>>
      OBVIOUS
    <2>3. Tail(<<V[3], V[2], V[1], V[0]>>) = <<V[2], V[1], V[0]>>
      OBVIOUS
    <2> QED BY <1>1, <1>2, <1>4, <2>1, <2>2, <2>3 DEF LastThree
  <1> QED BY <1>3, <1>4

LEMMA TextsAfterEdit ==
    ASSUME EditorConstants, NEW s, NEW p, NEW n \in 0 .. 3, NEW q,
           q = <<Plain!Strncpy(s), Plain!Strncpy(p[1]), Plain!Strncpy(p[2])>>,
           NEW d, d = IF n < 3 THEN n + 1 ELSE n
    PROVE  Texts(q, d) = LastThree(Append(Texts(p, n), Plain!Visible(s)))
  <1> DEFINE V == [i \in 0 .. 3 |-> IF i = 0 THEN Plain!Visible(s) ELSE Plain!Visible(p[i])]
  <1>1. Texts(p, n) = Older(V, n)
    <2>1. \A i \in 1 .. n : n + 1 - i \in 0 .. 3 /\ n + 1 - i # 0
      OBVIOUS
    <2> QED BY <2>1 DEF Texts, Older
  <1>2. \A k \in 1 .. 3 : Plain!Visible(q[k]) = V[k - 1]
    <2>1. /\ Plain!Visible(q[1]) = Plain!Visible(s)
          /\ Plain!Visible(q[2]) = Plain!Visible(p[1])
          /\ Plain!Visible(q[3]) = Plain!Visible(p[2])
      BY CopyShows
    <2>2. V[0] = Plain!Visible(s) /\ V[1] = Plain!Visible(p[1]) /\ V[2] = Plain!Visible(p[2])
      OBVIOUS
    <2> HIDE DEF V
    <2>3. /\ Plain!Visible(q[1]) = V[1 - 1] /\ Plain!Visible(q[2]) = V[2 - 1]
          /\ Plain!Visible(q[3]) = V[3 - 1]
      BY <2>1, <2>2
    <2> QED BY <2>3
  <1>3. V[0] = Plain!Visible(s)
    OBVIOUS
  <1> HIDE DEF V
  <1>4. Texts(q, d) = Newest(V, d)
    <2>1. ASSUME NEW i \in 1 .. d PROVE Plain!Visible(q[d + 1 - i]) = V[d - i]
      <3>1. d + 1 - i \in 1 .. 3 /\ (d + 1 - i) - 1 = d - i
        OBVIOUS
      <3> QED BY <1>2, <3>1
    <2> QED BY <2>1 DEF Texts, Newest
  <1>5. LastThree(Append(Older(V, n), V[0])) = Newest(V, d)
    BY LastThreeAre
  <1> QED BY <1>1, <1>3, <1>4, <1>5

LEMMA TextsAfterUndo ==
    ASSUME EditorConstants, NEW p, NEW n \in 1 .. 3, NEW q,
           q = <<Plain!Strncpy(p[2]), Plain!Strncpy(p[3]), p[3]>>
    PROVE  /\ Texts(q, n - 1) = [i \in 1 .. n - 1 |-> Plain!Visible(p[n + 1 - i])]
           /\ Texts(p, n) # <<>>
           /\ Kept!Last(Texts(p, n)) = Plain!Visible(p[1])
           /\ Kept!Front(Texts(p, n)) = [i \in 1 .. n - 1 |-> Plain!Visible(p[n + 1 - i])]
  <1>1. /\ Plain!Visible(q[1]) = Plain!Visible(p[2])
        /\ Plain!Visible(q[2]) = Plain!Visible(p[3])
    BY CopyShows
  <1>2. ASSUME NEW i \in 1 .. n - 1
        PROVE  Plain!Visible(q[n - 1 + 1 - i]) = Plain!Visible(p[n + 1 - i])
    <2>1. CASE n - i = 1
      <3>1. n - 1 + 1 - i = 1 /\ n + 1 - i = 2
        BY <2>1
      <3> QED BY <1>1, <3>1
    <2>2. CASE n - i = 2
      <3>1. n - 1 + 1 - i = 2 /\ n + 1 - i = 3
        BY <2>2
      <3> QED BY <1>1, <3>1
    <2> QED BY <2>1, <2>2
  <1> DEFINE h == [i \in 1 .. n |-> Plain!Visible(p[n + 1 - i])]
  <1>3. Texts(p, n) = h
    BY DEF Texts
  <1>4. Len(h) = n /\ h # <<>> /\ h[n] = Plain!Visible(p[1])
    <2>1. n \in 1 .. n /\ n + 1 - n = 1 /\ n \in Nat /\ n # 0
      OBVIOUS
    <2>2. h[n] = Plain!Visible(p[n + 1 - n])
      BY <2>1
    <2>3. Len(h) = n
      BY <2>1
    <2> QED BY <2>1, <2>2, <2>3
  <1>5. \A i \in 1 .. n - 1 : h[i] = Plain!Visible(p[n + 1 - i])
    OBVIOUS
  <1> HIDE DEF h
  <1>6. Kept!Last(h) = Plain!Visible(p[1])
    BY <1>4 DEF Kept!Last
  <1>7. Kept!Front(h) = [i \in 1 .. n - 1 |-> Plain!Visible(p[n + 1 - i])]
    BY <1>4, <1>5 DEF Kept!Front
  <1> QED BY <1>2, <1>3, <1>4, <1>6, <1>7 DEF Texts

-----------------------------------------------------------------------------
(* The editor of hw3.                                                      *)
LEMMA CopyFits ==
    ASSUME NEW C, NEW s \in [Plain!Cell -> C \cup {NUL}]
    PROVE  Plain!Strncpy(s) \in [Plain!Cell -> C \cup {NUL}]
  BY DEF Plain!Strncpy

LEMMA ZerosFit ==
    ASSUME EditorConstants, NEW C
    PROVE  Plain!Filled(<<>>) \in [Plain!Cell -> C \cup {NUL}]
  <1>1. Plain!Filled(<<>>) = [i \in Plain!Cell |-> NUL]
    <2>1. \A i \in Plain!Cell : ~(i < Len(<<>>))
      BY DEF Plain!Cell, EditorConstants
    <2> QED BY <2>1 DEF Plain!Filled
  <1> QED BY <1>1

(* A string that ends in its array is short enough for one character more. *)
LEMMA EndedIsShort ==
    ASSUME EditorConstants, NEW s, Plain!Terminated(s)
    PROVE  Plain!Strlen(s) \in 0 .. STRING_LIMIT - 1
  <1>0. STRING_LIMIT \in Nat
    BY DEF EditorConstants
  <1>1. Plain!Strlen(s) \in 0 .. STRING_LIMIT /\ \A k \in Plain!Cell : k < Plain!Strlen(s) => s[k] # NUL
    BY StrlenEnds
  <1>2. PICK k \in Plain!Cell : s[k] = NUL
    BY DEF Plain!Terminated
  <1>3. ~(k < Plain!Strlen(s)) /\ k \in 0 .. STRING_LIMIT - 1
    BY <1>1, <1>2 DEF Plain!Cell
  <1> QED BY <1>0, <1>1, <1>3

LEMMA PlainTexts ==
    /\ Plain!History = Texts(prev, num_undos)
    /\ Plain!History' = Texts(prev', num_undos')
    /\ Plain!Visible(string)' = Plain!Visible(string')
  BY DEF Plain!History, Texts, Plain!Visible, Plain!Strlen, Plain!Terminated

LEMMA PlainTyped ==
    ASSUME Plain!TypeOK
    PROVE  /\ prev = <<prev[1], prev[2], prev[3]>>
           /\ \A i \in 1 .. 3 : prev[i] \in [Plain!Cell -> Char \cup {NUL}]
           /\ string \in [Plain!Cell -> Char \cup {NUL}]
           /\ len \in 0 .. STRING_LIMIT - 1 /\ num_undos \in 0 .. 3
  <1>1. prev \in Seq(Plain!Buffer) /\ Len(prev) = 3
    BY DEF Plain!TypeOK, Plain!UNDO_LIMIT
  <1>2. prev = <<prev[1], prev[2], prev[3]>> /\ \A i \in 1 .. 3 : prev[i] \in Plain!Buffer
    BY <1>1
  <1>3. \A i \in 1 .. 3 : prev[i] \in [Plain!Cell -> Char \cup {NUL}]
    BY <1>2 DEF Plain!Buffer
  <1>4. /\ string \in [Plain!Cell -> Char \cup {NUL}]
        /\ len \in 0 .. STRING_LIMIT - 1 /\ num_undos \in 0 .. 3
    BY DEF Plain!TypeOK, Plain!UNDO_LIMIT, Plain!Buffer
  <1> QED BY <1>2, <1>3, <1>4

LEMMA ThreeBuffers ==
    ASSUME NEW S, NEW a \in S, NEW b \in S, NEW c \in S
    PROVE  <<a, b, c>> \in Seq(S) /\ Len(<<a, b, c>>) = 3
  OBVIOUS

LEMMA PlainStart ==
    ASSUME EditorConstants, Plain!Init
    PROVE  Plain!TypeOK /\ Kept!EditingInit
  <1>1. string \in [Plain!Cell -> Char \cup {NUL}] /\ Plain!Terminated(string)
    BY DEF Plain!Init, Plain!Holds, Plain!Buffer
  <1>2. len \in 0 .. STRING_LIMIT - 1 /\ num_undos = 0
    BY <1>1, EndedIsShort DEF Plain!Init
  <1>3. prev \in Seq(Plain!Buffer) /\ Len(prev) = 3
    BY ZerosFit, ThreeBuffers DEF Plain!Init, Plain!Empty, Plain!Buffer
  <1>4. Plain!TypeOK
    BY <1>1, <1>2, <1>3 DEF Plain!TypeOK, Plain!UNDO_LIMIT, Plain!Buffer
  <1>5. Plain!Visible(string) \in Seq(Char)
    BY <1>1, ShownIsText
  <1>6. Plain!History = <<>>
    BY <1>2 DEF Plain!History
  <1> QED BY <1>4, <1>5, <1>6 DEF Kept!EditingInit

LEMMA PlainRemembers ==
    ASSUME EditorConstants, Plain!TypeOK, Plain!Remember
    PROVE  /\ prev' \in Seq(Plain!Buffer) /\ Len(prev') = 3 /\ num_undos' \in 0 .. 3
           /\ Kept!Edit
  <1>1. /\ \A i \in 1 .. 3 : prev[i] \in [Plain!Cell -> Char \cup {NUL}]
        /\ string \in [Plain!Cell -> Char \cup {NUL}]
        /\ num_undos \in 0 .. 3
    BY PlainTyped
  <1>2. /\ prev' = <<Plain!Strncpy(string), Plain!Strncpy(prev[1]), Plain!Strncpy(prev[2])>>
        /\ num_undos' = IF num_undos < 3 THEN num_undos + 1 ELSE num_undos
    BY DEF Plain!Remember, Plain!UNDO_LIMIT
  <1>3. prev' \in Seq(Plain!Buffer) /\ Len(prev') = 3
    <2>1. /\ Plain!Strncpy(string) \in Plain!Buffer
          /\ Plain!Strncpy(prev[1]) \in Plain!Buffer
          /\ Plain!Strncpy(prev[2]) \in Plain!Buffer
      BY <1>1, CopyFits DEF Plain!Buffer
    <2> QED BY <1>2, <2>1, ThreeBuffers
  <1>4. Texts(prev', num_undos')
            = LastThree(Append(Texts(prev, num_undos), Plain!Visible(string)))
    BY <1>1, <1>2, TextsAfterEdit
  <1>5. Kept!Edit
    BY <1>4, PlainTexts DEF Kept!Edit, Kept!Remembered, LastThree
  <1> QED BY <1>1, <1>2, <1>3, <1>5

LEMMA PlainStays ==
    ASSUME EditorConstants, Plain!TypeOK, [Plain!Next]_Plain!vars
    PROVE  /\ Plain!TypeOK'
           /\ [(Kept!Edit /\ Plain!Visible(string)' \in Seq(Char)) \/ Kept!Undo \/ Kept!Reset]_
                  <<Plain!Visible(string), Plain!History>>
  <1>0. STRING_LIMIT \in Nat
    BY DEF EditorConstants
  <1>1. /\ \A i \in 1 .. 3 : prev[i] \in [Plain!Cell -> Char \cup {NUL}]
        /\ string \in [Plain!Cell -> Char \cup {NUL}]
        /\ len \in 0 .. STRING_LIMIT - 1 /\ num_undos \in 0 .. 3
    BY PlainTyped
  <1>2. ASSUME string' \in [Plain!Cell -> Char \cup {NUL}], len' \in 0 .. STRING_LIMIT - 1,
               prev' \in Seq(Plain!Buffer), Len(prev') = 3, num_undos' \in 0 .. 3
        PROVE  Plain!TypeOK' /\ Plain!Visible(string)' \in Seq(Char)
    BY <1>2, ShownIsText, PlainTexts DEF Plain!TypeOK, Plain!UNDO_LIMIT, Plain!Buffer
  <1>3. CASE \E idx \in Plain!Cell : Plain!Delete(idx)
    <2>1. PICK idx \in Plain!Cell : Plain!Delete(idx)
      BY <1>3
    <2>2. /\ idx < len /\ len' = len - 1 /\ idx \in Nat
          /\ string' = [k \in Plain!Cell |-> IF idx <= k /\ k < len THEN string[k + 1] ELSE string[k]]
      BY <1>0, <2>1 DEF Plain!Delete, Plain!Cell
    <2>3. len' \in 0 .. STRING_LIMIT - 1
      BY <1>0, <1>1, <2>2
    <2>4. \A k \in Plain!Cell : k < len => k + 1 \in Plain!Cell
      BY <1>0, <1>1 DEF Plain!Cell
    <2>5. string' \in [Plain!Cell -> Char \cup {NUL}]
      BY <1>1, <2>2, <2>4
    <2>6. Plain!Remember
      BY <2>1 DEF Plain!Delete
    <2> QED BY <1>2, <2>3, <2>5, <2>6, PlainRemembers
  <1>4. CASE \E idx \in Plain!Cell, c \in Char : Plain!Insert(idx, c)
    <2>1. PICK idx \in Plain!Cell, c \in Char : Plain!Insert(idx, c)
      BY <1>4
    <2>2. /\ len < STRING_LIMIT - 1 /\ len' = len + 1 /\ idx \in Nat
          /\ string' = [k \in Plain!Cell |-> IF k = idx THEN c
                                             ELSE IF idx < k /\ k <= len + 1 THEN string[k - 1]
                                             ELSE string[k]]
      BY <1>0, <2>1 DEF Plain!Insert, Plain!Cell
    <2>3. len' \in 0 .. STRING_LIMIT - 1
      BY <1>0, <1>1, <2>2
    <2>4. \A k \in Plain!Cell : idx < k => k - 1 \in Plain!Cell
      BY <1>0, <2>2 DEF Plain!Cell
    <2>5. string' \in [Plain!Cell -> Char \cup {NUL}]
      BY <1>1, <2>2, <2>4
    <2>6. Plain!Remember
      BY <2>1 DEF Plain!Insert
    <2> QED BY <1>2, <2>3, <2>5, <2>6, PlainRemembers
  <1>5. CASE Plain!Undo
    <2>1. /\ num_undos \in 1 .. 3 /\ num_undos' = num_undos - 1 /\ len' = len
          /\ string' = Plain!Strncpy(prev[1])
          /\ prev' = <<Plain!Strncpy(prev[2]), Plain!Strncpy(prev[3]), prev[3]>>
      BY <1>1, <1>5 DEF Plain!Undo, Plain!Shifted
    <2>2. prev' \in Seq(Plain!Buffer) /\ Len(prev') = 3
      <3>1. /\ Plain!Strncpy(prev[2]) \in Plain!Buffer /\ prev[3] \in Plain!Buffer
            /\ Plain!Strncpy(prev[3]) \in Plain!Buffer
        BY <1>1, CopyFits DEF Plain!Buffer
      <3> QED BY <2>1, <3>1, ThreeBuffers
    <2>3. string' \in [Plain!Cell -> Char \cup {NUL}]
      BY <1>1, <2>1, CopyFits
    <2>4. Plain!TypeOK'
      BY <1>1, <1>2, <2>1, <2>2, <2>3
    <2>5. Plain!Visible(string') = Plain!Visible(prev[1])
      BY <2>1, CopyShows
    <2>6. Kept!Undo
      BY <2>1, <2>5, TextsAfterUndo, PlainTexts DEF Kept!Undo
    <2> QED BY <2>4, <2>6
  <1>6. CASE Plain!Reset
    <2>1. /\ string' \in [Plain!Cell -> Char \cup {NUL}] /\ Plain!Terminated(string')
          /\ prev' = <<Plain!Empty, Plain!Empty, Plain!Empty>>
          /\ len' = Plain!Strlen(string') /\ num_undos' = 0
      BY <1>6 DEF Plain!Reset, Plain!Holds, Plain!Buffer
    <2>2. len' \in 0 .. STRING_LIMIT - 1
      BY <2>1, EndedIsShort
    <2>3. prev' \in Seq(Plain!Buffer) /\ Len(prev') = 3
      BY <2>1, ZerosFit, ThreeBuffers DEF Plain!Empty, Plain!Buffer
    <2>4. Plain!TypeOK' /\ Plain!Visible(string)' \in Seq(Char)
      BY <1>2, <2>1, <2>2, <2>3
    <2>5. Plain!History' = <<>>
      BY <2>1 DEF Plain!History
    <2> QED BY <2>4, <2>5 DEF Kept!Reset
  <1>7. CASE UNCHANGED Plain!vars
    BY <1>7 DEF Plain!vars, Plain!TypeOK, Plain!History, Plain!Visible, Plain!Strlen,
                Plain!Terminated
  <1> QED BY <1>3, <1>4, <1>5, <1>6, <1>7 DEF Plain!Next

-----------------------------------------------------------------------------
(* The editor of hw4.  One process at a time is between sem_wait and       *)
(* sem_post, dead or alive, and what it is about to do is what it was      *)
(* asked.                                                                  *)
SharedInv ==
    /\ Shared!TypeOK
    /\ \A p, q \in Process : pc[p] \in Shared!Holding /\ pc[q] \in Shared!Holding => p = q
    /\ \A p \in Process : pc[p] \in Shared!Holding => semaphore = 0
    /\ \A p \in Process :
          /\ pc[p] \in {"waiting", "locked", "saved"} => command[p] \in Shared!Command
          /\ pc[p] = "saved" => command[p].name # "undo" /\ ~Shared!Refused(command[p])
          /\ pc[p] = "restored" => num_undos > 0 /\ string = Plain!Strncpy(prev[1])

LEMMA SharedStrings ==
    /\ Shared!Cell = Plain!Cell /\ Shared!Buffer = [Plain!Cell -> SharedChar \cup {NUL}]
    /\ \A s : Shared!Strlen(s) = Plain!Strlen(s) /\ Shared!Visible(s) = Plain!Visible(s)
    /\ \A s : Shared!Strncpy(s) = Plain!Strncpy(s) /\ Shared!Filled(s) = Plain!Filled(s)
    /\ \A s : Shared!Terminated(s) <=> Plain!Terminated(s)
    /\ \A s : Shared!Asked!Last(s) = Kept!Last(s) /\ Shared!Asked!Front(s) = Kept!Front(s)
  <1>1. Shared!Cell = Plain!Cell /\ \A S : Shared!Min(S) = Plain!Min(S)
    BY DEF Shared!Cell, Plain!Cell, Shared!Min, Plain!Min
  <1>2. \A s : Shared!Terminated(s) <=> Plain!Terminated(s)
    BY <1>1 DEF Shared!Terminated, Plain!Terminated
  <1>3. \A s : Shared!Strlen(s) = Plain!Strlen(s)
    BY <1>1, <1>2 DEF Shared!Strlen, Plain!Strlen
  <1>4. \A s : Shared!Visible(s) = Plain!Visible(s) /\ Shared!Strncpy(s) = Plain!Strncpy(s)
    BY <1>1, <1>3 DEF Shared!Visible, Plain!Visible, Shared!Strncpy, Plain!Strncpy
  <1>5. \A s : Shared!Filled(s) = Plain!Filled(s)
    BY <1>1 DEF Shared!Filled, Plain!Filled
  <1>6. \A s : Shared!Asked!Last(s) = Kept!Last(s) /\ Shared!Asked!Front(s) = Kept!Front(s)
    BY DEF Shared!Asked!Last, Kept!Last, Shared!Asked!Front, Kept!Front
  <1> QED BY <1>1, <1>2, <1>3, <1>4, <1>5, <1>6 DEF Shared!Buffer

LEMMA SharedTyped ==
    ASSUME Shared!TypeOK
    PROVE  /\ prev = <<prev[1], prev[2], prev[3]>>
           /\ \A i \in 1 .. 3 : prev[i] \in [Plain!Cell -> SharedChar \cup {NUL}]
           /\ string \in [Plain!Cell -> SharedChar \cup {NUL}]
           /\ len \in 0 .. STRING_LIMIT - 1 /\ num_undos \in 0 .. 3
  <1>1. prev \in Seq(Shared!Buffer) /\ Len(prev) = 3
    BY DEF Shared!TypeOK, Shared!UNDO_LIMIT
  <1>2. prev = <<prev[1], prev[2], prev[3]>> /\ \A i \in 1 .. 3 : prev[i] \in Shared!Buffer
    BY <1>1
  <1>3. /\ string \in Shared!Buffer
        /\ len \in 0 .. STRING_LIMIT - 1 /\ num_undos \in 0 .. 3
    BY DEF Shared!TypeOK, Shared!UNDO_LIMIT
  <1> QED BY <1>2, <1>3, SharedStrings

LEMMA CommandIs ==
    ASSUME NEW c \in Shared!Command
    PROVE  /\ c.name \in {"insert", "delete", "undo"}
           /\ c.name # "undo" => c.idx \in 0 .. STRING_LIMIT - 1
           /\ c.name = "insert" => c.ch \in SharedChar
  BY DEF Shared!Command

(* What the two of Editing are, by where the one process is.               *)
WhereTextsAre ==
    /\ \A p \in Process :
          pc[p] = "saved" => /\ Shared!Text = Shared!Changed(command[p])
                             /\ Shared!History = Texts(prev, Shared!Counted)
    /\ \A p \in Process :
          pc[p] = "restored" =>
              /\ Shared!Text = string
              /\ Shared!History =
                     [i \in 1 .. num_undos - 1 |-> Plain!Visible(prev[num_undos + 1 - i])]
    /\ \A p \in Process :
          pc[p] \in {"locked", "changed"} =>
              Shared!Text = string /\ Shared!History = Texts(prev, num_undos)
    /\ (\A p \in Process : pc[p] \notin {"saved", "restored"})
          => Shared!Text = string /\ Shared!History = Texts(prev, num_undos)

LEMMA HalfWay == SharedInv => WhereTextsAre
  <1> SUFFICES ASSUME SharedInv PROVE WhereTextsAre
    OBVIOUS
  <1>0. /\ num_undos \in 0 .. 3 /\ Shared!Counted \in 0 .. 3
        /\ \A p, q \in Process :
              pc[p] \in {"locked", "saved", "restored", "changed"}
                /\ pc[q] \in {"locked", "saved", "restored", "changed"} => p = q
    BY DEF SharedInv, Shared!TypeOK, Shared!UNDO_LIMIT, Shared!Counted, Shared!Holding
  <1>1. ASSUME NEW p \in Process, pc[p] = "saved"
        PROVE  /\ Shared!Text = Shared!Changed(command[p])
               /\ Shared!History = Texts(prev, Shared!Counted)
    <2>1. Shared!Saved = {p} /\ Shared!Restored = {}
      BY <1>0, <1>1 DEF Shared!Saved, Shared!Restored
    <2>2. (CHOOSE q \in Shared!Saved : TRUE) = p
      BY <2>1
    <2>3. Shared!Text = Shared!Changed(command[p])
      BY <2>1, <2>2 DEF Shared!Text
    <2>4. Shared!History = [i \in 1 .. Shared!Counted |-> Shared!Visible(prev[Shared!Counted + 1 - i])]
      <3> DEFINE c == Shared!Counted
      <3>1. c - 0 = c
        BY <1>0
      <3> QED BY <2>1, <3>1 DEF Shared!History
    <2> QED BY <2>3, <2>4, SharedStrings DEF Texts
  <1>2. ASSUME NEW p \in Process, pc[p] = "restored"
        PROVE  /\ Shared!Text = string
               /\ Shared!History =
                      [i \in 1 .. num_undos - 1 |-> Plain!Visible(prev[num_undos + 1 - i])]
    <2>1. Shared!Saved = {} /\ Shared!Restored # {}
      BY <1>0, <1>2 DEF Shared!Saved, Shared!Restored
    <2> QED BY <2>1, SharedStrings DEF Shared!Text, Shared!History
  <1>3. ASSUME \A p \in Process : pc[p] \notin {"saved", "restored"}
        PROVE  Shared!Text = string /\ Shared!History = Texts(prev, num_undos)
    <2>1. Shared!Saved = {} /\ Shared!Restored = {} /\ num_undos - 0 = num_undos
      BY <1>0, <1>3 DEF Shared!Saved, Shared!Restored
    <2> QED BY <2>1, SharedStrings DEF Shared!Text, Shared!History, Texts
  <1>4. ASSUME NEW p \in Process, pc[p] \in {"locked", "changed"}
        PROVE  Shared!Text = string /\ Shared!History = Texts(prev, num_undos)
    BY <1>0, <1>3, <1>4
  <1> QED BY <1>1, <1>2, <1>3, <1>4 DEF WhereTextsAre

LEMMA HalfWayNext ==
    SharedInv' =>
      /\ \A p \in Process :
            pc'[p] = "saved" => /\ Shared!Text' = Shared!Changed(command[p])'
                                /\ Shared!History' = Texts(prev', Shared!Counted')
      /\ \A p \in Process :
            pc'[p] = "restored" =>
                /\ Shared!Text' = string'
                /\ Shared!History' =
                       [i \in 1 .. num_undos' - 1 |-> Plain!Visible(prev'[num_undos' + 1 - i])]
      /\ \A p \in Process :
            pc'[p] \in {"locked", "changed"} =>
                Shared!Text' = string' /\ Shared!History' = Texts(prev', num_undos')
      /\ (\A p \in Process : pc'[p] \notin {"saved", "restored"})
            => Shared!Text' = string' /\ Shared!History' = Texts(prev', num_undos')
  <1>1. SharedInv' => WhereTextsAre'
    BY HalfWay, PTL
  <1> QED BY <1>1 DEF WhereTextsAre, Texts, Plain!Visible, Plain!Strlen, Plain!Terminated

LEMMA SharedStart ==
    ASSUME EditorConstants, Shared!Init
    PROVE  SharedInv /\ Shared!Asked!EditingInit
  <1>1. string \in [Plain!Cell -> SharedChar \cup {NUL}] /\ Plain!Terminated(string)
    BY SharedStrings DEF Shared!Init
  <1>2. len \in 0 .. STRING_LIMIT - 1 /\ num_undos = 0
    BY <1>1, EndedIsShort, SharedStrings DEF Shared!Init
  <1>3. prev \in Seq(Shared!Buffer) /\ Len(prev) = 3
    BY ZerosFit, ThreeBuffers, SharedStrings DEF Shared!Init
  <1>4. \A p \in Process : pc[p] = "idle"
    BY DEF Shared!Init
  <1>5. Shared!TypeOK
    <2>1. string \in Shared!Buffer
      BY <1>1, SharedStrings
    <2> QED BY <1>2, <1>3, <2>1 DEF Shared!Init, Shared!TypeOK, Shared!UNDO_LIMIT
  <1>6. SharedInv
    BY <1>4, <1>5 DEF SharedInv, Shared!Holding
  <1>7. Shared!Text = string /\ Shared!History = Texts(prev, num_undos)
    BY <1>4, <1>6, HalfWay DEF WhereTextsAre
  <1>8. Shared!Visible(Shared!Text) \in Seq(SharedChar)
    BY <1>1, <1>7, ShownIsText, SharedStrings
  <1>9. Shared!History = <<>>
    BY <1>2, <1>7 DEF Texts
  <1> QED BY <1>6, <1>8, <1>9 DEF Shared!Asked!EditingInit

(* A step that leaves the string, its history and the commands half-way    *)
(* through alone.                                                          *)
LEMMA TextsAreKept ==
    ASSUME UNCHANGED <<string, prev, len, num_undos>>,
           \A p \in Process : pc'[p] = "saved" <=> pc[p] = "saved",
           \A p \in Process : pc'[p] = "restored" <=> pc[p] = "restored",
           \A p \in Process : pc[p] = "saved" => command'[p] = command[p]
    PROVE  UNCHANGED <<Shared!Visible(Shared!Text), Shared!History>>
  <1>1. Shared!Saved' = Shared!Saved /\ Shared!Restored' = Shared!Restored
    BY DEF Shared!Saved, Shared!Restored
  <1>2. Shared!History' = Shared!History
    BY <1>1 DEF Shared!History, Shared!Counted, Shared!Visible, Shared!Strlen, Shared!Terminated
  <1>3. Shared!Text' = Shared!Text
    <2>1. CASE Shared!Saved = {}
      BY <1>1, <2>1 DEF Shared!Text
    <2>2. CASE Shared!Saved # {}
      <3> DEFINE q == CHOOSE p \in Shared!Saved : TRUE
      <3>1. q \in Process /\ pc[q] = "saved"
        BY <2>2 DEF Shared!Saved
      <3>2. Shared!Text = Shared!Changed(command[q])
        BY <2>2 DEF Shared!Text
      <3>3. Shared!Text' = Shared!Changed(command'[q])
        BY <1>1, <2>2 DEF Shared!Text, Shared!Changed, Shared!Inserted, Shared!Deleted
      <3> QED BY <3>1, <3>2, <3>3
    <2> QED BY <2>1, <2>2
  <1> QED BY <1>2, <1>3 DEF Shared!Visible, Shared!Strlen, Shared!Terminated

(* Nobody else is between sem_wait and sem_post when one process moves     *)
(* there.                                                                  *)
LEMMA PlaceIs ==
    ASSUME Shared!TypeOK, NEW p \in Process, NEW l, Shared!Goto(p, l)
    PROVE  pc'[p] = l /\ \A q \in Process \ {p} : pc'[q] = pc[q]
  BY DEF Shared!TypeOK, Shared!Goto

(* A process that holds the semaphore, and may have changed string, prev,  *)
(* len and num_undos, keeps the invariant if they have their types.        *)
LEMMA HolderMoves ==
    ASSUME SharedInv, NEW p \in Process, p \notin killed, pc[p] \in Shared!Holding,
           NEW l \in Shared!Holding, Shared!Goto(p, l),
           string' \in Shared!Buffer, prev' \in Seq(Shared!Buffer), Len(prev') = 3,
           len' \in 0 .. STRING_LIMIT - 1, num_undos' \in 0 .. 3,
           UNCHANGED <<semaphore, command, killed>>,
           l \in {"locked", "saved"} => command[p] \in Shared!Command,
           l = "saved" => command[p].name # "undo" /\ ~Shared!Refused(command[p])',
           l = "restored" => num_undos' > 0 /\ string' = Plain!Strncpy(prev'[1])
    PROVE  SharedInv'
  <1>1. pc'[p] = l /\ \A q \in Process \ {p} : pc'[q] = pc[q]
    BY PlaceIs DEF SharedInv
  <1>2. \A q \in Process \ {p} : pc[q] \notin Shared!Holding
    BY DEF SharedInv
  <1>3. Shared!TypeOK'
    <2>1. pc' \in [Process -> {"idle", "waiting", "gone"} \cup Shared!Holding]
      BY DEF SharedInv, Shared!TypeOK, Shared!Goto
    <2>2. \A q \in killed : q \in Process /\ pc[q] \in Shared!Holding \cup {"gone"} /\ q # p
      BY DEF SharedInv, Shared!TypeOK
    <2>3. killed' \subseteq {q \in Process : pc'[q] \in Shared!Holding \cup {"gone"}}
      BY <1>1, <2>2
    <2> QED BY <2>1, <2>3 DEF SharedInv, Shared!TypeOK, Shared!UNDO_LIMIT
  <1>4. /\ \A q, r \in Process : pc'[q] \in Shared!Holding /\ pc'[r] \in Shared!Holding => q = r
        /\ \A q \in Process : pc'[q] \in Shared!Holding => semaphore' = 0
    BY <1>1, <1>2 DEF SharedInv
  <1>5. ASSUME NEW q \in Process
        PROVE  /\ pc'[q] \in {"waiting", "locked", "saved"} => command'[q] \in Shared!Command
               /\ pc'[q] = "saved" => command'[q].name # "undo" /\ ~Shared!Refused(command[q])'
               /\ pc'[q] = "restored" => num_undos' > 0 /\ string' = Plain!Strncpy(prev'[1])
    <2>1. CASE q = p
      BY <1>1, <2>1 DEF Shared!Holding
    <2>2. CASE q # p
      BY <1>1, <1>2, <2>2 DEF Shared!Holding, SharedInv
    <2> QED BY <2>1, <2>2
  <1> QED BY <1>3, <1>4, <1>5 DEF SharedInv, Plain!Strncpy, Plain!Strlen, Plain!Terminated

(* A process that does not hold the semaphore, or gives it back.           *)
LEMMA OutsideMoves ==
    ASSUME SharedInv, NEW p \in Process, p \notin killed, pc[p] # "gone",
           NEW l \in {"idle", "waiting"}, Shared!Goto(p, l),
           UNCHANGED <<string, prev, len, num_undos, killed>>,
           command' \in [Process -> Shared!Command \cup {None}],
           \A q \in Process \ {p} : command'[q] = command[q],
           l = "waiting" => command'[p] \in Shared!Command,
           semaphore' \in {0, 1},
           semaphore' = semaphore \/ pc[p] \in Shared!Holding
    PROVE  SharedInv'
  <1>1. pc'[p] = l /\ l \notin Shared!Holding /\ \A q \in Process \ {p} : pc'[q] = pc[q]
    BY PlaceIs DEF SharedInv, Shared!Holding
  <1>2. Shared!TypeOK'
    <2>1. pc' \in [Process -> {"idle", "waiting", "gone"} \cup Shared!Holding]
      BY DEF SharedInv, Shared!TypeOK, Shared!Goto
    <2>2. \A q \in killed : q \in Process /\ pc[q] \in Shared!Holding \cup {"gone"} /\ q # p
      BY DEF SharedInv, Shared!TypeOK
    <2>3. killed' \subseteq {q \in Process : pc'[q] \in Shared!Holding \cup {"gone"}}
      BY <1>1, <2>2
    <2> QED BY <2>1, <2>3 DEF SharedInv, Shared!TypeOK
  <1>3. \A q, r \in Process : pc'[q] \in Shared!Holding /\ pc'[r] \in Shared!Holding => q = r
    BY <1>1 DEF SharedInv
  <1>4. ASSUME NEW q \in Process, pc'[q] \in Shared!Holding
        PROVE  semaphore' = 0
    <2>1. q # p /\ pc[q] \in Shared!Holding
      BY <1>1, <1>4
    <2>2. pc[p] \notin Shared!Holding
      BY <2>1 DEF SharedInv
    <2> QED BY <2>1, <2>2 DEF SharedInv
  <1>5. ASSUME NEW q \in Process
        PROVE  /\ pc'[q] \in {"waiting", "locked", "saved"} => command'[q] \in Shared!Command
               /\ pc'[q] = "saved" => command'[q].name # "undo" /\ ~Shared!Refused(command[q])'
               /\ pc'[q] = "restored" => num_undos' > 0 /\ string' = Plain!Strncpy(prev'[1])
    <2>1. CASE q = p
      BY <1>1, <2>1
    <2>2. CASE q # p
      <3>1. pc'[q] = pc[q] /\ command'[q] = command[q]
        BY <1>1, <2>2
      <3>2. /\ pc[q] \in {"waiting", "locked", "saved"} => command[q] \in Shared!Command
            /\ pc[q] = "saved" => command[q].name # "undo" /\ ~Shared!Refused(command[q])
            /\ pc[q] = "restored" => num_undos > 0 /\ string = Plain!Strncpy(prev[1])
        BY DEF SharedInv
      <3>3. Shared!Refused(command[q])' <=> Shared!Refused(command[q])
        BY <3>1 DEF Shared!Refused
      <3> QED BY <3>1, <3>2, <3>3
    <2> QED BY <2>1, <2>2
  <1> QED BY <1>2, <1>3, <1>4, <1>5 DEF SharedInv, Plain!Strncpy, Plain!Strlen, Plain!Terminated

(* What the step of an editor must be for Editing.                         *)
SharedStep ==
    [\/ Shared!Asked!Edit /\ Shared!Visible(Shared!Text)' \in Seq(SharedChar)
     \/ Shared!Asked!Undo
     \/ Shared!Asked!Reset]_<<Shared!Visible(Shared!Text), Shared!History>>

LEMMA ShownNext ==
    /\ Shared!Visible(Shared!Text)' = Plain!Visible(Shared!Text')
    /\ Shared!Visible(Shared!Text) = Plain!Visible(Shared!Text)
  BY SharedStrings DEF Shared!Visible, Plain!Visible, Shared!Strlen, Plain!Strlen,
         Shared!Terminated, Plain!Terminated, Shared!Cell, Plain!Cell, Shared!Min, Plain!Min

LEMMA StartKeepsSharedInv ==
    ASSUME SharedInv, NEW p \in Process, Shared!Start(p)
    PROVE  SharedInv' /\ SharedStep
  <1>1. /\ pc[p] = "idle" /\ Shared!Goto(p, "waiting")
        /\ UNCHANGED <<string, prev, len, num_undos, semaphore, killed>>
    BY DEF Shared!Start, Shared!edited
  <1>2. PICK c \in Shared!Command : command' = [command EXCEPT ![p] = c]
    BY DEF Shared!Start
  <1>3. command \in [Process -> Shared!Command \cup {None}]
    BY DEF SharedInv, Shared!TypeOK
  <1>4. /\ command' \in [Process -> Shared!Command \cup {None}] /\ command'[p] \in Shared!Command
        /\ \A q \in Process \ {p} : command'[q] = command[q]
    BY <1>2, <1>3
  <1>5. p \notin killed
    BY <1>1 DEF SharedInv, Shared!TypeOK, Shared!Holding
  <1>6. SharedInv'
    <2>1. semaphore' \in {0, 1}
      BY <1>1 DEF SharedInv, Shared!TypeOK
    <2> QED BY <1>1, <1>4, <1>5, <2>1, OutsideMoves
  <1>7. pc'[p] = "waiting" /\ \A q \in Process \ {p} : pc'[q] = pc[q]
    BY <1>1, PlaceIs DEF SharedInv
  <1>8. UNCHANGED <<Shared!Visible(Shared!Text), Shared!History>>
    BY <1>1, <1>4, <1>7, TextsAreKept
  <1> QED BY <1>6, <1>8 DEF SharedStep

(* A process leaves without having changed anything more.                  *)
LEMMA LeavingKeepsSharedInv ==
    ASSUME SharedInv, NEW p \in Process, p \notin killed,
           pc[p] \in {"waiting", "locked", "changed"},
           Shared!Exit(p), UNCHANGED <<string, prev, len, num_undos, killed>>,
           semaphore' = IF pc[p] = "waiting" THEN semaphore ELSE semaphore + 1
    PROVE  SharedInv' /\ SharedStep
  <1>1. Shared!Goto(p, "idle") /\ command' = [command EXCEPT ![p] = None]
    BY DEF Shared!Exit
  <1>2. command \in [Process -> Shared!Command \cup {None}]
    BY DEF SharedInv, Shared!TypeOK
  <1>3. /\ command' \in [Process -> Shared!Command \cup {None}]
        /\ \A q \in Process \ {p} : command'[q] = command[q]
    BY <1>1, <1>2
  <1>4. /\ semaphore' \in {0, 1}
        /\ semaphore' = semaphore \/ pc[p] \in Shared!Holding
    BY DEF SharedInv, Shared!TypeOK, Shared!Holding
  <1>5. SharedInv'
    BY <1>1, <1>3, <1>4, OutsideMoves
  <1>6. pc'[p] = "idle" /\ \A q \in Process \ {p} : pc'[q] = pc[q]
    BY <1>1, PlaceIs DEF SharedInv
  <1>7. UNCHANGED <<Shared!Visible(Shared!Text), Shared!History>>
    BY <1>3, <1>6, TextsAreKept
  <1> QED BY <1>5, <1>7 DEF SharedStep

LEMMA EnterKeepsSharedInv ==
    ASSUME SharedInv, NEW p \in Process, Shared!Enter(p)
    PROVE  SharedInv' /\ SharedStep
  <1>1. /\ pc[p] = "waiting" /\ semaphore > 0 /\ semaphore' = semaphore - 1
        /\ Shared!Goto(p, "locked")
        /\ UNCHANGED <<string, prev, len, num_undos, command, killed>>
    BY DEF Shared!Enter, Shared!edited
  <1>2. pc'[p] = "locked" /\ \A q \in Process \ {p} : pc'[q] = pc[q]
    BY <1>1, PlaceIs DEF SharedInv
  <1>3. semaphore = 1 /\ semaphore' = 0 /\ \A q \in Process : pc[q] \notin Shared!Holding
    BY <1>1 DEF SharedInv, Shared!TypeOK
  <1>4. Shared!TypeOK'
    <2>1. pc' \in [Process -> {"idle", "waiting", "gone"} \cup Shared!Holding]
      BY <1>1 DEF SharedInv, Shared!TypeOK, Shared!Goto, Shared!Holding
    <2>2. \A q \in killed : q \in Process /\ pc[q] \in Shared!Holding \cup {"gone"} /\ q # p
      BY <1>1 DEF SharedInv, Shared!TypeOK, Shared!Holding
    <2>3. killed' \subseteq {q \in Process : pc'[q] \in Shared!Holding \cup {"gone"}}
      BY <1>1, <1>2, <2>2
    <2> QED BY <1>1, <1>3, <2>1, <2>3 DEF SharedInv, Shared!TypeOK
  <1>5. ASSUME NEW q \in Process
        PROVE  /\ pc'[q] \in Shared!Holding => q = p
               /\ pc'[q] \in {"waiting", "locked", "saved"} => command'[q] \in Shared!Command
               /\ pc'[q] \notin {"saved", "restored"}
    <2>1. command'[q] = command[q]
          /\ (pc[q] = "waiting" => command[q] \in Shared!Command)
      BY <1>1 DEF SharedInv
    <2> QED BY <1>1, <1>2, <1>3, <2>1 DEF Shared!Holding
  <1>6. SharedInv'
    BY <1>3, <1>4, <1>5 DEF SharedInv
  <1>7. UNCHANGED <<Shared!Visible(Shared!Text), Shared!History>>
    <2>1. \A q \in Process : pc[q] \notin {"saved", "restored"}
      BY <1>3 DEF Shared!Holding
    <2> QED BY <1>1, <1>5, <2>1, TextsAreKept
  <1> QED BY <1>6, <1>7 DEF SharedStep

LEMMA KillKeepsSharedInv ==
    ASSUME SharedInv, NEW p \in Process, Shared!KillHolder(p)
    PROVE  SharedInv' /\ SharedStep
  <1>1. /\ pc[p] \in Shared!Holding /\ killed' = killed \cup {p}
        /\ UNCHANGED <<string, prev, len, num_undos, semaphore, pc, command>>
    BY DEF Shared!KillHolder, Shared!edited
  <1>2. Shared!TypeOK'
    BY <1>1 DEF SharedInv, Shared!TypeOK
  <1>3. \A q \in Process : Shared!Refused(command[q])' <=> Shared!Refused(command[q])
    BY <1>1 DEF Shared!Refused
  <1>4. SharedInv'
    BY <1>1, <1>2, <1>3 DEF SharedInv, Plain!Strncpy, Plain!Strlen, Plain!Terminated
  <1>5. UNCHANGED <<Shared!Visible(Shared!Text), Shared!History>>
    BY <1>1, TextsAreKept
  <1> QED BY <1>4, <1>5 DEF SharedStep

(* insert and delete keep the array an array.                              *)
LEMMA ChangedFits ==
    ASSUME EditorConstants, Shared!TypeOK, NEW c \in Shared!Command, c.name # "undo",
           ~Shared!Refused(c)
    PROVE  /\ Shared!Changed(c) \in Shared!Buffer
           /\ (IF c.name = "insert" THEN len + 1 ELSE len - 1) \in 0 .. STRING_LIMIT - 1
  <1>0. /\ STRING_LIMIT \in Nat /\ len \in 0 .. STRING_LIMIT - 1
        /\ string \in [Plain!Cell -> SharedChar \cup {NUL}]
    BY SharedTyped DEF EditorConstants
  <1>1. /\ c.name \in {"insert", "delete"} /\ c.idx \in 0 .. STRING_LIMIT - 1
        /\ c.name = "insert" => c.ch \in SharedChar
    BY CommandIs
  <1>2. CASE c.name = "insert"
    <2>1. len < STRING_LIMIT - 1
      BY <1>0, <1>2 DEF Shared!Refused
    <2>2. \A k \in Plain!Cell : c.idx < k => k - 1 \in Plain!Cell
      BY <1>0, <1>1 DEF Plain!Cell
    <2>3. Shared!Inserted(c.idx, c.ch) \in [Plain!Cell -> SharedChar \cup {NUL}]
      BY <1>0, <1>1, <1>2, <2>2, SharedStrings DEF Shared!Inserted
    <2> QED BY <1>0, <1>2, <2>1, <2>3, SharedStrings DEF Shared!Changed
  <1>3. CASE c.name = "delete"
    <2>1. c.idx < len
      BY <1>0, <1>1, <1>3 DEF Shared!Refused
    <2>2. \A k \in Plain!Cell : k < len => k + 1 \in Plain!Cell
      BY <1>0 DEF Plain!Cell
    <2>3. Shared!Deleted(c.idx) \in [Plain!Cell -> SharedChar \cup {NUL}]
      BY <1>0, <2>2, SharedStrings DEF Shared!Deleted
    <2> QED BY <1>0, <1>1, <1>3, <2>1, <2>3, SharedStrings DEF Shared!Changed
  <1> QED BY <1>1, <1>2, <1>3

LEMMA CopyIsShared ==
    ASSUME NEW s \in [Plain!Cell -> SharedChar \cup {NUL}]
    PROVE  s \in Shared!Buffer /\ Plain!Strncpy(s) \in Shared!Buffer
  <1>1. Plain!Strncpy(s) \in [Plain!Cell -> SharedChar \cup {NUL}]
    BY CopyFits
  <1> QED BY <1>1, SharedStrings

LEMMA SaveKeepsSharedInv ==
    ASSUME EditorConstants, SharedInv, NEW p \in Process, p \notin killed, Shared!Save(p)
    PROVE  SharedInv' /\ SharedStep
  <1>1. /\ pc[p] = "locked" /\ ~Shared!Refused(command[p]) /\ command[p].name # "undo"
        /\ prev' = <<Plain!Strncpy(string), Plain!Strncpy(prev[1]), Plain!Strncpy(prev[2])>>
        /\ Shared!Goto(p, "saved")
        /\ UNCHANGED <<string, len, num_undos, semaphore, command, killed>>
    BY SharedStrings DEF Shared!Save
  <1>2. /\ \A i \in 1 .. 3 : prev[i] \in [Plain!Cell -> SharedChar \cup {NUL}]
        /\ string \in [Plain!Cell -> SharedChar \cup {NUL}]
        /\ len \in 0 .. STRING_LIMIT - 1 /\ num_undos \in 0 .. 3
    BY SharedTyped DEF SharedInv
  <1>3. prev' \in Seq(Shared!Buffer) /\ Len(prev') = 3
    <2>1. /\ Plain!Strncpy(string) \in Shared!Buffer
          /\ Plain!Strncpy(prev[1]) \in Shared!Buffer
          /\ Plain!Strncpy(prev[2]) \in Shared!Buffer
      BY <1>2, CopyIsShared
    <2> QED BY <1>1, <2>1, ThreeBuffers
  <1>4. command[p] \in Shared!Command /\ pc[p] \in Shared!Holding /\ "saved" \in Shared!Holding
    BY <1>1 DEF SharedInv, Shared!Holding
  <1>5. ~Shared!Refused(command[p])'
    BY <1>1 DEF Shared!Refused
  <1>6. string' \in Shared!Buffer
    BY <1>1 DEF SharedInv, Shared!TypeOK
  <1>7. SharedInv'
    BY <1>1, <1>2, <1>3, <1>4, <1>5, <1>6, HolderMoves
  <1>8. pc'[p] = "saved"
    BY <1>1, PlaceIs DEF SharedInv
  <1>9. /\ Shared!Text = string /\ Shared!History = Texts(prev, num_undos)
        /\ Shared!Text' = Shared!Changed(command[p])'
        /\ Shared!History' = Texts(prev', Shared!Counted')
    BY <1>1, <1>7, <1>8, HalfWay, HalfWayNext DEF WhereTextsAre
  <1>10. Shared!Changed(command[p])' = Shared!Changed(command[p])
    BY <1>1 DEF Shared!Changed, Shared!Inserted, Shared!Deleted
  <1>11. Plain!Visible(Shared!Text') \in Seq(SharedChar)
    <2>1. Shared!Changed(command[p]) \in Shared!Buffer
      BY <1>1, <1>4, ChangedFits DEF SharedInv
    <2>2. Shared!Text' \in [Plain!Cell -> SharedChar \cup {NUL}]
      BY <1>9, <1>10, <2>1, SharedStrings
    <2> QED BY <2>2, ShownIsText
  <1>12. Shared!Asked!Edit
    <2>1. Shared!Counted' = IF num_undos < 3 THEN num_undos + 1 ELSE num_undos
      BY <1>1 DEF Shared!Counted, Shared!UNDO_LIMIT
    <2>2. Texts(prev', Shared!Counted')
              = LastThree(Append(Texts(prev, num_undos), Plain!Visible(string)))
      BY <1>1, <1>2, <2>1, TextsAfterEdit
    <2> QED BY <1>9, <2>2, ShownNext
            DEF Shared!Asked!Edit, Shared!Asked!Remembered, LastThree, Shared!UNDO_LIMIT
  <1> QED BY <1>7, <1>11, <1>12, ShownNext DEF SharedStep

LEMMA ChangeKeepsSharedInv ==
    ASSUME EditorConstants, SharedInv, NEW p \in Process, p \notin killed, Shared!Change(p)
    PROVE  SharedInv' /\ SharedStep
  <1>1. /\ pc[p] = "saved"
        /\ string' = Shared!Changed(command[p])
        /\ len' = IF command[p].name = "insert" THEN len + 1 ELSE len - 1
        /\ num_undos' = Shared!Counted
        /\ Shared!Goto(p, "changed")
        /\ UNCHANGED <<prev, semaphore, command, killed>>
    BY DEF Shared!Change
  <1>2. /\ command[p] \in Shared!Command /\ command[p].name # "undo" /\ ~Shared!Refused(command[p])
        /\ pc[p] \in Shared!Holding /\ "changed" \in Shared!Holding
    BY <1>1 DEF SharedInv, Shared!Holding
  <1>3. string' \in Shared!Buffer /\ len' \in 0 .. STRING_LIMIT - 1
    BY <1>1, <1>2, ChangedFits DEF SharedInv
  <1>4. num_undos' \in 0 .. 3
    BY <1>1, SharedTyped DEF SharedInv, Shared!Counted, Shared!UNDO_LIMIT
  <1>5. prev' \in Seq(Shared!Buffer) /\ Len(prev') = 3
    BY <1>1 DEF SharedInv, Shared!TypeOK, Shared!UNDO_LIMIT
  <1>6. SharedInv'
    BY <1>1, <1>2, <1>3, <1>4, <1>5, HolderMoves
  <1>7. pc'[p] = "changed"
    BY <1>1, PlaceIs DEF SharedInv
  <1>8. /\ Shared!Text' = Shared!Text /\ Shared!History' = Shared!History
    BY <1>1, <1>6, <1>7, HalfWay, HalfWayNext DEF WhereTextsAre
  <1> QED BY <1>6, <1>8, ShownNext DEF SharedStep

LEMMA RestoreKeepsSharedInv ==
    ASSUME EditorConstants, SharedInv, NEW p \in Process, p \notin killed, Shared!Restore(p)
    PROVE  SharedInv' /\ SharedStep
  <1>1. /\ pc[p] = "locked" /\ ~Shared!Refused(command[p]) /\ command[p].name = "undo"
        /\ string' = Plain!Strncpy(prev[1])
        /\ Shared!Goto(p, "restored")
        /\ UNCHANGED <<prev, len, num_undos, semaphore, command, killed>>
    BY SharedStrings DEF Shared!Restore
  <1>2. /\ \A i \in 1 .. 3 : prev[i] \in [Plain!Cell -> SharedChar \cup {NUL}]
        /\ len \in 0 .. STRING_LIMIT - 1 /\ num_undos \in 0 .. 3
    BY SharedTyped DEF SharedInv
  <1>3. num_undos \in 1 .. 3
    BY <1>1, <1>2 DEF Shared!Refused
  <1>4. string' \in Shared!Buffer
    BY <1>1, <1>2, CopyIsShared
  <1>5. /\ prev' \in Seq(Shared!Buffer) /\ Len(prev') = 3
        /\ pc[p] \in Shared!Holding /\ "restored" \in Shared!Holding
    BY <1>1 DEF SharedInv, Shared!TypeOK, Shared!UNDO_LIMIT, Shared!Holding
  <1>6. SharedInv'
    BY <1>1, <1>2, <1>3, <1>4, <1>5, HolderMoves
  <1>7. pc'[p] = "restored"
    BY <1>1, PlaceIs DEF SharedInv
  <1>8. /\ Shared!History = Texts(prev, num_undos)
        /\ Shared!Text' = string'
        /\ Shared!History' = [i \in 1 .. num_undos - 1 |-> Plain!Visible(prev[num_undos + 1 - i])]
    BY <1>1, <1>6, <1>7, HalfWay, HalfWayNext DEF WhereTextsAre
  <1>9. /\ Texts(prev, num_undos) # <<>>
        /\ Kept!Last(Texts(prev, num_undos)) = Plain!Visible(prev[1])
        /\ Kept!Front(Texts(prev, num_undos))
               = [i \in 1 .. num_undos - 1 |-> Plain!Visible(prev[num_undos + 1 - i])]
    BY <1>3, TextsAfterUndo
  <1>10. Plain!Visible(string') = Plain!Visible(prev[1])
    BY <1>1, CopyShows
  <1>11. Shared!Asked!Undo
    BY <1>8, <1>9, <1>10, ShownNext, SharedStrings DEF Shared!Asked!Undo
  <1> QED BY <1>6, <1>11 DEF SharedStep

LEMMA ShiftKeepsSharedInv ==
    ASSUME EditorConstants, SharedInv, NEW p \in Process, p \notin killed, Shared!Shift(p)
    PROVE  SharedInv' /\ SharedStep
  <1>1. /\ pc[p] = "restored"
        /\ prev' = <<Plain!Strncpy(prev[2]), Plain!Strncpy(prev[3]), prev[3]>>
        /\ num_undos' = num_undos - 1
        /\ Shared!Goto(p, "changed")
        /\ UNCHANGED <<string, len, semaphore, command, killed>>
    BY SharedStrings DEF Shared!Shift, Shared!Shifted
  <1>2. /\ \A i \in 1 .. 3 : prev[i] \in [Plain!Cell -> SharedChar \cup {NUL}]
        /\ len \in 0 .. STRING_LIMIT - 1 /\ num_undos \in 1 .. 3
    BY <1>1, SharedTyped DEF SharedInv
  <1>3. prev' \in Seq(Shared!Buffer) /\ Len(prev') = 3
    <2>1. /\ Plain!Strncpy(prev[2]) \in Shared!Buffer /\ prev[3] \in Shared!Buffer
          /\ Plain!Strncpy(prev[3]) \in Shared!Buffer
      BY <1>2, CopyIsShared
    <2> QED BY <1>1, <2>1, ThreeBuffers
  <1>4. /\ string' \in Shared!Buffer /\ num_undos' \in 0 .. 3
        /\ pc[p] \in Shared!Holding /\ "changed" \in Shared!Holding
    BY <1>1, <1>2 DEF SharedInv, Shared!TypeOK, Shared!Holding
  <1>5. SharedInv'
    BY <1>1, <1>2, <1>3, <1>4, HolderMoves
  <1>6. pc'[p] = "changed"
    BY <1>1, PlaceIs DEF SharedInv
  <1>7. /\ Shared!Text = string /\ Shared!Text' = string
        /\ Shared!History = [i \in 1 .. num_undos - 1 |-> Plain!Visible(prev[num_undos + 1 - i])]
        /\ Shared!History' = Texts(prev', num_undos - 1)
    BY <1>1, <1>5, <1>6, HalfWay, HalfWayNext DEF WhereTextsAre
  <1>8. Shared!History' = Shared!History
    <2>1. Texts(prev', num_undos - 1)
              = [i \in 1 .. num_undos - 1 |-> Plain!Visible(prev[num_undos + 1 - i])]
      <3>1. prev' = <<Plain!Strncpy(prev[2]), Plain!Strncpy(prev[3]), prev[3]>>
        BY <1>1, Zenon
      <3>2. num_undos \in 1 .. 3
        BY <1>2, Zenon
      <3> QED BY <3>1, <3>2, TextsAfterUndo
    <2> QED BY <1>7, <2>1, Zenon
  <1> QED BY <1>5, <1>7, <1>8, ShownNext DEF SharedStep

LEMMA ResetKeepsSharedInv ==
    ASSUME EditorConstants, SharedInv, Shared!Reset
    PROVE  SharedInv' /\ SharedStep
  <1>1. /\ \A p \in Process : pc[p] \in Shared!Holding => p \in killed
        /\ num_undos' = 0
        /\ pc' = [p \in Process |-> IF p \in killed THEN "gone" ELSE pc[p]]
        /\ UNCHANGED <<prev, semaphore, command, killed>>
    BY DEF Shared!Reset
  <1>2. /\ string' \in [Plain!Cell -> SharedChar \cup {NUL}] /\ Plain!Terminated(string')
        /\ len' = Plain!Strlen(string')
    BY SharedStrings DEF Shared!Reset
  <1>3. len' \in 0 .. STRING_LIMIT - 1
    BY <1>2, EndedIsShort
  <1>4. \A p \in Process : /\ pc'[p] \notin Shared!Holding
                           /\ pc'[p] = "waiting" => pc[p] = "waiting"
    BY <1>1 DEF Shared!Holding
  <1>5. Shared!TypeOK'
    <2>1. string' \in Shared!Buffer
      BY <1>2, SharedStrings
    <2>2. pc' \in [Process -> {"idle", "waiting", "gone"} \cup Shared!Holding]
      BY <1>1 DEF SharedInv, Shared!TypeOK
    <2>3. killed' \subseteq {p \in Process : pc'[p] \in Shared!Holding \cup {"gone"}}
      BY <1>1 DEF SharedInv, Shared!TypeOK
    <2> QED BY <1>1, <1>3, <2>1, <2>2, <2>3 DEF SharedInv, Shared!TypeOK, Shared!UNDO_LIMIT
  <1>6. SharedInv'
    <2>1. \A p \in Process : pc'[p] \notin {"locked", "saved", "restored"}
      BY <1>4 DEF Shared!Holding
    <2>2. \A p \in Process : pc[p] = "waiting" => command'[p] \in Shared!Command
      BY <1>1 DEF SharedInv
    <2> QED BY <1>4, <1>5, <2>1, <2>2 DEF SharedInv
  <1>7. Shared!Text' = string' /\ Shared!History' = <<>>
    <2>1. \A p \in Process : pc'[p] \notin {"saved", "restored"}
      BY <1>4 DEF Shared!Holding
    <2>2. Shared!Text' = string' /\ Shared!History' = Texts(prev', num_undos')
      BY <1>6, <2>1, HalfWayNext
    <2> QED BY <1>1, <2>2 DEF Texts
  <1>8. Plain!Visible(string') \in Seq(SharedChar)
    BY <1>2, ShownIsText
  <1> QED BY <1>6, <1>7, <1>8, ShownNext DEF SharedStep, Shared!Asked!Reset

LEMMA SharedStays ==
    ASSUME EditorConstants, SharedInv, [Shared!Next]_Shared!vars
    PROVE  SharedInv' /\ SharedStep
  <1>1. ASSUME NEW p \in Process, Shared!InCommand(p) PROVE SharedInv' /\ SharedStep
    <2>0. p \notin killed
      BY <1>1 DEF Shared!InCommand
    <2>1. CASE Shared!Refuse(p) \/ Shared!Post(p)
      <3>1. /\ pc[p] \in {"locked", "changed"} /\ semaphore' = semaphore + 1
            /\ Shared!Exit(p) /\ UNCHANGED <<string, prev, len, num_undos, killed>>
        BY <2>1 DEF Shared!Refuse, Shared!Post, Shared!edited
      <3> QED BY <2>0, <3>1, LeavingKeepsSharedInv
    <2> QED BY <1>1, <2>0, <2>1, SaveKeepsSharedInv, ChangeKeepsSharedInv,
               RestoreKeepsSharedInv, ShiftKeepsSharedInv DEF Shared!InCommand
  <1>2. ASSUME NEW p \in Process, Shared!KillWaiting(p) PROVE SharedInv' /\ SharedStep
    <2>1. /\ pc[p] = "waiting" /\ semaphore' = semaphore
          /\ Shared!Exit(p) /\ UNCHANGED <<string, prev, len, num_undos, killed>>
      BY <1>2 DEF Shared!KillWaiting, Shared!edited
    <2>2. p \notin killed
      BY <2>1 DEF SharedInv, Shared!TypeOK, Shared!Holding
    <2> QED BY <2>1, <2>2, LeavingKeepsSharedInv
  <1>3. CASE UNCHANGED Shared!vars
    <2>1. UNCHANGED <<string, prev, len, num_undos, semaphore, pc, command, killed>>
      BY <1>3 DEF Shared!vars, Shared!edited
    <2>2. \A q \in Process : Shared!Refused(command[q])' <=> Shared!Refused(command[q])
      BY <2>1 DEF Shared!Refused
    <2>3. SharedInv'
      BY <2>1, <2>2
         DEF SharedInv, Shared!TypeOK, Plain!Strncpy, Plain!Strlen, Plain!Terminated
    <2>4. UNCHANGED <<Shared!Visible(Shared!Text), Shared!History>>
      BY <2>1, TextsAreKept
    <2> QED BY <2>3, <2>4 DEF SharedStep
  <1> QED BY <1>1, <1>2, <1>3, StartKeepsSharedInv, EnterKeepsSharedInv, KillKeepsSharedInv,
             ResetKeepsSharedInv DEF Shared!Next

-----------------------------------------------------------------------------
(* The editor of hw3 that undoes by records in a ring.                     *)
LEMMA ConcatFacts ==
    ASSUME NEW S, NEW s \in Seq(S), NEW t \in Seq(S)
    PROVE  /\ s \o t \in Seq(S) /\ Len(s \o t) = Len(s) + Len(t)
           /\ Len(s) \in Nat /\ Len(t) \in Nat
           /\ \A m \in 1 .. Len(s) : (s \o t)[m] = s[m]
           /\ \A m \in 1 .. Len(t) : (s \o t)[Len(s) + m] = t[m]
  OBVIOUS

LEMMA BetweenFacts ==
    ASSUME NEW S, NEW s \in Seq(S), NEW t \in Seq(S), NEW e \in S
    PROVE  /\ s \o <<e>> \o t \in Seq(S)
           /\ Len(s \o <<e>> \o t) = Len(s) + 1 + Len(t)
           /\ \A m \in 1 .. Len(s) : (s \o <<e>> \o t)[m] = s[m]
           /\ (s \o <<e>> \o t)[Len(s) + 1] = e
           /\ \A m \in 1 .. Len(t) : (s \o <<e>> \o t)[Len(s) + 1 + m] = t[m]
  <1> DEFINE one == <<e>>
             u == s \o one
  <1>1. one \in Seq(S)
    OBVIOUS
  <1>2. Len(one) = 1 /\ one[1] = e /\ 1 \in 1 .. 1
    OBVIOUS
  <1> HIDE DEF one
  <1>3. /\ u \in Seq(S) /\ Len(u) = Len(s) + Len(one)
        /\ \A m \in 1 .. Len(s) : u[m] = s[m]
        /\ \A m \in 1 .. Len(one) : u[Len(s) + m] = one[m]
    BY <1>1, ConcatFacts
  <1> HIDE DEF u
  <1>4. Len(u) = Len(s) + 1 /\ u[Len(s) + 1] = e
    BY <1>2, <1>3, Zenon
  <1>5. u \in Seq(S)
    BY <1>3
  <1>6. /\ u \o t \in Seq(S) /\ Len(u \o t) = Len(u) + Len(t)
        /\ \A m \in 1 .. Len(u) : (u \o t)[m] = u[m]
        /\ \A m \in 1 .. Len(t) : (u \o t)[Len(u) + m] = t[m]
    BY <1>5, ConcatFacts
  <1>7. Len(s) \in Nat
    OBVIOUS
  <1>8. /\ \A m \in 1 .. Len(s) : m \in 1 .. Len(s) + 1
        /\ Len(s) + 1 \in 1 .. Len(s) + 1
    BY <1>7
  <1>9. /\ \A m \in 1 .. Len(s) : (u \o t)[m] = s[m]
        /\ (u \o t)[Len(s) + 1] = e
    BY <1>3, <1>4, <1>6, <1>8, Zenon
  <1>10. /\ Len(u \o t) = Len(s) + 1 + Len(t)
         /\ \A m \in 1 .. Len(t) : (u \o t)[Len(s) + 1 + m] = t[m]
    BY <1>4, <1>6, Zenon
  <1> QED BY <1>6, <1>9, <1>10 DEF u, one

(* u is s with e between the first k elements and the others, and s without *)
(* the element behind them.                                                *)
Inserted(u, s, k, e) ==
    /\ Len(u) = Len(s) + 1
    /\ \A m \in 1 .. k : u[m] = s[m]
    /\ u[k + 1] = e
    /\ \A m \in k + 1 .. Len(s) : u[m + 1] = s[m]
Removed(u, s, k) ==
    /\ Len(u) = Len(s) - 1
    /\ \A m \in 1 .. k : u[m] = s[m]
    /\ \A m \in k + 1 .. Len(s) - 1 : u[m] = s[m + 1]

LEMMA InsertedFacts ==
    ASSUME NEW S, NEW s \in Seq(S), NEW e \in S, NEW k \in 0 .. Len(s)
    PROVE  /\ Ring!InsertAt(s, k + 1, e) \in Seq(S)
           /\ Inserted(Ring!InsertAt(s, k + 1, e), s, k, e)
  <1> DEFINE front == SubSeq(s, 1, k)
             rest == SubSeq(s, k + 1, Len(s))
             u == front \o <<e>> \o rest
  <1>1. Ring!InsertAt(s, k + 1, e) = u
    <2>1. (k + 1) - 1 = k
      OBVIOUS
    <2> QED BY <2>1, Zenon DEF Ring!InsertAt
  <1>2. front \in Seq(S) /\ Len(front) = k /\ \A m \in 1 .. k : front[m] = s[m]
    OBVIOUS
  <1>3. /\ rest \in Seq(S) /\ Len(rest) = Len(s) - k
        /\ \A m \in 1 .. Len(s) - k : rest[m] = s[k + m]
    OBVIOUS
  <1> HIDE DEF front, rest
  <1>4. /\ u \in Seq(S) /\ Len(u) = Len(front) + 1 + Len(rest)
        /\ \A m \in 1 .. Len(front) : u[m] = front[m]
        /\ u[Len(front) + 1] = e
        /\ \A m \in 1 .. Len(rest) : u[Len(front) + 1 + m] = rest[m]
    <2>1. front \in Seq(S) /\ rest \in Seq(S)
      BY <1>2, <1>3
    <2> QED BY <2>1, BetweenFacts
  <1> HIDE DEF u
  <1>5. /\ Len(u) = Len(s) + 1
        /\ \A m \in 1 .. k : u[m] = s[m]
        /\ u[k + 1] = e
    BY <1>2, <1>3, <1>4
  <1>6. ASSUME NEW m \in k + 1 .. Len(s) PROVE u[m + 1] = s[m]
    <2>1. m - k \in 1 .. Len(s) - k /\ (k + 1) + (m - k) = m + 1 /\ k + (m - k) = m
      OBVIOUS
    <2>2. u[(k + 1) + (m - k)] = rest[m - k] /\ rest[m - k] = s[k + (m - k)]
      BY <1>2, <1>3, <1>4, <2>1
    <2> QED BY <2>1, <2>2
  <1>7. Inserted(u, s, k, e)
    BY <1>5, <1>6 DEF Inserted
  <1> QED BY <1>1, <1>4, <1>7, Zenon

LEMMA RemovedFacts ==
    ASSUME NEW S, NEW s \in Seq(S), NEW k \in 0 .. Len(s) - 1
    PROVE  Ring!RemoveAt(s, k + 1) \in Seq(S) /\ Removed(Ring!RemoveAt(s, k + 1), s, k)
  <1> DEFINE front == SubSeq(s, 1, k)
             rest == SubSeq(s, k + 2, Len(s))
  <1>1. Ring!RemoveAt(s, k + 1) = front \o rest
    <2>1. (k + 1) - 1 = k /\ (k + 1) + 1 = k + 2
      OBVIOUS
    <2> QED BY <2>1, Zenon DEF Ring!RemoveAt
  <1>2. front \in Seq(S) /\ Len(front) = k /\ \A m \in 1 .. k : front[m] = s[m]
    OBVIOUS
  <1>3. /\ rest \in Seq(S) /\ Len(rest) = Len(s) - k - 1
        /\ \A m \in 1 .. Len(s) - k - 1 : rest[m] = s[k + 1 + m]
    OBVIOUS
  <1> HIDE DEF front, rest
  <1> DEFINE u == front \o rest
  <1>4. /\ u \in Seq(S) /\ Len(u) = Len(front) + Len(rest)
        /\ \A m \in 1 .. Len(front) : u[m] = front[m]
        /\ \A m \in 1 .. Len(rest) : u[Len(front) + m] = rest[m]
    BY <1>2, <1>3, ConcatFacts
  <1>5. Ring!RemoveAt(s, k + 1) = u
    BY <1>1
  <1> HIDE DEF u
  <1>6. Len(u) = Len(s) - 1 /\ \A m \in 1 .. k : u[m] = s[m]
    BY <1>2, <1>3, <1>4
  <1>7. ASSUME NEW m \in k + 1 .. Len(s) - 1 PROVE u[m] = s[m + 1]
    <2>1. m - k \in 1 .. Len(s) - k - 1 /\ k + (m - k) = m /\ k + 1 + (m - k) = m + 1
      OBVIOUS
    <2>2. Len(front) = k /\ m - k \in 1 .. Len(rest)
      BY <1>2, <1>3, <2>1
    <2>3. u[k + (m - k)] = rest[m - k]
      BY <1>4, <2>2, Zenon
    <2>4. rest[m - k] = s[k + 1 + (m - k)]
      BY <1>3, <2>1, Zenon
    <2> QED BY <2>1, <2>3, <2>4
  <1>8. Removed(u, s, k)
    BY <1>6, <1>7 DEF Removed
  <1> QED BY <1>4, <1>5, <1>8, Zenon

(* Taking out what was put in, and putting back what was taken out.        *)
LEMMA InsertIsUndone ==
    ASSUME NEW S, NEW s \in Seq(S), NEW e \in S, NEW k \in 0 .. Len(s)
    PROVE  Ring!RemoveAt(Ring!InsertAt(s, k + 1, e), k + 1) = s
  <1> DEFINE t == Ring!InsertAt(s, k + 1, e)
             u == Ring!RemoveAt(t, k + 1)
  <1>1. t \in Seq(S) /\ Inserted(t, s, k, e)
    BY InsertedFacts, Zenon
  <1> HIDE DEF t
  <1>2. k \in 0 .. Len(t) - 1
    BY <1>1 DEF Inserted
  <1>3. u \in Seq(S) /\ Removed(u, t, k)
    BY <1>1, <1>2, RemovedFacts, Zenon
  <1> HIDE DEF u
  <1>4. Len(u) = Len(s) /\ Len(s) \in Nat
    BY <1>1, <1>3 DEF Inserted, Removed
  <1>5. \A m \in 1 .. Len(u) : u[m] = s[m]
    BY <1>1, <1>3, <1>4 DEF Inserted, Removed
  <1>6. u = s
    BY <1>3, <1>4, <1>5, SameSequence
  <1> QED BY <1>6 DEF u, t

LEMMA DeleteIsUndone ==
    ASSUME NEW S, NEW s \in Seq(S), NEW k \in 0 .. Len(s) - 1, NEW e \in S
    PROVE  e = s[k + 1] => Ring!InsertAt(Ring!RemoveAt(s, k + 1), k + 1, e) = s
  <1> DEFINE t == Ring!RemoveAt(s, k + 1)
             u == Ring!InsertAt(t, k + 1, e)
  <1>1. t \in Seq(S) /\ Removed(t, s, k)
    BY RemovedFacts, Zenon
  <1> HIDE DEF t
  <1>2. k \in 0 .. Len(t)
    BY <1>1 DEF Removed
  <1>3. u \in Seq(S) /\ Inserted(u, t, k, e)
    BY <1>1, <1>2, InsertedFacts, Zenon
  <1> HIDE DEF u
  <1>4. Len(u) = Len(s) /\ Len(s) \in Nat /\ Len(t) = Len(s) - 1
    BY <1>1, <1>3 DEF Inserted, Removed
  <1>5. ASSUME e = s[k + 1], NEW m \in 1 .. Len(u) PROVE u[m] = s[m]
    <2>1. CASE m \in 1 .. k
      BY <1>1, <1>3, <2>1 DEF Inserted, Removed
    <2>2. CASE m = k + 1
      BY <1>3, <1>5, <2>2 DEF Inserted
    <2>3. CASE m > k + 1
      <3>1. m - 1 \in k + 1 .. Len(t) /\ (m - 1) + 1 = m /\ m - 1 \in k + 1 .. Len(s) - 1
        BY <1>4, <2>3
      <3>2. u[(m - 1) + 1] = t[m - 1] /\ t[m - 1] = s[(m - 1) + 1]
        BY <1>1, <1>3, <3>1 DEF Inserted, Removed
      <3> QED BY <3>1, <3>2
    <2> QED BY <1>4, <2>1, <2>2, <2>3
  <1>6. e = s[k + 1] => u = s
    BY <1>3, <1>4, <1>5, SameSequence
  <1> QED BY <1>6 DEF u, t

LEMMA TextIsSequence ==
    ASSUME EditorConstants
    PROVE  \A s : s \in Ring!Text <=> s \in Seq(Char) /\ Len(s) < STRING_LIMIT
  <1>1. ASSUME NEW s \in Ring!Text PROVE s \in Seq(Char) /\ Len(s) < STRING_LIMIT
    <2>1. PICK n \in 0 .. STRING_LIMIT - 1 : s \in [1 .. n -> Char]
      BY DEF Ring!Text
    <2>2. n \in Nat /\ n < STRING_LIMIT
      BY DEF EditorConstants
    <2> QED BY <2>1, <2>2
  <1>2. ASSUME NEW s \in Seq(Char), Len(s) < STRING_LIMIT PROVE s \in Ring!Text
    <2>1. Len(s) \in 0 .. STRING_LIMIT - 1 /\ s \in [1 .. Len(s) -> Char]
      BY <1>2 DEF EditorConstants
    <2> QED BY <2>1 DEF Ring!Text
  <1> QED BY <1>1, <1>2

(* A record holds the character when it is needed again, and what is       *)
(* restored is a text again.                                               *)
Keeps(r) == r \in Ring!Record /\ (r.type = "DELETE" => r.character \in Char)

LEMMA ReversedIsText ==
    ASSUME EditorConstants, NEW s \in Ring!Text, NEW r, Keeps(r), Ring!Reversible(s, r)
    PROVE  Ring!Reversed(s, r) \in Ring!Text
  <1>1. s \in Seq(Char) /\ Len(s) < STRING_LIMIT /\ Len(s) \in Nat /\ STRING_LIMIT \in Nat
    BY TextIsSequence DEF EditorConstants
  <1>2. r.index \in Nat /\ r.type \in {"INSERT", "DELETE"}
    BY <1>1 DEF Keeps, Ring!Record
  <1>3. CASE r.type = "INSERT" /\ r.index < Len(s)
    <2>1. Ring!Reversed(s, r) = Ring!RemoveAt(s, r.index + 1)
      BY <1>3 DEF Ring!Reversed
    <2>2. r.index \in 0 .. Len(s) - 1
      BY <1>1, <1>2, <1>3
    <2>3. /\ Ring!RemoveAt(s, r.index + 1) \in Seq(Char)
          /\ Len(Ring!RemoveAt(s, r.index + 1)) = Len(s) - 1
      BY <1>1, <2>2, RemovedFacts DEF Removed
    <2> QED BY <1>1, <2>1, <2>3, TextIsSequence
  <1>4. CASE r.type = "DELETE" /\ r.index <= Len(s)
    <2>1. Ring!Reversed(s, r) = Ring!InsertAt(s, r.index + 1, r.character)
      BY <1>4 DEF Ring!Reversed
    <2>2. r.index \in 0 .. Len(s) /\ Len(s) < STRING_LIMIT - 1 /\ r.character \in Char
      BY <1>1, <1>2, <1>4 DEF Ring!Reversible, Keeps
    <2>3. /\ Ring!InsertAt(s, r.index + 1, r.character) \in Seq(Char)
          /\ Len(Ring!InsertAt(s, r.index + 1, r.character)) = Len(s) + 1
      BY <1>1, <2>2, InsertedFacts DEF Inserted
    <2> QED BY <1>1, <2>1, <2>2, <2>3, TextIsSequence
  <1>5. CASE ~(r.type = "INSERT" /\ r.index < Len(s)) /\ ~(r.type = "DELETE" /\ r.index <= Len(s))
    BY <1>5 DEF Ring!Reversed
  <1> QED BY <1>3, <1>4, <1>5

(* Until an edit found the history full, each record takes the text after  *)
(* its edit back to the one before.                                        *)
TextAfter(k) == IF k = undo_count THEN string ELSE before[k + 1]

GoesBack(k) == /\ Ring!Reversible(TextAfter(k), history[k - 1])
               /\ Ring!Reversed(TextAfter(k), history[k - 1]) = before[k]

RingInv ==
    /\ Ring!TypeOK
    /\ \A m \in 0 .. 2 : Keeps(history[m])
    /\ ~wrapped => defined /\ \A k \in 1 .. undo_count : GoesBack(k)

LEMMA RingFacts ==
    ASSUME EditorConstants, RingInv
    PROVE  /\ string \in Ring!Text /\ string \in Seq(Char) /\ Len(string) \in Nat
           /\ Len(string) < STRING_LIMIT /\ STRING_LIMIT \in Nat
           /\ undo_count \in 0 .. 3 /\ before \in Seq(Ring!Text) /\ Len(before) = undo_count
           /\ history \in [0 .. 2 -> Ring!Record] /\ wrapped \in BOOLEAN /\ defined \in BOOLEAN
  <1>1. Ring!UNDO_LIMIT = 3 /\ Ring!Slot = 0 .. 2
    BY DEF Ring!UNDO_LIMIT, Ring!Slot
  <1>2. string \in Ring!Text /\ undo_count \in 0 .. 3 /\ before \in Seq(Ring!Text)
        /\ Len(before) = undo_count /\ wrapped \in BOOLEAN /\ defined \in BOOLEAN
        /\ history \in [0 .. 2 -> Ring!Record]
    BY <1>1 DEF RingInv, Ring!TypeOK
  <1> QED BY <1>2, TextIsSequence DEF EditorConstants

LEMMA RingTypeOK ==
    ASSUME string \in Ring!Text, undo_count \in 0 .. 3, before \in Seq(Ring!Text),
           Len(before) = undo_count, wrapped \in BOOLEAN, defined \in BOOLEAN,
           history \in [0 .. 2 -> Ring!Record]
    PROVE  Ring!TypeOK
  <1>1. Ring!UNDO_LIMIT = 3 /\ Ring!Slot = 0 .. 2
    BY DEF Ring!UNDO_LIMIT, Ring!Slot
  <1> QED BY <1>1 DEF Ring!TypeOK

LEMMA RingTypeOKNext ==
    (string \in Ring!Text /\ undo_count \in 0 .. 3 /\ before \in Seq(Ring!Text)
        /\ Len(before) = undo_count /\ wrapped \in BOOLEAN /\ defined \in BOOLEAN
        /\ history \in [0 .. 2 -> Ring!Record] => Ring!TypeOK)'
  BY RingTypeOK, PTL

LEMMA RingStart == EditorConstants /\ Ring!Init => RingInv
  <1> SUFFICES ASSUME EditorConstants, Ring!Init PROVE RingInv
    OBVIOUS
  <1>1. /\ string \in Ring!Text /\ undo_count = 0 /\ defined = TRUE /\ before = <<>>
        /\ wrapped = FALSE
        /\ history = [m \in 0 .. 2 |-> [type |-> "INSERT", index |-> 0, character |-> NUL]]
    BY DEF Ring!Init, Ring!Slot, Ring!UNDO_LIMIT
  <1>2. [type |-> "INSERT", index |-> 0, character |-> NUL] \in Ring!Record
    BY DEF Ring!Record, EditorConstants
  <1>3. \A m \in 0 .. 2 : Keeps(history[m])
    BY <1>1, <1>2 DEF Keeps
  <1>4. Ring!TypeOK
    BY <1>1, <1>2, RingTypeOK
  <1> QED BY <1>1, <1>3, <1>4 DEF RingInv

(* What insert and delete have in common.                                  *)
LEMMA RememberKeepsRingInv ==
    ASSUME EditorConstants, RingInv, defined, NEW r, Keeps(r), Ring!Remember(r),
           string' \in Ring!Text, Ring!Reversible(string', r), Ring!Reversed(string', r) = string
    PROVE  RingInv'
  <1> DEFINE all == Append(before, string)
  <1>1. /\ history' = [history EXCEPT ![undo_count % 3] = r]
        /\ undo_count' = (IF undo_count < 3 THEN undo_count + 1 ELSE undo_count)
        /\ wrapped' = (wrapped \/ undo_count = 3)
        /\ before' = (IF Len(all) > 3 THEN Tail(all) ELSE all)
        /\ UNCHANGED defined
    BY DEF Ring!Remember, Ring!Place, Ring!Counted, Ring!UNDO_LIMIT
  <1>2. /\ string \in Ring!Text /\ undo_count \in 0 .. 3 /\ before \in Seq(Ring!Text)
        /\ Len(before) = undo_count /\ history \in [0 .. 2 -> Ring!Record]
        /\ wrapped \in BOOLEAN /\ r \in Ring!Record
    BY RingFacts DEF Keeps
  <1>3. /\ all \in Seq(Ring!Text) /\ Len(all) = undo_count + 1
        /\ \A k \in 1 .. undo_count : all[k] = before[k]
        /\ all[undo_count + 1] = string
    BY <1>2, AppendFacts
  <1> HIDE DEF all
  <1>4. undo_count % 3 \in 0 .. 2 /\ (undo_count < 3 => undo_count % 3 = undo_count)
    BY <1>2
  <1>5. before' \in Seq(Ring!Text) /\ Len(before') = undo_count' /\ undo_count' \in 0 .. 3
    BY <1>1, <1>2, <1>3
  <1>6. history' \in [0 .. 2 -> Ring!Record] /\ \A m \in 0 .. 2 : Keeps(history'[m])
    BY <1>1, <1>2, <1>4 DEF RingInv
  <1>7. Ring!TypeOK'
    <2>1. wrapped' \in BOOLEAN /\ defined' \in BOOLEAN
      BY <1>1, RingFacts
    <2> QED BY <1>5, <1>6, <2>1, RingTypeOKNext
  <1>8. ASSUME ~wrapped', NEW k \in 1 .. undo_count' PROVE GoesBack(k)'
    <2>1. ~wrapped /\ undo_count \in 0 .. 2 /\ undo_count' = undo_count + 1
      <3>1. ~wrapped /\ undo_count # 3
        BY <1>1, <1>8, Zenon
      <3>2. undo_count \in 0 .. 2
        BY <1>2, <3>1
      <3> QED BY <1>1, <3>1, <3>2
    <2>2. before' = all /\ history' = [history EXCEPT ![undo_count] = r]
      <3>1. undo_count % 3 = undo_count /\ ~(Len(all) > 3)
        BY <1>3, <1>4, <2>1
      <3> QED BY <1>1, <3>1, Zenon
    <2>3. CASE k = undo_count + 1
      <3>1. TextAfter(k)' = string'
        BY <2>1, <2>3 DEF TextAfter
      <3>2. history'[k - 1] = r /\ before'[k] = string
        BY <1>2, <1>3, <2>1, <2>2, <2>3
      <3> QED BY <3>1, <3>2 DEF GoesBack
    <2>4. CASE k \in 1 .. undo_count
      <3>1. GoesBack(k)
        BY <2>1, <2>4 DEF RingInv
      <3>2. history'[k - 1] = history[k - 1] /\ before'[k] = before[k]
        BY <1>2, <1>3, <2>1, <2>2, <2>4
      <3>3. TextAfter(k)' = before'[k + 1]
        BY <2>1, <2>4 DEF TextAfter
      <3>4. before'[k + 1] = TextAfter(k)
        <4>1. CASE k = undo_count
          BY <1>3, <2>2, <4>1 DEF TextAfter
        <4>2. CASE k # undo_count
          BY <1>2, <1>3, <2>2, <2>4, <4>2 DEF TextAfter
        <4> QED BY <4>1, <4>2
      <3> QED BY <3>1, <3>2, <3>3, <3>4 DEF GoesBack
    <2> QED BY <1>2, <1>8, <2>1, <2>3, <2>4
  <1> QED BY <1>1, <1>6, <1>7, <1>8 DEF RingInv

LEMMA InsertKeepsRingInv ==
    ASSUME EditorConstants, RingInv, defined, NEW idx \in 0 .. STRING_LIMIT - 1, NEW c \in Char,
           Ring!Insert(idx, c)
    PROVE  RingInv'
  <1> DEFINE r == [type |-> "INSERT", index |-> idx, character |-> c]
  <1>1. /\ idx <= Len(string) /\ Len(string) < STRING_LIMIT - 1
        /\ string' = Ring!InsertAt(string, idx + 1, c) /\ Ring!Remember(r)
    BY DEF Ring!Insert
  <1>2. string \in Seq(Char) /\ Len(string) \in Nat /\ STRING_LIMIT \in Nat
    BY RingFacts
  <1>3. idx \in 0 .. Len(string)
    BY <1>1, <1>2
  <1>4. string' \in Seq(Char) /\ Len(string') = Len(string) + 1
    BY <1>1, <1>2, <1>3, InsertedFacts DEF Inserted
  <1>5. string' \in Ring!Text
    BY <1>1, <1>2, <1>4, TextIsSequence
  <1>6. Keeps(r) /\ r.type = "INSERT" /\ r.index = idx
    BY DEF Keeps, Ring!Record
  <1> HIDE DEF r
  <1>7. Ring!Reversible(string', r) /\ idx < Len(string')
    BY <1>2, <1>3, <1>4, <1>6 DEF Ring!Reversible
  <1>8. Ring!Reversed(string', r) = Ring!RemoveAt(string', idx + 1)
    BY <1>6, <1>7 DEF Ring!Reversed
  <1>9. Ring!Reversed(string', r) = string
    BY <1>1, <1>2, <1>3, <1>8, InsertIsUndone
  <1> QED BY <1>1, <1>5, <1>6, <1>7, <1>9, RememberKeepsRingInv

LEMMA DeleteKeepsRingInv ==
    ASSUME EditorConstants, RingInv, defined, NEW idx \in 0 .. STRING_LIMIT - 1, Ring!Delete(idx)
    PROVE  RingInv'
  <1> DEFINE c == string[idx + 1]
             r == [type |-> "DELETE", index |-> idx, character |-> c]
  <1>1. idx < Len(string) /\ string' = Ring!RemoveAt(string, idx + 1) /\ Ring!Remember(r)
    BY DEF Ring!Delete
  <1>2. string \in Seq(Char) /\ Len(string) \in Nat /\ Len(string) < STRING_LIMIT
        /\ STRING_LIMIT \in Nat
    BY RingFacts
  <1>3. idx \in 0 .. Len(string) - 1 /\ c \in Char
    BY <1>1, <1>2
  <1>4. string' \in Seq(Char) /\ Len(string') = Len(string) - 1
    BY <1>1, <1>2, <1>3, RemovedFacts DEF Removed
  <1>5. string' \in Ring!Text
    BY <1>1, <1>2, <1>4, TextIsSequence
  <1>6. Keeps(r) /\ r.type = "DELETE" /\ r.index = idx /\ r.character = c
    <2> HIDE DEF c
    <2> QED BY <1>3 DEF Keeps, Ring!Record
  <1> HIDE DEF r
  <1>7. Ring!Reversible(string', r) /\ idx <= Len(string')
    BY <1>2, <1>3, <1>4, <1>6 DEF Ring!Reversible
  <1>8. Ring!Reversed(string', r) = Ring!InsertAt(string', idx + 1, c)
    BY <1>6, <1>7 DEF Ring!Reversed
  <1>9. Ring!Reversed(string', r) = string
    BY <1>1, <1>2, <1>3, <1>8, DeleteIsUndone
  <1> QED BY <1>1, <1>5, <1>6, <1>7, <1>9, RememberKeepsRingInv

LEMMA FrontFacts ==
    ASSUME NEW S, NEW s \in Seq(S), Len(s) # 0
    PROVE  /\ Ring!Front(s) \in Seq(S) /\ Len(Ring!Front(s)) = Len(s) - 1
           /\ \A k \in 1 .. Len(s) - 1 : Ring!Front(s)[k] = s[k]
  <1>1. \A n \in 0 .. Len(s) : /\ SubSeq(s, 1, n) \in Seq(S) /\ Len(SubSeq(s, 1, n)) = n
                               /\ \A k \in 1 .. n : SubSeq(s, 1, n)[k] = s[k]
    OBVIOUS
  <1>2. Len(s) - 1 \in 0 .. Len(s)
    OBVIOUS
  <1> QED BY <1>1, <1>2, Zenon DEF Ring!Front

LEMMA UndoKeepsRingInv ==
    ASSUME EditorConstants, RingInv, defined, Ring!Undo PROVE RingInv'
  <1> DEFINE r == history[undo_count - 1]
  <1>1. /\ string \in Ring!Text /\ undo_count \in 0 .. 3 /\ before \in Seq(Ring!Text)
        /\ Len(before) = undo_count /\ history \in [0 .. 2 -> Ring!Record]
        /\ wrapped \in BOOLEAN /\ defined \in BOOLEAN
    BY RingFacts
  <1>2. undo_count > 0
    BY DEF Ring!Undo
  <1>3. undo_count \in 1 .. 3 /\ undo_count - 1 \in 0 .. 2
        /\ (undo_count - 1) % 3 = undo_count - 1
    BY <1>1, <1>2
  <1>4. /\ undo_count' = undo_count - 1 /\ before' = Ring!Front(before) /\ UNCHANGED history
        /\ wrapped' = (wrapped /\ (undo_count > 1 \/ ~defined'))
        /\ IF Ring!Reversible(string, r)
           THEN string' = Ring!Reversed(string, r) /\ UNCHANGED defined
           ELSE defined' = FALSE /\ UNCHANGED string
    BY <1>3 DEF Ring!Undo, Ring!Newest, Ring!UNDO_LIMIT
  <1>5. Keeps(r)
    BY <1>3 DEF RingInv
  <1>6. string' \in Ring!Text /\ defined' \in BOOLEAN
    BY <1>1, <1>4, <1>5, ReversedIsText
  <1>7. /\ before' \in Seq(Ring!Text) /\ Len(before') = undo_count'
        /\ \A k \in 1 .. undo_count - 1 : before'[k] = before[k]
    BY <1>1, <1>3, <1>4, FrontFacts
  <1>8. Ring!TypeOK'
    <2>1. undo_count' \in 0 .. 3 /\ wrapped' \in BOOLEAN /\ history' \in [0 .. 2 -> Ring!Record]
      BY <1>1, <1>3, <1>4
    <2> QED BY <1>6, <1>7, <2>1, RingTypeOKNext
  <1>9. ASSUME ~wrapped' PROVE defined' /\ \A k \in 1 .. undo_count' : GoesBack(k)'
    <2>1. CASE wrapped
      <3>1. ~(undo_count > 1) /\ defined'
        BY <1>4, <1>9, <2>1, Zenon
      <3>2. undo_count' = 0
        BY <1>3, <1>4, <3>1
      <3> QED BY <3>1, <3>2
    <2>2. CASE ~wrapped
      <3>1. GoesBack(undo_count)
        BY <1>3, <2>2 DEF RingInv
      <3>2. Ring!Reversible(string, r) /\ Ring!Reversed(string, r) = before[undo_count]
        BY <3>1 DEF GoesBack, TextAfter
      <3>3. defined' /\ string' = before[undo_count]
        BY <1>4, <3>2
      <3>4. ASSUME NEW k \in 1 .. undo_count' PROVE GoesBack(k)'
        <4>1. k \in 1 .. undo_count /\ k # undo_count /\ GoesBack(k)
          BY <1>3, <1>4, <2>2, <3>4 DEF RingInv
        <4>2. TextAfter(k) = before[k + 1]
          BY <4>1 DEF TextAfter
        <4>3. TextAfter(k)' = before[k + 1]
          <5>1. CASE k = undo_count - 1
            <6>1. k = undo_count' /\ k + 1 = undo_count
              BY <1>3, <1>4, <5>1
            <6> QED BY <3>3, <6>1, Zenon DEF TextAfter
          <5>2. CASE k # undo_count - 1
            <6>1. k # undo_count' /\ k + 1 \in 1 .. undo_count - 1
              BY <1>3, <1>4, <3>4, <5>2
            <6>2. TextAfter(k)' = before'[k + 1]
              BY <6>1, Zenon DEF TextAfter
            <6> QED BY <1>7, <6>1, <6>2, Zenon
          <5> QED BY <5>1, <5>2
        <4>4. before'[k] = before[k] /\ history'[k - 1] = history[k - 1]
          BY <1>3, <1>4, <1>7, <3>4
        <4> QED BY <4>1, <4>2, <4>3, <4>4 DEF GoesBack
      <3> QED BY <3>3, <3>4
    <2> QED BY <2>1, <2>2
  <1>10. \A m \in 0 .. 2 : Keeps(history'[m])
    BY <1>4 DEF RingInv
  <1> QED BY <1>8, <1>9, <1>10 DEF RingInv

LEMMA ResetKeepsRingInv ==
    ASSUME EditorConstants, RingInv, defined, Ring!Reset PROVE RingInv'
  <1>1. string' \in Ring!Text /\ undo_count' = 0 /\ before' = <<>> /\ wrapped' = FALSE
        /\ UNCHANGED <<history, defined>>
    BY DEF Ring!Reset
  <1>2. history' \in [0 .. 2 -> Ring!Record] /\ \A m \in 0 .. 2 : Keeps(history'[m])
    BY <1>1, RingFacts DEF RingInv
  <1>3. Ring!TypeOK'
    <2>1. before' \in Seq(Ring!Text) /\ Len(before') = undo_count' /\ undo_count' \in 0 .. 3
      BY <1>1
    <2>2. wrapped' \in BOOLEAN /\ defined' \in BOOLEAN
      BY <1>1, RingFacts
    <2> QED BY <1>1, <1>2, <2>1, <2>2, RingTypeOKNext
  <1> QED BY <1>1, <1>2, <1>3 DEF RingInv

(* The text after n undos, written out.                                    *)
LEMMA AfterIsDefined ==
    /\ Ring!After[0] = string
    /\ \A n \in 1 .. 3 :
          Ring!After[n] = Ring!Reversed(Ring!After[n - 1], history[(undo_count - n) % 3])
  <1> DEFINE back(s, n) == Ring!Reversed(s, history[(undo_count - n) % 3])
             a1 == back(string, 1)
             a2 == back(a1, 2)
             a3 == back(a2, 3)
             f == [n \in 0 .. 3 |-> IF n = 0 THEN string ELSE IF n = 1 THEN a1
                                    ELSE IF n = 2 THEN a2 ELSE a3]
             Unfolds(g) == g = [n \in 0 .. 3 |-> IF n = 0 THEN string ELSE back(g[n - 1], n)]
  <1>1. Unfolds(f)
    <2>1. f[0] = string /\ f[1] = a1 /\ f[2] = a2 /\ f[3] = a3
      <3> HIDE DEF a1, a2, a3
      <3> QED OBVIOUS
    <2>2. ASSUME NEW n \in 0 .. 3 PROVE f[n] = IF n = 0 THEN string ELSE back(f[n - 1], n)
      <3>1. n = 0 \/ n = 1 \/ n = 2 \/ n = 3
        OBVIOUS
      <3>2. 1 - 1 = 0 /\ 2 - 1 = 1 /\ 3 - 1 = 2
        OBVIOUS
      <3>3. CASE n = 0
        BY <2>1, <3>3
      <3>4. CASE n = 1
        BY <2>1, <3>2, <3>4
      <3>5. CASE n = 2
        BY <2>1, <3>2, <3>5
      <3>6. CASE n = 3
        BY <2>1, <3>2, <3>6
      <3> QED BY <3>1, <3>3, <3>4, <3>5, <3>6
    <2> QED BY <2>2
  <1>2. Ring!After = CHOOSE g : Unfolds(g)
    BY DEF Ring!After, Ring!UNDO_LIMIT
  <1> HIDE DEF f
  <1>3. Unfolds(Ring!After)
    <2> HIDE DEF Unfolds
    <2> QED BY <1>1, <1>2
  <1> QED BY <1>3

LEMMA RingInvSuffices ==
    ASSUME EditorConstants, RingInv PROVE Ring!TypeOK /\ Ring!UndoGoesBack
  <1>1. ASSUME ~wrapped PROVE \A n \in 1 .. undo_count : Ring!After[n] = before[undo_count + 1 - n]
    <2>1. undo_count \in 0 .. 3
      BY RingFacts
    <2> DEFINE u == undo_count
    <2>2. ASSUME NEW n \in 1 .. u, NEW k \in 1 .. u, k = u + 1 - n,
                 Ring!After[n - 1] = TextAfter(k)
          PROVE  Ring!After[n] = before[k]
      <3>1. (u - n) % 3 = k - 1 /\ n \in 1 .. 3
        BY <2>1, <2>2
      <3>2. Ring!Reversed(TextAfter(k), history[k - 1]) = before[k]
        BY <1>1 DEF RingInv, GoesBack
      <3>3. Ring!After[n] = Ring!Reversed(Ring!After[n - 1], history[k - 1])
        BY <3>1, AfterIsDefined
      <3> QED BY <2>2, <3>2, <3>3, Zenon
    <2>3. u >= 1 => Ring!After[1] = before[u]
      <3>1. Ring!After[1 - 1] = TextAfter(u)
        BY <2>1, AfterIsDefined DEF TextAfter
      <3>2. u >= 1 => u \in 1 .. u /\ 1 \in 1 .. u /\ u = u + 1 - 1
        BY <2>1
      <3> QED BY <2>2, <3>1, <3>2
    <2>4. u >= 2 => Ring!After[2] = before[u - 1]
      <3>1. u >= 2 => Ring!After[2 - 1] = TextAfter(u - 1)
        BY <2>1, <2>3 DEF TextAfter
      <3>2. u >= 2 => u - 1 \in 1 .. u /\ 2 \in 1 .. u /\ u - 1 = u + 1 - 2
        BY <2>1
      <3> QED BY <2>2, <3>1, <3>2
    <2>5. u >= 3 => Ring!After[3] = before[u - 2]
      <3>1. u >= 3 => Ring!After[3 - 1] = TextAfter(u - 2)
        BY <2>1, <2>4 DEF TextAfter
      <3>2. u >= 3 => u - 2 \in 1 .. u /\ 3 \in 1 .. u /\ u - 2 = u + 1 - 3
        BY <2>1
      <3> QED BY <2>2, <3>1, <3>2
    <2>6. \A n \in 1 .. u : n = 1 \/ n = 2 \/ n = 3
      BY <2>1
    <2> QED BY <2>1, <2>3, <2>4, <2>5, <2>6
  <1> QED BY <1>1 DEF RingInv, Ring!UndoGoesBack

(* edit2.c: as long as no edit has found the history full, every undo goes *)
(* back to the text before its edit, to the last one remembered.           *)
THEOREM RingGoesBack == EditorConstants /\ Ring!Spec => [](Ring!TypeOK /\ Ring!UndoGoesBack)
  <1> SUFFICES ASSUME EditorConstants
               PROVE  Ring!Spec => [](Ring!TypeOK /\ Ring!UndoGoesBack)
    OBVIOUS
  <1>1. Ring!Init => RingInv
    BY RingStart
  <1>2. RingInv /\ [Ring!Next]_Ring!vars => RingInv'
    <2>1. ASSUME RingInv, UNCHANGED Ring!vars PROVE RingInv'
      <3>1. UNCHANGED <<string, history, undo_count, defined, before, wrapped>>
        BY <2>1 DEF Ring!vars
      <3>2. Ring!TypeOK'
        BY <2>1, <3>1, RingFacts, RingTypeOKNext
      <3> QED BY <2>1, <3>1, <3>2 DEF RingInv, GoesBack, TextAfter
    <2> QED BY <2>1, InsertKeepsRingInv, DeleteKeepsRingInv, UndoKeepsRingInv, ResetKeepsRingInv
            DEF Ring!Next
  <1>3. RingInv => Ring!TypeOK /\ Ring!UndoGoesBack
    BY RingInvSuffices
  <1> QED BY <1>1, <1>2, <1>3, PTL DEF Ring!Spec

-----------------------------------------------------------------------------
(* ps and grep of exercises/ex03.                                          *)
PipelineConstants == MaxLines \in Nat /\ Capacity \in Nat

(* Which ends a process holds before its next call.                        *)
EndsOf(l, unused, end, std) ==
    CASE l = "close" -> {unused, end}
      [] l = "dup2" -> {end}
      [] l = "close copy" -> {end, std}
      [] l \in {"exec", "run"} -> {std}
      [] OTHER -> {}

Childs == {"none", "close", "dup2", "close copy", "exec", "run", "zombie", "reaped"}
PsEnded == at["ps"] \in {"zombie", "reaped"}
GrepEnded == at["grep"] \in {"zombie", "reaped"}

(* grep will read nothing any more.                                        *)
GrepGone == GrepEnded \/ (at["grep"] = "none" /\ at["parent"] = "zombie")

FamilyOK ==
    /\ at["parent"] \in {"fork ps", "fork grep", "close", "wait", "wait again", "return", "zombie"}
    /\ at["ps"] \in Childs /\ at["grep"] \in Childs
    /\ fds["parent"] = IF at["parent"] \in {"fork ps", "fork grep", "close"} THEN {"pfd0", "pfd1"}
                       ELSE {}
    /\ fds["ps"] = EndsOf(at["ps"], "pfd0", "pfd1", "stdout")
    /\ fds["grep"] = EndsOf(at["grep"], "pfd1", "pfd0", "stdin")
    /\ at["parent"] = "fork ps" => at["ps"] = "none" /\ at["grep"] = "none"
    /\ at["parent"] = "fork grep" => at["ps"] \notin {"none", "reaped"} /\ at["grep"] = "none"
    /\ at["parent"] \in {"close", "wait"} =>
          at["ps"] \notin {"none", "reaped"} /\ at["grep"] \notin {"none", "reaped"}
    /\ at["parent"] = "wait again" =>
          \/ at["ps"] = "reaped" /\ at["grep"] \notin {"none", "reaped"}
          \/ at["grep"] = "reaped" /\ at["ps"] \notin {"none", "reaped"}
    /\ at["parent"] = "return" => at["ps"] = "reaped" /\ at["grep"] = "reaped"

LinesOK ==
    /\ got + pipe + toPrint <= MaxLines
    /\ got # 0 \/ pipe # 0 => at["ps"] = "run" \/ PsEnded
    /\ got # 0 => at["grep"] = "run" \/ (GrepEnded /\ pipe = 0 /\ PsEnded)
    /\ PsEnded => toPrint = 0 \/ (got = 0 /\ (pipe = 0 \/ GrepGone))

PipelineInv == PsGrep!TypeOK /\ FamilyOK /\ LinesOK

LEMMA PipelineStart == PipelineConstants /\ PsGrep!Init => PipelineInv
  <1> SUFFICES ASSUME PipelineConstants, PsGrep!Init PROVE PipelineInv
    OBVIOUS
  <1>1. /\ at["parent"] = "fork ps" /\ at["ps"] = "none" /\ at["grep"] = "none"
        /\ fds["parent"] = {"pfd0", "pfd1"} /\ fds["ps"] = {} /\ fds["grep"] = {}
    BY DEF PsGrep!Init, PsGrep!Process
  <1>2. PsGrep!TypeOK
    <2>1. 0 \in 0 .. Capacity /\ 0 \in 0 .. MaxLines
      BY DEF PipelineConstants
    <2> QED BY <2>1 DEF PsGrep!Init, PsGrep!Process, PsGrep!TypeOK
  <1>3. FamilyOK
    BY <1>1 DEF FamilyOK, Childs, EndsOf
  <1>4. LinesOK
    <2>1. pipe = 0 /\ got = 0 /\ toPrint \in 0 .. MaxLines
      BY DEF PsGrep!Init
    <2>2. got + pipe + toPrint <= MaxLines
      BY <2>1 DEF PipelineConstants
    <2> QED BY <1>1, <2>1, <2>2 DEF LinesOK, PsEnded
  <1> QED BY <1>2, <1>3, <1>4 DEF PipelineInv

LEMMA LineCounts ==
    ASSUME PipelineConstants, PipelineInv
    PROVE  /\ pipe \in Nat /\ got \in Nat /\ toPrint \in Nat
           /\ pipe <= Capacity /\ toPrint <= MaxLines /\ got <= MaxLines
           /\ got + pipe + toPrint <= MaxLines
  <1>1. /\ pipe \in 0 .. Capacity /\ got \in 0 .. MaxLines /\ toPrint \in 0 .. MaxLines
        /\ got + pipe + toPrint <= MaxLines
    BY DEF PipelineInv, PsGrep!TypeOK, LinesOK
  <1> QED BY <1>1 DEF PipelineConstants

LEMMA ParentKeepsPipelineInv ==
    ASSUME PipelineConstants, PipelineInv, PsGrep!Parent
    PROVE  PipelineInv'
  <1> USE DEF PsGrep!Process
  <1>1. CASE at["parent"] \in {"fork ps", "fork grep", "return"} /\ PsGrep!Exit("parent")
    <2>1. /\ at'["parent"] = "zombie" /\ at'["ps"] = at["ps"] /\ at'["grep"] = at["grep"]
          /\ fds'["parent"] = {} /\ fds'["ps"] = fds["ps"] /\ fds'["grep"] = fds["grep"]
          /\ UNCHANGED <<pipe, toPrint, got>>
      BY <1>1 DEF PsGrep!Exit, PipelineInv, PsGrep!TypeOK
    <2>2. PsGrep!TypeOK'
      BY <1>1 DEF PsGrep!Exit, PipelineInv, PsGrep!TypeOK
    <2>3. FamilyOK'
      BY <2>1 DEF PipelineInv, FamilyOK, Childs, EndsOf
    <2>4. LinesOK'
      BY <2>1 DEF PipelineInv, LinesOK, PsEnded, GrepEnded, GrepGone
    <2> QED BY <2>2, <2>3, <2>4 DEF PipelineInv
  <1>2. CASE at["parent"] = "fork ps" /\ PsGrep!Fork("ps", "fork grep")
    <2>1. /\ at'["parent"] = "fork grep" /\ at'["ps"] = "close" /\ at'["grep"] = at["grep"]
          /\ fds'["parent"] = fds["parent"] /\ fds'["ps"] = fds["parent"]
          /\ fds'["grep"] = fds["grep"] /\ UNCHANGED <<pipe, toPrint, got>>
      BY <1>2 DEF PsGrep!Fork, PipelineInv, PsGrep!TypeOK
    <2>2. PsGrep!TypeOK'
      BY <1>2 DEF PsGrep!Fork, PipelineInv, PsGrep!TypeOK
    <2>3. FamilyOK'
      BY <1>2, <2>1 DEF PipelineInv, FamilyOK, Childs, EndsOf
    <2>4. LinesOK'
      BY <1>2, <2>1
         DEF PipelineInv, PsGrep!TypeOK, FamilyOK, LinesOK, PsEnded, GrepEnded, GrepGone
    <2> QED BY <2>2, <2>3, <2>4 DEF PipelineInv
  <1>3. CASE at["parent"] = "fork grep" /\ PsGrep!Fork("grep", "close")
    <2>1. /\ at'["parent"] = "close" /\ at'["grep"] = "close" /\ at'["ps"] = at["ps"]
          /\ fds'["parent"] = fds["parent"] /\ fds'["grep"] = fds["parent"]
          /\ fds'["ps"] = fds["ps"] /\ UNCHANGED <<pipe, toPrint, got>>
      BY <1>3 DEF PsGrep!Fork, PipelineInv, PsGrep!TypeOK
    <2>2. PsGrep!TypeOK'
      BY <1>3 DEF PsGrep!Fork, PipelineInv, PsGrep!TypeOK
    <2>3. FamilyOK'
      BY <1>3, <2>1 DEF PipelineInv, FamilyOK, Childs, EndsOf
    <2>4. LinesOK'
      BY <1>3, <2>1
         DEF PipelineInv, PsGrep!TypeOK, FamilyOK, LinesOK, PsEnded, GrepEnded, GrepGone
    <2> QED BY <2>2, <2>3, <2>4 DEF PipelineInv
  <1>4. CASE PsGrep!CloseInParent
    <2>1. /\ at["parent"] = "close" /\ at'["parent"] = "wait"
          /\ at'["ps"] = at["ps"] /\ at'["grep"] = at["grep"]
          /\ fds'["parent"] = fds["parent"] \ {"pfd0", "pfd1"} /\ fds'["ps"] = fds["ps"]
          /\ fds'["grep"] = fds["grep"] /\ UNCHANGED <<pipe, toPrint, got>>
      BY <1>4 DEF PsGrep!CloseInParent, PsGrep!Goto, PipelineInv, PsGrep!TypeOK
    <2>2. PsGrep!TypeOK'
      BY <1>4 DEF PsGrep!CloseInParent, PsGrep!Goto, PipelineInv, PsGrep!TypeOK
    <2>3. FamilyOK'
      BY <2>1 DEF PipelineInv, FamilyOK, Childs, EndsOf
    <2>4. LinesOK'
      BY <2>1 DEF PipelineInv, LinesOK, PsEnded, GrepEnded, GrepGone
    <2> QED BY <2>2, <2>3, <2>4 DEF PipelineInv
  <1>5. ASSUME NEW next,
               \/ at["parent"] = "wait" /\ next = "wait again"
               \/ at["parent"] = "wait again" /\ next = "return",
               PsGrep!Wait(next)
        PROVE  PipelineInv'
    <2>1. PICK c \in {"ps", "grep"} :
              at[c] = "zombie" /\ at' = [at EXCEPT ![c] = "reaped", !["parent"] = next]
      BY <1>5 DEF PsGrep!Wait
    <2>2. UNCHANGED <<fds, pipe, toPrint, got>>
      BY <1>5 DEF PsGrep!Wait
    <2>3. /\ at'["parent"] = next /\ at'[c] = "reaped"
          /\ \A q \in {"ps", "grep"} \ {c} : at'[q] = at[q]
      BY <2>1 DEF PipelineInv, PsGrep!TypeOK
    <2>4. PsGrep!TypeOK'
      BY <1>5, <2>1, <2>2 DEF PipelineInv, PsGrep!TypeOK
    <2>5. FamilyOK'
      BY <1>5, <2>1, <2>2, <2>3 DEF PipelineInv, FamilyOK, Childs, EndsOf
    <2>6. LinesOK'
      BY <1>5, <2>1, <2>2, <2>3 DEF PipelineInv, LinesOK, PsEnded, GrepEnded, GrepGone
    <2> QED BY <2>4, <2>5, <2>6 DEF PipelineInv
  <1> QED BY <1>1, <1>2, <1>3, <1>4, <1>5 DEF PsGrep!Parent

LEMMA PsKeepsPipelineInv ==
    ASSUME PipelineConstants, PipelineInv, PsGrep!Ps
    PROVE  PipelineInv'
  <1> USE DEF PsGrep!Process
  <1> DEFINE plumbs(from, to, set) ==
          /\ at["ps"] = from /\ at'["ps"] = to /\ fds'["ps"] = set
          /\ at'["parent"] = at["parent"] /\ at'["grep"] = at["grep"]
          /\ fds'["parent"] = fds["parent"] /\ fds'["grep"] = fds["grep"]
          /\ UNCHANGED <<pipe, toPrint, got>>
  <1>1. ASSUME NEW from, NEW to \in {"dup2", "close copy", "exec", "run"}, NEW set,
               set \subseteq {"pfd0", "pfd1", "stdin", "stdout"}, PsGrep!Change("ps", from, to, set)
        PROVE  plumbs(from, to, set) /\ PsGrep!TypeOK'
    BY <1>1 DEF PsGrep!Change, PsGrep!Goto, PipelineInv, PsGrep!TypeOK
  <1>2. ASSUME PsGrep!Exit("ps"), at["ps"] \in {"exec", "run"}
        PROVE  plumbs(at["ps"], "zombie", {}) /\ PsGrep!TypeOK'
    BY <1>2 DEF PsGrep!Exit, PipelineInv, PsGrep!TypeOK
  <1>3. fds["ps"] = EndsOf(at["ps"], "pfd0", "pfd1", "stdout")
    BY DEF PipelineInv, FamilyOK
  <1>4. CASE PsGrep!Plumb("ps", "pfd0", "pfd1", "stdout")
    <2>1. ASSUME PsGrep!Change("ps", "close", "dup2", fds["ps"] \ {"pfd0"})
          PROVE  plumbs("close", "dup2", {"pfd1"}) /\ PsGrep!TypeOK'
      <3>1. fds["ps"] \ {"pfd0"} = {"pfd1"}
        BY <1>3, <2>1 DEF PsGrep!Change, EndsOf
      <3> QED BY <1>1, <2>1, <3>1
    <2>2. ASSUME PsGrep!Change("ps", "dup2", "close copy", fds["ps"] \cup {"stdout"})
          PROVE  plumbs("dup2", "close copy", {"pfd1", "stdout"}) /\ PsGrep!TypeOK'
      <3>1. fds["ps"] \cup {"stdout"} = {"pfd1", "stdout"}
        BY <1>3, <2>2 DEF PsGrep!Change, EndsOf
      <3> QED BY <1>1, <2>2, <3>1
    <2>3. ASSUME PsGrep!Change("ps", "close copy", "exec", fds["ps"] \ {"pfd1"})
          PROVE  plumbs("close copy", "exec", {"stdout"}) /\ PsGrep!TypeOK'
      <3>1. fds["ps"] \ {"pfd1"} = {"stdout"}
        BY <1>3, <2>3 DEF PsGrep!Change, EndsOf
      <3> QED BY <1>1, <2>3, <3>1
    <2>4. ASSUME PsGrep!Change("ps", "exec", "run", fds["ps"])
          PROVE  plumbs("exec", "run", {"stdout"}) /\ PsGrep!TypeOK'
      <3>1. fds["ps"] = {"stdout"}
        BY <1>3, <2>4 DEF PsGrep!Change, EndsOf
      <3> QED BY <1>1, <2>4, <3>1
    <2>5. ASSUME at["ps"] = "exec", PsGrep!Exit("ps")
          PROVE  plumbs("exec", "zombie", {}) /\ PsGrep!TypeOK'
      BY <1>2, <2>5
    <2> HIDE DEF plumbs
    <2>6. /\ \/ plumbs("close", "dup2", {"pfd1"})
             \/ plumbs("dup2", "close copy", {"pfd1", "stdout"})
             \/ plumbs("close copy", "exec", {"stdout"})
             \/ plumbs("exec", "run", {"stdout"})
             \/ plumbs("exec", "zombie", {})
          /\ PsGrep!TypeOK'
      BY <1>4, <2>1, <2>2, <2>3, <2>4, <2>5 DEF PsGrep!Plumb
    <2>7. FamilyOK'
      BY <2>6 DEF PipelineInv, FamilyOK, Childs, EndsOf, plumbs
    <2>8. LinesOK'
      BY <2>6 DEF PipelineInv, PsGrep!TypeOK, LinesOK, PsEnded, GrepEnded, GrepGone, plumbs
    <2> QED BY <2>6, <2>7, <2>8 DEF PipelineInv
  <1>5. CASE PsGrep!PsPrints
    <2>1. FamilyOK'
      BY <1>5 DEF PsGrep!PsPrints, PipelineInv, FamilyOK
    <2>2. /\ pipe \in Nat /\ got \in Nat /\ toPrint \in Nat \ {0}
          /\ pipe < Capacity /\ toPrint <= MaxLines /\ got + pipe + toPrint <= MaxLines
          /\ pipe' = pipe + 1 /\ got' = got /\ toPrint' = toPrint - 1
          /\ at["ps"] = "run" /\ UNCHANGED <<at, fds>>
      BY <1>5, LineCounts DEF PsGrep!PsPrints
    <2>3. /\ pipe' \in 0 .. Capacity /\ toPrint' \in 0 .. MaxLines
          /\ got' + pipe' + toPrint' <= MaxLines
      BY <2>2 DEF PipelineConstants
    <2>4. PsGrep!TypeOK'
      BY <2>2, <2>3 DEF PipelineInv, PsGrep!TypeOK
    <2>5. LinesOK'
      BY <2>2, <2>3 DEF PipelineInv, LinesOK, PsEnded, GrepEnded, GrepGone
    <2> QED BY <2>1, <2>4, <2>5 DEF PipelineInv
  <1>6. CASE PsGrep!PsEnds
    <2>1. at["ps"] = "run" /\ plumbs("run", "zombie", {}) /\ PsGrep!TypeOK'
      BY <1>2, <1>6 DEF PsGrep!PsEnds
    <2>2. FamilyOK'
      BY <2>1 DEF PipelineInv, FamilyOK, Childs, EndsOf
    <2>3. ASSUME toPrint # 0 PROVE GrepGone /\ got = 0
      <3>1. PsGrep!Readers = {}
        BY <1>6, <2>3 DEF PsGrep!PsEnds
      <3>2. /\ ~("stdin" \in fds["grep"]) /\ ~("pfd0" \in fds["grep"])
            /\ ~("pfd0" \in fds["parent"])
        BY <3>1 DEF PsGrep!Readers
      <3>3. at["grep"] \in {"none", "zombie", "reaped"}
        BY <3>2 DEF PipelineInv, FamilyOK, Childs, EndsOf
      <3>4. at["grep"] = "none" => at["parent"] = "zombie"
        BY <2>1, <3>2 DEF PipelineInv, FamilyOK
      <3>5. got = 0
        BY <2>1, <3>3 DEF PipelineInv, LinesOK, PsEnded, GrepEnded
      <3> QED BY <3>3, <3>4, <3>5 DEF GrepGone, GrepEnded
    <2>4. LinesOK'
      BY <2>1, <2>3 DEF PipelineInv, PsGrep!TypeOK, LinesOK, PsEnded, GrepEnded, GrepGone
    <2> QED BY <2>1, <2>2, <2>4 DEF PipelineInv
  <1> QED BY <1>4, <1>5, <1>6 DEF PsGrep!Ps

LEMMA GrepKeepsPipelineInv ==
    ASSUME PipelineConstants, PipelineInv, PsGrep!Grep
    PROVE  PipelineInv'
  <1> USE DEF PsGrep!Process
  <1> DEFINE plumbs(from, to, set) ==
          /\ at["grep"] = from /\ at'["grep"] = to /\ fds'["grep"] = set
          /\ at'["parent"] = at["parent"] /\ at'["ps"] = at["ps"]
          /\ fds'["parent"] = fds["parent"] /\ fds'["ps"] = fds["ps"]
          /\ UNCHANGED <<pipe, toPrint, got>>
  <1>1. ASSUME NEW from, NEW to \in {"dup2", "close copy", "exec", "run"}, NEW set,
               set \subseteq {"pfd0", "pfd1", "stdin", "stdout"}, PsGrep!Change("grep", from, to, set)
        PROVE  plumbs(from, to, set) /\ PsGrep!TypeOK'
    BY <1>1 DEF PsGrep!Change, PsGrep!Goto, PipelineInv, PsGrep!TypeOK
  <1>2. ASSUME PsGrep!Exit("grep"), at["grep"] \in {"exec", "run"}
        PROVE  plumbs(at["grep"], "zombie", {}) /\ PsGrep!TypeOK'
    BY <1>2 DEF PsGrep!Exit, PipelineInv, PsGrep!TypeOK
  <1>3. fds["grep"] = EndsOf(at["grep"], "pfd1", "pfd0", "stdin")
    BY DEF PipelineInv, FamilyOK
  <1>4. CASE PsGrep!Plumb("grep", "pfd1", "pfd0", "stdin")
    <2>1. ASSUME PsGrep!Change("grep", "close", "dup2", fds["grep"] \ {"pfd1"})
          PROVE  plumbs("close", "dup2", {"pfd0"}) /\ PsGrep!TypeOK'
      <3>1. fds["grep"] \ {"pfd1"} = {"pfd0"}
        BY <1>3, <2>1 DEF PsGrep!Change, EndsOf
      <3> QED BY <1>1, <2>1, <3>1
    <2>2. ASSUME PsGrep!Change("grep", "dup2", "close copy", fds["grep"] \cup {"stdin"})
          PROVE  plumbs("dup2", "close copy", {"pfd0", "stdin"}) /\ PsGrep!TypeOK'
      <3>1. fds["grep"] \cup {"stdin"} = {"pfd0", "stdin"}
        BY <1>3, <2>2 DEF PsGrep!Change, EndsOf
      <3> QED BY <1>1, <2>2, <3>1
    <2>3. ASSUME PsGrep!Change("grep", "close copy", "exec", fds["grep"] \ {"pfd0"})
          PROVE  plumbs("close copy", "exec", {"stdin"}) /\ PsGrep!TypeOK'
      <3>1. fds["grep"] \ {"pfd0"} = {"stdin"}
        BY <1>3, <2>3 DEF PsGrep!Change, EndsOf
      <3> QED BY <1>1, <2>3, <3>1
    <2>4. ASSUME PsGrep!Change("grep", "exec", "run", fds["grep"])
          PROVE  plumbs("exec", "run", {"stdin"}) /\ PsGrep!TypeOK'
      <3>1. fds["grep"] = {"stdin"}
        BY <1>3, <2>4 DEF PsGrep!Change, EndsOf
      <3> QED BY <1>1, <2>4, <3>1
    <2>5. ASSUME at["grep"] = "exec", PsGrep!Exit("grep")
          PROVE  plumbs("exec", "zombie", {}) /\ PsGrep!TypeOK'
      BY <1>2, <2>5
    <2> HIDE DEF plumbs
    <2>6. /\ \/ plumbs("close", "dup2", {"pfd0"})
             \/ plumbs("dup2", "close copy", {"pfd0", "stdin"})
             \/ plumbs("close copy", "exec", {"stdin"})
             \/ plumbs("exec", "run", {"stdin"})
             \/ plumbs("exec", "zombie", {})
          /\ PsGrep!TypeOK'
      BY <1>4, <2>1, <2>2, <2>3, <2>4, <2>5 DEF PsGrep!Plumb
    <2>7. FamilyOK'
      BY <2>6 DEF PipelineInv, FamilyOK, Childs, EndsOf, plumbs
    <2>8. LinesOK'
      BY <2>6 DEF PipelineInv, PsGrep!TypeOK, LinesOK, PsEnded, GrepEnded, GrepGone, plumbs
    <2> QED BY <2>6, <2>7, <2>8 DEF PipelineInv
  <1>5. CASE PsGrep!Filter
    <2>1. FamilyOK'
      BY <1>5 DEF PsGrep!Filter, PipelineInv, FamilyOK
    <2>2. /\ pipe \in Nat \ {0} /\ got \in Nat /\ toPrint \in Nat
          /\ pipe <= Capacity /\ toPrint <= MaxLines /\ got + pipe + toPrint <= MaxLines
          /\ pipe' = pipe - 1 /\ got' = got + 1 /\ toPrint' = toPrint
          /\ at["grep"] = "run" /\ UNCHANGED <<at, fds>>
      BY <1>5, LineCounts DEF PsGrep!Filter
    <2>3. /\ pipe' \in 0 .. Capacity /\ got' \in 0 .. MaxLines
          /\ got' + pipe' + toPrint' <= MaxLines
      BY <2>2 DEF PipelineConstants
    <2>4. PsGrep!TypeOK'
      BY <2>2, <2>3 DEF PipelineInv, PsGrep!TypeOK
    <2>5. LinesOK'
      <3>1. /\ at["ps"] = "run" \/ PsEnded
            /\ PsEnded => toPrint = 0
        BY <2>2 DEF PipelineInv, LinesOK, GrepGone, GrepEnded
      <3> QED BY <2>2, <2>3, <3>1 DEF LinesOK, PsEnded, GrepEnded, GrepGone
    <2> QED BY <2>1, <2>4, <2>5 DEF PipelineInv
  <1>6. CASE PsGrep!EndOfFile
    <2>1. at["grep"] = "run" /\ pipe = 0 /\ plumbs("run", "zombie", {}) /\ PsGrep!TypeOK'
      BY <1>2, <1>6 DEF PsGrep!EndOfFile
    <2>2. FamilyOK'
      BY <2>1 DEF PipelineInv, FamilyOK, Childs, EndsOf
    <2>3. at["ps"] # "run"
      <3>1. PsGrep!Writers = {}
        BY <1>6 DEF PsGrep!EndOfFile
      <3>2. ~("stdout" \in fds["ps"])
        BY <3>1 DEF PsGrep!Writers
      <3> QED BY <3>2 DEF PipelineInv, FamilyOK, EndsOf
    <2>4. LinesOK'
      BY <2>1, <2>3 DEF PipelineInv, PsGrep!TypeOK, LinesOK, PsEnded, GrepEnded, GrepGone
    <2> QED BY <2>1, <2>2, <2>4 DEF PipelineInv
  <1> QED BY <1>4, <1>5, <1>6 DEF PsGrep!Grep

(* Whatever grep has got is all that ps had to print: grep takes no end of *)
(* somebody's copy for the end, and ps is not killed while grep may read.  *)
THEOREM PipeIsDrained ==
    PipelineConstants /\ PsGrep!Spec => [](PsGrep!TypeOK /\ PsGrep!NothingLeftBehind)
  <1> SUFFICES ASSUME PipelineConstants
               PROVE  PsGrep!Spec => [](PsGrep!TypeOK /\ PsGrep!NothingLeftBehind)
    OBVIOUS
  <1>1. PsGrep!Init => PipelineInv
    BY PipelineStart
  <1>2. PipelineInv /\ [PsGrep!Next]_PsGrep!vars => PipelineInv'
    <2>1. CASE PsGrep!Parent
      BY <2>1, ParentKeepsPipelineInv
    <2>2. CASE PsGrep!Ps
      BY <2>2, PsKeepsPipelineInv
    <2>3. CASE PsGrep!Grep
      BY <2>3, GrepKeepsPipelineInv
    <2>4. ASSUME PipelineInv, UNCHANGED PsGrep!vars PROVE PipelineInv'
      BY <2>4 DEF PsGrep!vars, PipelineInv, PsGrep!TypeOK, FamilyOK, LinesOK, PsEnded, GrepEnded,
                  GrepGone
    <2> QED BY <2>1, <2>2, <2>3, <2>4 DEF PsGrep!Next, PsGrep!Step
  <1>3. PipelineInv => PsGrep!TypeOK /\ PsGrep!NothingLeftBehind
    <2> SUFFICES ASSUME PipelineInv PROVE PsGrep!NothingLeftBehind
      BY DEF PipelineInv
    <2>1. at["parent"] = "return" => at["ps"] = "reaped" /\ at["grep"] = "reaped"
      BY DEF PipelineInv, FamilyOK
    <2>2. ASSUME PsGrep!Ended, got > 0 PROVE pipe = 0 /\ toPrint = 0
      <3>1. at["grep"] # "run"
        BY <2>2 DEF PsGrep!Ended, PsGrep!Process
      <3>2. pipe = 0 /\ PsEnded
        BY <2>2, <3>1, LineCounts DEF PipelineInv, LinesOK
      <3>3. toPrint = 0 \/ got = 0
        BY <3>2 DEF PipelineInv, LinesOK
      <3> QED BY <2>2, <3>2, <3>3
    <2> QED BY <2>1, <2>2 DEF PsGrep!NothingLeftBehind
  <1> QED BY <1>1, <1>2, <1>3, PTL DEF PsGrep!Spec

-----------------------------------------------------------------------------
(* The three children of exercises/ex2.                                    *)
Reaped(c) == IF child[c] = "reaped" THEN 1 ELSE 0
Greeted(c) == IF child[c] \in {"zombie", "reaped"} THEN 1 ELSE 0

FamilyInv ==
    /\ parent \in {"fork", "waitpid", "Done", "failed", "returned"}
    /\ calls \in 0 .. 3
    /\ child \in [1 .. 3 -> {"none", "sleep", "zombie", "reaped"}]
    /\ output \in Seq({"child_of_parent", "child_of_another", "Done"})
    /\ parent = "fork" =>
          calls < 3 /\ \A c \in 1 .. 3 : (child[c] = "none" <=> c > calls) /\ child[c] # "reaped"
    /\ parent = "waitpid" =>
          calls = Reaped(1) + Reaped(2) + Reaped(3) /\ \A c \in 1 .. 3 : child[c] # "none"
    /\ parent \in {"Done", "returned"} => \A c \in 1 .. 3 : child[c] = "reaped"
    /\ parent # "returned" => Len(output) = Greeted(1) + Greeted(2) + Greeted(3)
    /\ parent \in {"fork", "waitpid", "Done"} =>
          \A k \in 1 .. Len(output) : output[k] = "child_of_parent"
    /\ parent = "returned" =>
          Len(output) = 4 /\ output[1] = "child_of_parent" /\ output[2] = "child_of_parent"
          /\ output[3] = "child_of_parent" /\ output[4] = "Done"

LEMMA FamilyStart == Family!Init => FamilyInv
  BY DEF Family!Init, Family!Child, FamilyInv, Greeted

LEMMA ForkKeepsFamilyInv == ASSUME FamilyInv, Family!Fork PROVE FamilyInv'
  <1>1. /\ calls \in 0 .. 2 /\ calls + 1 \in 1 .. 3
        /\ parent = "fork" /\ child' = [child EXCEPT ![calls + 1] = "sleep"]
        /\ calls' = (calls + 1) % 3 /\ output' = output
        /\ parent' = IF calls = 2 THEN "waitpid" ELSE "fork"
    BY DEF FamilyInv, Family!Fork
  <1>2. \A c \in 1 .. 3 : child'[c] = IF c = calls + 1 THEN "sleep" ELSE child[c]
    BY <1>1 DEF FamilyInv
  <1>3. child[calls + 1] = "none"
    BY <1>1 DEF FamilyInv
  <1>4. \A c \in 1 .. 3 : Greeted(c)' = Greeted(c) /\ Reaped(c)' = 0
    BY <1>1, <1>2, <1>3 DEF FamilyInv, Greeted, Reaped
  <1>5. CASE calls = 2
    BY <1>1, <1>2, <1>3, <1>4, <1>5 DEF FamilyInv
  <1>6. CASE calls \in 0 .. 1
    <2>1. calls' = calls + 1 /\ parent' = "fork"
      BY <1>1, <1>6
    <2> QED BY <1>1, <1>2, <1>3, <1>4, <1>6, <2>1 DEF FamilyInv
  <1> QED BY <1>1, <1>5, <1>6

LEMMA WaitKeepsFamilyInv == ASSUME FamilyInv, Family!Wait PROVE FamilyInv'
  <1>1. PICK c \in 1 .. 3 : child[c] = "zombie" /\ child' = [child EXCEPT ![c] = "reaped"]
    BY DEF Family!Wait, Family!Child
  <1>2. /\ parent = "waitpid" /\ calls' = calls + 1 /\ output' = output
        /\ parent' = IF calls = 2 THEN "Done" ELSE "waitpid"
    BY DEF Family!Wait
  <1>3. \A d \in 1 .. 3 : child'[d] = IF d = c THEN "reaped" ELSE child[d]
    BY <1>1 DEF FamilyInv
  <1>4. \A d \in 1 .. 3 : Greeted(d)' = Greeted(d)
    BY <1>1, <1>3 DEF Greeted
  <1>5. \A d \in 1 .. 3 : Reaped(d)' = IF d = c THEN Reaped(d) + 1 ELSE Reaped(d)
    BY <1>1, <1>3 DEF Reaped
  <1>6. /\ \A d \in 1 .. 3 : Reaped(d) \in 0 .. 1 /\ Reaped(d)' \in 0 .. 1
        /\ Reaped(c) = 0
        /\ calls = Reaped(1) + Reaped(2) + Reaped(3)
    BY <1>1, <1>2 DEF FamilyInv, Reaped
  <1>7. calls \in 0 .. 2 /\ calls' = Reaped(1)' + Reaped(2)' + Reaped(3)'
    <2>1. c = 1 \/ c = 2 \/ c = 3
      OBVIOUS
    <2> QED BY <1>2, <1>5, <1>6, <2>1
  <1>8. ASSUME calls = 2 PROVE \A d \in 1 .. 3 : child'[d] = "reaped"
    <2>1. Reaped(1)' = 1 /\ Reaped(2)' = 1 /\ Reaped(3)' = 1
      BY <1>2, <1>6, <1>7, <1>8
    <2>2. \A d \in 1 .. 3 : Reaped(d)' = 1
      BY <2>1
    <2> QED BY <2>2 DEF Reaped
  <1>9. child' \in [1 .. 3 -> {"none", "sleep", "zombie", "reaped"}]
    BY <1>1 DEF FamilyInv
  <1>10. \A d \in 1 .. 3 : child'[d] # "none"
    BY <1>2, <1>3 DEF FamilyInv
  <1> QED BY <1>2, <1>4, <1>7, <1>8, <1>9, <1>10 DEF FamilyInv

LEMMA GreetKeepsFamilyInv ==
    ASSUME FamilyInv, NEW c \in 1 .. 3, Family!Greet(c) PROVE FamilyInv'
  <1> DEFINE line == IF parent \in {"failed", "returned"} THEN "child_of_another"
                     ELSE "child_of_parent"
  <1>1. /\ child[c] = "sleep" /\ output' = Append(output, line)
        /\ child' = [child EXCEPT ![c] = "zombie"] /\ parent' = parent /\ calls' = calls
    BY DEF Family!Greet
  <1>2. \A d \in 1 .. 3 : child'[d] = IF d = c THEN "zombie" ELSE child[d]
    BY <1>1 DEF FamilyInv
  <1>3. parent \notin {"Done", "returned"}
    BY <1>1 DEF FamilyInv
  <1>4. \A d \in 1 .. 3 : Reaped(d)' = Reaped(d)
    BY <1>1, <1>2 DEF Reaped
  <1>5. \A d \in 1 .. 3 : /\ Greeted(d)' = IF d = c THEN Greeted(d) + 1 ELSE Greeted(d)
                          /\ Greeted(d) \in 0 .. 1
    BY <1>1, <1>2 DEF Greeted
  <1>6. /\ output' \in Seq({"child_of_parent", "child_of_another", "Done"})
        /\ Len(output') = Len(output) + 1
        /\ \A k \in 1 .. Len(output') : output'[k] = IF k = Len(output) + 1 THEN line
                                                     ELSE output[k]
    BY <1>1 DEF FamilyInv
  <1>7. Len(output') = Greeted(1)' + Greeted(2)' + Greeted(3)'
    <2>1. c = 1 \/ c = 2 \/ c = 3
      OBVIOUS
    <2>2. Len(output) = Greeted(1) + Greeted(2) + Greeted(3)
      BY <1>3 DEF FamilyInv
    <2> QED BY <1>5, <1>6, <2>1, <2>2
  <1>8. parent \in {"fork", "waitpid", "Done"} =>
            \A k \in 1 .. Len(output') : output'[k] = "child_of_parent"
    BY <1>6 DEF FamilyInv
  <1>9. child' \in [1 .. 3 -> {"none", "sleep", "zombie", "reaped"}]
    BY <1>1 DEF FamilyInv
  <1>10. \A d \in 1 .. 3 : (child'[d] = "none" <=> child[d] = "none")
                           /\ (child'[d] = "reaped" <=> child[d] = "reaped")
    BY <1>1, <1>2
  <1> HIDE DEF line
  <1> QED BY <1>1, <1>3, <1>4, <1>6, <1>7, <1>8, <1>9, <1>10 DEF FamilyInv

LEMMA DoneKeepsFamilyInv == ASSUME FamilyInv, Family!Done PROVE FamilyInv'
  <1>1. /\ parent = "Done" /\ output' = Append(output, "Done") /\ parent' = "returned"
        /\ calls' = calls /\ child' = child
    BY DEF Family!Done
  <1>2. Greeted(1) = 1 /\ Greeted(2) = 1 /\ Greeted(3) = 1
    BY <1>1 DEF FamilyInv, Greeted
  <1>3. Len(output) = 3 /\ \A k \in 1 .. 3 : output[k] = "child_of_parent"
    BY <1>1, <1>2 DEF FamilyInv
  <1>4. /\ output' \in Seq({"child_of_parent", "child_of_another", "Done"})
        /\ Len(output') = 4 /\ output'[4] = "Done"
        /\ output'[1] = output[1] /\ output'[2] = output[2] /\ output'[3] = output[3]
    <2>1. output \in Seq({"child_of_parent", "child_of_another", "Done"})
      BY DEF FamilyInv
    <2>2. /\ output' \in Seq({"child_of_parent", "child_of_another", "Done"})
          /\ Len(output') = Len(output) + 1 /\ output'[Len(output) + 1] = "Done"
          /\ \A k \in 1 .. Len(output) : output'[k] = output[k]
      BY <1>1, <2>1, AppendFacts
    <2> QED BY <1>3, <2>2
  <1> QED BY <1>1, <1>3, <1>4 DEF FamilyInv

(* The parent's line comes after those of its three children, as each call *)
(* of waitpid waits for another of them; and no child prints the pid of    *)
(* another process unless a fork has failed.                               *)
THEOREM ChildrenPrintFirst == Family!Spec => [](Family!TypeOK /\ Family!DoneIsLast)
  <1>1. Family!Init => FamilyInv
    BY FamilyStart
  <1>2. FamilyInv /\ [Family!Next]_Family!vars => FamilyInv'
    <2> SUFFICES ASSUME FamilyInv, [Family!Next]_Family!vars PROVE FamilyInv'
      OBVIOUS
    <2>1. CASE Family!CannotFork
      BY <2>1 DEF Family!CannotFork, FamilyInv, Greeted, Reaped
    <2>2. CASE UNCHANGED Family!vars
      BY <2>2 DEF Family!vars, FamilyInv, Greeted, Reaped
    <2> QED BY <2>1, <2>2, ForkKeepsFamilyInv, WaitKeepsFamilyInv, GreetKeepsFamilyInv,
               DoneKeepsFamilyInv DEF Family!Next, Family!Step, Family!Child
  <1>3. FamilyInv => Family!TypeOK /\ Family!DoneIsLast
    <2> SUFFICES ASSUME FamilyInv PROVE Family!TypeOK /\ Family!DoneIsLast
      OBVIOUS
    <2>1. Len(output) <= 4
      <3>1. /\ Greeted(1) = 0 \/ Greeted(1) = 1
            /\ Greeted(2) = 0 \/ Greeted(2) = 1
            /\ Greeted(3) = 0 \/ Greeted(3) = 1
        BY DEF Greeted
      <3>2. Greeted(1) + Greeted(2) + Greeted(3) \in 0 .. 3
        BY <3>1
      <3>3. Len(output) = 4 \/ Len(output) = Greeted(1) + Greeted(2) + Greeted(3)
        BY DEF FamilyInv
      <3>4. Len(output) = 4 \/ Len(output) \in 0 .. 3
        BY <3>2, <3>3, Zenon
      <3> QED BY <3>4
    <2>2. ASSUME parent = "returned"
          PROVE  output = [k \in 1 .. 4 |-> IF k = 4 THEN "Done" ELSE "child_of_parent"]
      <3>1. /\ output \in Seq({"child_of_parent", "child_of_another", "Done"})
            /\ Len(output) = 4 /\ output[1] = "child_of_parent"
            /\ output[2] = "child_of_parent" /\ output[3] = "child_of_parent"
            /\ output[4] = "Done"
        BY <2>2 DEF FamilyInv
      <3>2. DOMAIN output = 1 .. 4 /\ output = [k \in 1 .. 4 |-> output[k]]
        BY <3>1
      <3>3. \A k \in 1 .. 4 : output[k] = IF k = 4 THEN "Done" ELSE "child_of_parent"
        BY <3>1
      <3> QED BY <3>2, <3>3
    <2> QED BY <2>1, <2>2 DEF Family!TypeOK, Family!DoneIsLast, Family!Child, FamilyInv
  <1> QED BY <1>1, <1>2, <1>3, PTL DEF Family!Spec

-----------------------------------------------------------------------------
(* The rows of exercises/ex05.                                             *)
RowsConstants == Rounds \in Nat

(* The letters a thread has written are in the row, in their order.        *)
InRow(r, t, n) ==
    /\ n >= 1 => \E i \in 1 .. Len(r) : r[i] = Interleaved!Letters[t][1]
    /\ n = 2 => \E i, j \in 1 .. Len(r) :
                   i < j /\ r[i] = Interleaved!Letters[t][1] /\ r[j] = Interleaved!Letters[t][2]

Letter == {"a", "b", "c", "d", "e", "f"}

RowInv ==
    /\ round \in 0 .. Rounds /\ main \in 0 .. 6
    /\ round = Rounds => main < 3
    /\ written \in [1 .. 3 -> 0 .. 2]
    /\ row \in Seq(Letter)
    /\ Len(row) = written[1] + written[2] + written[3]
    /\ \A t \in 1 .. 3 : InRow(row, t, written[t])
    /\ \A t \in 1 .. 3 : main - 3 >= t => written[t] = 2
    /\ \A r \in rows : r \in Seq(Letter) /\ Len(r) = 6 /\ \A t \in 1 .. 3 : InRow(r, t, 2)

LEMMA LettersAre ==
    /\ Interleaved!Writer = 1 .. 3
    /\ \A t \in 1 .. 3 : \A n \in 1 .. 2 : Interleaved!Letters[t][n] \in Letter
  BY DEF Interleaved!Writer, Interleaved!Letters, Letter

LEMMA RowStart == RowsConstants /\ Interleaved!Init => RowInv
  BY LettersAre DEF RowsConstants, Interleaved!Init, RowInv, InRow

LEMMA WriteKeepsRowInv ==
    ASSUME RowsConstants, RowInv, NEW t \in 1 .. 3, Interleaved!Write(t) PROVE RowInv'
  <1> DEFINE c == Interleaved!Letters[t][written[t] + 1]
  <1>1. /\ written[t] \in 0 .. 1 /\ row' = Append(row, c)
        /\ written' = [written EXCEPT ![t] = @ + 1]
        /\ round' = round /\ main' = main /\ rows' = rows
    BY DEF RowInv, Interleaved!Write
  <1>2. c \in Letter
    BY <1>1, LettersAre
  <1>3. /\ row' \in Seq(Letter) /\ Len(row') = Len(row) + 1 /\ Len(row) \in Nat
        /\ \A k \in 1 .. Len(row) : row'[k] = row[k]
        /\ row'[Len(row) + 1] = c
    <2> HIDE DEF c
    <2> QED BY <1>1, <1>2 DEF RowInv
  <1>4. /\ written' \in [1 .. 3 -> 0 .. 2] /\ written'[t] = written[t] + 1
        /\ \A u \in 1 .. 3 : u # t => written'[u] = written[u]
    BY <1>1 DEF RowInv
  <1>5. Len(row') = written'[1] + written'[2] + written'[3]
    <2>1. t = 1 \/ t = 2 \/ t = 3
      OBVIOUS
    <2>2. \A u \in 1 .. 3 : written[u] \in 0 .. 2
      BY DEF RowInv
    <2> QED BY <1>3, <1>4, <2>1, <2>2 DEF RowInv
  <1>6. ASSUME NEW u \in 1 .. 3 PROVE InRow(row', u, written'[u])
    <2>1. InRow(row, u, written[u]) /\ written[u] \in 0 .. 2
      BY DEF RowInv
    <2>2. CASE u # t
      <3>1. written'[u] = written[u]
        BY <1>4, <2>2
      <3> HIDE DEF c
      <3> QED BY <1>3, <2>1, <3>1 DEF InRow
    <2>3. CASE u = t /\ written[t] = 0
      <3>1. c = Interleaved!Letters[u][1] /\ written'[u] = 1
        BY <1>4, <2>3
      <3> HIDE DEF c
      <3>2. Len(row) + 1 \in 1 .. Len(row')
        BY <1>3
      <3> QED BY <1>3, <3>1, <3>2 DEF InRow
    <2>4. CASE u = t /\ written[t] = 1
      <3>1. c = Interleaved!Letters[u][2] /\ written'[u] = 2
        BY <1>4, <2>4
      <3> HIDE DEF c
      <3>2. PICK i \in 1 .. Len(row) : row[i] = Interleaved!Letters[u][1]
        BY <2>1, <2>4 DEF InRow
      <3>3. /\ Len(row) + 1 \in 1 .. Len(row') /\ i \in 1 .. Len(row') /\ i < Len(row) + 1
            /\ row'[i] = Interleaved!Letters[u][1]
        BY <1>3, <3>2
      <3> QED BY <1>3, <3>1, <3>3 DEF InRow
    <2> QED BY <1>1, <2>2, <2>3, <2>4
  <1>7. \A u \in 1 .. 3 : main' - 3 >= u => written'[u] = 2
    BY <1>1, <1>4 DEF RowInv
  <1> HIDE DEF c
  <1> QED BY <1>1, <1>3, <1>4, <1>5, <1>6, <1>7 DEF RowInv

LEMMA EndRowKeepsRowInv ==
    ASSUME RowsConstants, RowInv, Interleaved!EndRow PROVE RowInv'
  <1>1. /\ main = 6 /\ rows' = rows \cup {row} /\ row' = <<>> /\ main' = 0
        /\ round' = round + 1 /\ written' = [t \in 1 .. 3 |-> 0]
    BY LettersAre DEF Interleaved!EndRow
  <1>2. \A t \in 1 .. 3 : written[t] = 2
    BY <1>1 DEF RowInv
  <1>3. row \in Seq(Letter) /\ Len(row) = 6 /\ \A t \in 1 .. 3 : InRow(row, t, 2)
    BY <1>2 DEF RowInv
  <1>4. \A r \in rows' : r \in Seq(Letter) /\ Len(r) = 6 /\ \A t \in 1 .. 3 : InRow(r, t, 2)
    BY <1>1, <1>3 DEF RowInv
  <1>5. /\ round' \in 0 .. Rounds /\ main' \in 0 .. 6
        /\ written' \in [1 .. 3 -> 0 .. 2] /\ \A t \in 1 .. 3 : written'[t] = 0
        /\ row' \in Seq(Letter) /\ Len(row') = 0
    BY <1>1 DEF RowInv, RowsConstants
  <1>6. \A t \in 1 .. 3 : InRow(row', t, written'[t])
    BY <1>5 DEF InRow
  <1> QED BY <1>1, <1>4, <1>5, <1>6 DEF RowInv

(* Every row that is written holds the six letters, those of one thread in *)
(* their order: main joins all three before it ends the row.               *)
THEOREM RowsAreComplete ==
    RowsConstants /\ Interleaved!Spec => [](Interleaved!TypeOK /\ Interleaved!RowsAreInterleavings)
  <1> SUFFICES ASSUME RowsConstants
               PROVE  Interleaved!Spec => [](Interleaved!TypeOK /\ Interleaved!RowsAreInterleavings)
    OBVIOUS
  <1>1. Interleaved!Init => RowInv
    BY RowStart
  <1>2. RowInv /\ [Interleaved!Next]_Interleaved!vars => RowInv'
    <2> SUFFICES ASSUME RowInv, [Interleaved!Next]_Interleaved!vars PROVE RowInv'
      OBVIOUS
    <2>1. CASE Interleaved!Create \/ Interleaved!CannotCreate
      <3>1. /\ round' \in 0 .. Rounds /\ main' \in 0 .. 6
            /\ \A t \in 1 .. 3 : main' - 3 >= t => main - 3 >= t
            /\ round' = Rounds => main' < 3
        BY <2>1 DEF Interleaved!Create, Interleaved!CannotCreate, RowInv, RowsConstants
      <3>2. UNCHANGED <<written, row, rows>>
        BY <2>1 DEF Interleaved!Create, Interleaved!CannotCreate
      <3> QED BY <3>1, <3>2 DEF RowInv
    <2>2. CASE Interleaved!Join
      <3>1. /\ main \in 3 .. 5 /\ main' = main + 1 /\ written[main - 2] = 2
            /\ UNCHANGED <<round, written, row, rows>>
        BY <2>2 DEF Interleaved!Join
      <3>2. main' \in 0 .. 6 /\ \A t \in 1 .. 3 : main' - 3 >= t => main - 3 >= t \/ t = main - 2
        BY <3>1
      <3> QED BY <3>1, <3>2 DEF RowInv
    <2>3. CASE UNCHANGED Interleaved!vars
      BY <2>3 DEF Interleaved!vars, RowInv
    <2> QED BY <2>1, <2>2, <2>3, EndRowKeepsRowInv, WriteKeepsRowInv, LettersAre DEF Interleaved!Next, Interleaved!Step
  <1>3. RowInv => Interleaved!TypeOK /\ Interleaved!RowsAreInterleavings
    <2> SUFFICES ASSUME RowInv PROVE Interleaved!TypeOK /\ Interleaved!RowsAreInterleavings
      OBVIOUS
    <2>1. ASSUME NEW r \in rows, NEW t \in 1 .. 3
          PROVE  \E i, j \in 1 .. 6 :
                    i < j /\ r[i] = Interleaved!Letters[t][1] /\ r[j] = Interleaved!Letters[t][2]
      <3>1. Len(r) = 6 /\ InRow(r, t, 2)
        BY DEF RowInv
      <3> QED BY <3>1 DEF InRow
    <2> QED BY <2>1, LettersAre DEF RowInv, Interleaved!TypeOK, Interleaved!RowsAreInterleavings
  <1> QED BY <1>1, <1>2, <1>3, PTL DEF Interleaved!Spec

-----------------------------------------------------------------------------
(* From neighbours to any two places of a sequence.                        *)
LEMMA Descending ==
    ASSUME NEW n \in Nat, NEW f, \A i \in 1 .. n : f[i] \in Int,
           \A i \in 2 .. n : f[i] <= f[i - 1]
    PROVE  \A a, b \in 1 .. n : a <= b => f[b] <= f[a]
  <1> DEFINE S == {d \in Nat : \A a \in 1 .. n : a + d <= n => f[a + d] <= f[a]}
  <1>1. 0 \in S
    <2>1. \A a \in 1 .. n : a + 0 = a /\ f[a] <= f[a]
      OBVIOUS
    <2> QED BY <2>1
  <1>2. ASSUME NEW d \in Nat, d \in S PROVE d + 1 \in S
    <2> SUFFICES ASSUME NEW a \in 1 .. n, a + (d + 1) <= n
                 PROVE  f[a + (d + 1)] <= f[a]
      OBVIOUS
    <2>1. /\ a + (d + 1) \in 2 .. n /\ a + (d + 1) - 1 = a + d /\ a + d \in 1 .. n
      OBVIOUS
    <2>2. f[a + (d + 1)] <= f[a + d] /\ f[a + d] <= f[a]
      BY <1>2, <2>1
    <2>3. f[a + (d + 1)] \in Int /\ f[a + d] \in Int /\ f[a] \in Int
      BY <2>1
    <2> QED BY <2>2, <2>3
  <1> HIDE DEF S
  <1>3. Nat \subseteq S
    BY <1>1, <1>2, NatSetInduction
  <1>4. ASSUME NEW a \in 1 .. n, NEW b \in 1 .. n, a <= b PROVE f[b] <= f[a]
    <2>1. b - a \in Nat /\ a + (b - a) = b
      BY <1>4
    <2>2. b - a \in S
      BY <1>3, <2>1
    <2> QED BY <2>1, <2>2 DEF S
  <1> QED BY <1>4

-----------------------------------------------------------------------------
(* The list of processes of hw7.                                           *)
ListConstants == Pid \subseteq Nat \ {0} /\ MAX_PROC_NUM \in Nat /\ ScreenRows \in Nat

Listed(p) == \E i \in 1 .. Len(procs) : procs[i] = p
Named(p) == \E i \in 1 .. Len(names) : names[i] = p

(* The names and the pids listed come in the order of the pids.            *)
InPidOrder ==
    /\ Len(names) <= 2
    /\ Len(names) = 2 => names[1] < names[2]
    /\ \A i \in 1 .. Len(names) : names[i] <= cursor
    /\ \A i \in 1 .. Len(procs) :
          /\ procs[i] <= cursor
          /\ \A k \in 1 .. Len(names) : procs[i] < names[k]
          /\ \A k \in 1 .. Len(procs) : i < k => procs[i] < procs[k]

ListInv ==
    /\ ProcessList!TypeOK
    /\ phase # "done" => InPidOrder
    /\ phase = "scan" =>
          \A p \in stayed : memsize[p] > 0 /\ p <= cursor => Listed(p) \/ Named(p)
    /\ phase = "print" =>
          (Len(procs) < MAX_PROC_NUM => \A p \in stayed : memsize[p] > 0 => Listed(p))
    /\ ProcessList!ListIsComplete

LEMMA ListStart == ListConstants /\ ProcessList!Init => ListInv
  <1> SUFFICES ASSUME ListConstants, ProcessList!Init PROVE ListInv
    OBVIOUS
  <1>1. /\ memsize \in [Pid -> 0 .. 2] /\ stayed = alive /\ alive \subseteq Pid /\ cursor = 0
        /\ names = <<>> /\ procs = <<>> /\ shown = <<>> /\ phase = "scan"
    BY DEF ProcessList!Init
  <1>2. ProcessList!TypeOK
    BY <1>1 DEF ListConstants, ProcessList!TypeOK
  <1>3. InPidOrder
    BY <1>1 DEF InPidOrder
  <1>4. \A p \in stayed : ~(p <= cursor)
    BY <1>1 DEF ListConstants
  <1>5. ProcessList!ListIsComplete
    BY <1>1 DEF ProcessList!ListIsComplete, ProcessList!Ended
  <1> QED BY <1>1, <1>2, <1>3, <1>4, <1>5 DEF ListInv

(* Until the list is done there is nothing to say of what is shown.        *)
LEMMA NotYetDone == phase # "done" => ProcessList!ListIsComplete
  BY DEF ProcessList!ListIsComplete, ProcessList!Ended

LEMMA NotYetDoneNext == (phase # "done" => ProcessList!ListIsComplete)'
  BY NotYetDone, PTL

LEMMA WorldKeepsListInv ==
    ASSUME ListConstants, ListInv, NEW p \in Pid,
           ProcessList!StartProcess(p) \/ ProcessList!EndProcess(p)
    PROVE  ListInv'
  <1>1. /\ phase = "scan" /\ UNCHANGED <<memsize, cursor, names, procs, shown, phase>>
        /\ stayed' \subseteq stayed /\ alive' \subseteq Pid /\ stayed' \subseteq alive'
    BY DEF ListInv, ProcessList!TypeOK, ProcessList!StartProcess, ProcessList!EndProcess
  <1>2. ProcessList!TypeOK'
    BY <1>1 DEF ListInv, ProcessList!TypeOK
  <1>3. InPidOrder'
    BY <1>1 DEF ListInv, InPidOrder
  <1>4. \A q \in stayed' : memsize'[q] > 0 /\ q <= cursor' => Listed(q)' \/ Named(q)'
    BY <1>1 DEF ListInv, Listed, Named
  <1> QED BY <1>1, <1>2, <1>3, <1>4, NotYetDoneNext DEF ListInv

LEMMA FillKeepsListInv ==
    ASSUME ListConstants, ListInv, ProcessList!FillNames PROVE ListInv'
  <1>1. /\ phase = "scan" /\ names = <<>> /\ Len(procs) < MAX_PROC_NUM
        /\ UNCHANGED <<memsize, alive, stayed, procs, shown, phase>>
    BY DEF ProcessList!FillNames, ProcessList!Scanning, ProcessList!world
  <1>2. PICK p \in alive :
            /\ p > cursor /\ \A q \in alive : q > cursor => p <= q
            /\ \/ names' = <<p>> /\ cursor' = p
               \/ \E q \in alive : /\ q > p /\ \A r \in alive : r > p => q <= r
                                   /\ names' = <<p, q>> /\ cursor' = q
    BY DEF ProcessList!FillNames
  <1>3. /\ alive \subseteq Pid /\ stayed \subseteq alive /\ p \in Pid
        /\ cursor \in Nat /\ \A q \in Pid : q \in Nat
        /\ \A i \in 1 .. Len(procs) : procs[i] \in Pid
    BY DEF ListConstants, ListInv, ProcessList!TypeOK
  <1>4. InPidOrder
    BY <1>1 DEF ListInv
  <1>5. ASSUME names' = <<p>>, cursor' = p PROVE ListInv'
    <2>1. ProcessList!TypeOK'
      BY <1>1, <1>3, <1>5 DEF ListInv, ProcessList!TypeOK
    <2>2. Len(names') = 1 /\ names'[1] = p
      BY <1>5
    <2>3. InPidOrder'
      BY <1>1, <1>2, <1>3, <1>4, <1>5, <2>2 DEF InPidOrder
    <2>4. ASSUME NEW q \in stayed', memsize'[q] > 0, q <= cursor' PROVE Listed(q)' \/ Named(q)'
      <3>1. CASE q <= cursor
        <4>1. Listed(q)
          BY <1>1, <2>4, <3>1 DEF ListInv, Named
        <4> QED BY <1>1, <4>1 DEF Listed
      <3>2. CASE ~(q <= cursor)
        <4>1. q = p
          BY <1>1, <1>2, <1>3, <1>5, <2>4, <3>2
        <4> QED BY <2>2, <4>1 DEF Named
      <3> QED BY <3>1, <3>2
    <2> QED BY <1>1, <2>1, <2>3, <2>4, NotYetDoneNext DEF ListInv
  <1>6. ASSUME NEW q \in alive, q > p, \A r \in alive : r > p => q <= r,
               names' = <<p, q>>, cursor' = q
        PROVE  ListInv'
    <2>1. ProcessList!TypeOK'
      BY <1>1, <1>3, <1>6 DEF ListInv, ProcessList!TypeOK
    <2>2. Len(names') = 2 /\ names'[1] = p /\ names'[2] = q
      BY <1>6
    <2>3. InPidOrder'
      BY <1>1, <1>2, <1>3, <1>4, <1>6, <2>2 DEF InPidOrder
    <2>4. ASSUME NEW t \in stayed', memsize'[t] > 0, t <= cursor' PROVE Listed(t)' \/ Named(t)'
      <3>1. CASE t <= cursor
        <4>1. Listed(t)
          BY <1>1, <2>4, <3>1 DEF ListInv, Named
        <4> QED BY <1>1, <4>1 DEF Listed
      <3>2. CASE ~(t <= cursor)
        <4>1. t = p \/ t = q
          BY <1>1, <1>2, <1>3, <1>6, <2>4, <3>2
        <4> QED BY <2>2, <4>1 DEF Named
      <3> QED BY <3>1, <3>2
    <2> QED BY <1>1, <2>1, <2>3, <2>4, NotYetDoneNext DEF ListInv
  <1> QED BY <1>2, <1>5, <1>6

LEMMA LookKeepsListInv ==
    ASSUME ListConstants, ListInv, ProcessList!Look PROVE ListInv'
  <1> DEFINE n == Head(names)
  <1>1. /\ phase = "scan" /\ names # <<>> /\ Len(procs) < MAX_PROC_NUM
        /\ names' = Tail(names) /\ UNCHANGED <<memsize, alive, stayed, cursor, shown, phase>>
        /\ procs' = IF n \in alive /\ memsize[n] > 0 THEN Append(procs, n) ELSE procs
    BY DEF ProcessList!Look, ProcessList!Scanning, ProcessList!world
  <1>2. /\ names \in Seq(Pid) /\ procs \in Seq(Pid) /\ stayed \subseteq alive /\ cursor \in Nat
        /\ alive \subseteq Pid /\ \A q \in Pid : q \in Nat
    BY DEF ListConstants, ListInv, ProcessList!TypeOK
  <1>3. InPidOrder
    BY <1>1 DEF ListInv
  <1>4. /\ n = names[1] /\ n \in Pid /\ Len(names) \in 1 .. 2
        /\ names' \in Seq(Pid) /\ Len(names') = Len(names) - 1
        /\ Len(names) = 2 => names'[1] = names[2]
    <2>1. n = names[1] /\ n \in Pid
      BY <1>1, <1>2
    <2>2. Len(names) \in Nat /\ Len(names) # 0 /\ Len(names) <= 2
      BY <1>1, <1>2, <1>3 DEF InPidOrder
    <2>3. names' \in Seq(Pid) /\ Len(names') = Len(names) - 1
      BY <1>1, <1>2
    <2>4. Len(names) = 2 => names'[1] = names[2]
      <3>1. names' = Tail(names) /\ names \in Seq(Pid)
        BY <1>1, <1>2
      <3> HIDE DEF n
      <3>3. Len(names) # 0 /\ names \in Seq(Pid)
        BY <2>2, <3>1
      <3>4. \A k \in 1 .. Len(names) - 1 : Tail(names)[k] = names[k + 1]
        BY <3>3, TailFacts
      <3>5. Len(names) = 2 => 1 \in 1 .. Len(names) - 1 /\ 1 + 1 = 2
        OBVIOUS
      <3>2. Len(names) = 2 => Tail(names)[1] = names[2]
        BY <3>4, <3>5, Zenon
      <3> QED BY <3>1, <3>2, Zenon
    <2> QED BY <2>1, <2>2, <2>3, <2>4
  <1> HIDE DEF n
  <1>5. /\ procs' \in Seq(Pid) /\ Len(procs') \in Len(procs) .. Len(procs) + 1
        /\ \A i \in 1 .. Len(procs) : procs'[i] = procs[i]
        /\ Len(procs) \in Nat
        /\ Len(procs') = Len(procs) + 1 => procs'[Len(procs) + 1] = n
        /\ n \in alive /\ memsize[n] > 0 => Len(procs') = Len(procs) + 1
    BY <1>1, <1>2, <1>4
  <1>6. ProcessList!TypeOK'
    <2>1. Len(procs') <= MAX_PROC_NUM
      BY <1>1, <1>5 DEF ListConstants
    <2> QED BY <1>1, <1>4, <1>5, <2>1 DEF ListInv, ProcessList!TypeOK
  <1>7. InPidOrder'
    <2>1. /\ Len(names') <= 2 /\ Len(names') # 2
          /\ \A i \in 1 .. Len(names') : i = 1 /\ Len(names) = 2 /\ names'[i] = names[2]
      <3>1. Len(names') \in 0 .. 1 /\ (Len(names') # 0 => Len(names) = 2)
        BY <1>4
      <3>2. \A i \in 1 .. Len(names') : i = 1 /\ Len(names') # 0
        BY <3>1
      <3> QED BY <1>4, <3>1, <3>2
    <2>2. /\ n <= cursor /\ \A i \in 1 .. Len(procs) : procs[i] < n /\ procs[i] <= cursor
          /\ Len(names) = 2 => names[2] <= cursor /\ n < names[2]
                               /\ \A i \in 1 .. Len(procs) : procs[i] < names[2]
      BY <1>3, <1>4 DEF InPidOrder
    <2>3. \A i \in 1 .. Len(names') : names'[i] <= cursor'
      BY <1>1, <2>1, <2>2
    <2>4. \A i \in 1 .. Len(procs') : (i \in 1 .. Len(procs) /\ procs'[i] = procs[i])
                                      \/ (i = Len(procs) + 1 /\ procs'[i] = n)
      BY <1>5
    <2>5. ASSUME NEW i \in 1 .. Len(procs')
          PROVE  /\ procs'[i] <= cursor'
                 /\ \A k \in 1 .. Len(names') : procs'[i] < names'[k]
      BY <1>1, <2>1, <2>2, <2>4
    <2>6. ASSUME NEW i \in 1 .. Len(procs'), NEW k \in 1 .. Len(procs'), i < k
          PROVE  procs'[i] < procs'[k]
      <3>1. i \in 1 .. Len(procs) /\ procs'[i] = procs[i]
        BY <1>5, <2>4, <2>6
      <3>2. CASE k \in 1 .. Len(procs) /\ procs'[k] = procs[k]
        BY <1>3, <2>6, <3>1, <3>2 DEF InPidOrder
      <3>3. CASE procs'[k] = n
        BY <2>2, <3>1, <3>3
      <3> QED BY <2>4, <3>2, <3>3
    <2> QED BY <2>1, <2>3, <2>5, <2>6 DEF InPidOrder
  <1>8. ASSUME NEW p \in stayed', memsize'[p] > 0, p <= cursor' PROVE Listed(p)' \/ Named(p)'
    <2>1. p \in stayed /\ (Listed(p) \/ Named(p)) /\ memsize[p] > 0
      BY <1>1, <1>8 DEF ListInv
    <2>2. CASE Listed(p)
      <3>1. Listed(p)'
        BY <1>5, <2>2 DEF Listed
      <3> QED BY <3>1
    <2>3. CASE Named(p)
      <3>1. PICK i \in 1 .. Len(names) : names[i] = p
        BY <2>3 DEF Named
      <3>2. CASE i = 1
        <4>1. n = p /\ n \in alive /\ memsize[n] > 0
          BY <1>2, <1>4, <2>1, <3>1, <3>2
        <4>2. Len(procs) + 1 \in 1 .. Len(procs') /\ procs'[Len(procs) + 1] = p
          BY <1>5, <4>1
        <4> QED BY <4>2 DEF Listed
      <3>3. CASE i = 2
        <4>1. 1 \in 1 .. Len(names') /\ names'[1] = p
          BY <1>4, <3>1, <3>3
        <4> QED BY <4>1 DEF Named
      <3> QED BY <1>4, <3>2, <3>3
    <2> QED BY <2>1, <2>2, <2>3
  <1> QED BY <1>1, <1>6, <1>7, <1>8, NotYetDoneNext DEF ListInv

LEMMA CloseKeepsListInv ==
    ASSUME ListConstants, ListInv, ProcessList!CloseDir PROVE ListInv'
  <1>1. /\ phase = "scan" /\ phase' = "print"
        /\ Len(procs) = MAX_PROC_NUM \/ (names = <<>> /\ \A p \in alive : p <= cursor)
        /\ UNCHANGED <<memsize, alive, stayed, cursor, names, procs, shown>>
    BY DEF ProcessList!CloseDir, ProcessList!world
  <1>2. ProcessList!TypeOK'
    BY <1>1 DEF ListInv, ProcessList!TypeOK
  <1>3. InPidOrder'
    BY <1>1 DEF ListInv, InPidOrder
  <1>4. ASSUME Len(procs') < MAX_PROC_NUM, NEW p \in stayed', memsize'[p] > 0 PROVE Listed(p)'
    <2>1. names = <<>> /\ p <= cursor
      BY <1>1, <1>4 DEF ListInv, ProcessList!TypeOK, ListConstants
    <2>2. Listed(p)
      BY <1>1, <1>4, <2>1 DEF ListInv, Named
    <2> QED BY <1>1, <2>2 DEF Listed
  <1> QED BY <1>1, <1>2, <1>3, <1>4, NotYetDoneNext DEF ListInv

LEMMA OutputKeepsListInv ==
    ASSUME ListConstants, ListInv, ProcessList!OutputProc PROVE ListInv'
  <1>1. /\ phase = "print" /\ phase' = "done"
        /\ UNCHANGED <<memsize, alive, stayed, cursor, names>>
    BY DEF ProcessList!OutputProc, ProcessList!world
  <1>2. PICK sorted \in [1 .. Len(procs) -> Pid] :
            /\ {sorted[i] : i \in DOMAIN sorted} = {procs[i] : i \in DOMAIN procs}
            /\ \A i \in 2 .. Len(procs) : memsize[sorted[i]] <= memsize[sorted[i - 1]]
            /\ procs' = sorted
            /\ shown' = SubSeq(sorted, 1, IF Len(procs) < ScreenRows THEN Len(procs) ELSE ScreenRows)
    BY DEF ProcessList!OutputProc
  <1> DEFINE n == Len(procs)
             m == IF n < ScreenRows THEN n ELSE ScreenRows
  <1>3. procs \in Seq(Pid) /\ n \in Nat /\ n <= MAX_PROC_NUM /\ memsize \in [Pid -> 0 .. 2]
    BY DEF ListInv, ProcessList!TypeOK
  <1>4. DOMAIN procs = 1 .. n /\ DOMAIN sorted = 1 .. n
    BY <1>3
  <1>5. sorted \in Seq(Pid) /\ Len(sorted) = n
    BY <1>2, <1>3
  <1>6. m \in 0 .. n /\ (m = n \/ m = ScreenRows) /\ m <= ScreenRows
    BY <1>3 DEF ListConstants
  <1>7. /\ shown' \in Seq(Pid) /\ Len(shown') = m /\ DOMAIN shown' = 1 .. m
        /\ \A i \in 1 .. m : shown'[i] = sorted[i]
    <2> HIDE DEF m, n
    <2>1. shown' = SubSeq(sorted, 1, m)
      BY <1>2 DEF m, n
    <2> QED BY <1>5, <1>6, <2>1
  <1>8. ProcessList!TypeOK'
    BY <1>1, <1>2, <1>3, <1>5, <1>7 DEF ListInv, ProcessList!TypeOK
  <1>9. FirstOf(sorted, n) = FirstOf(procs, n)
    BY <1>2, <1>4 DEF FirstOf
  <1> HIDE DEF n, m
  <1>10. Cardinality(FirstOf(procs, n)) = n
    <2>1. \A a, b \in 1 .. n : a < b => procs[a] < procs[b]
      BY <1>1 DEF ListInv, InPidOrder, n
    <2>2. \A a \in 1 .. n : procs[a] \in Nat
      BY <1>3, <1>4 DEF ListConstants, n
    <2>3. \A a, b \in 1 .. n : procs[a] = procs[b] => a = b
      <3> SUFFICES ASSUME NEW a \in 1 .. n, NEW b \in 1 .. n, procs[a] = procs[b], a # b
                   PROVE  FALSE
        OBVIOUS
      <3>1. a < b \/ b < a
        BY <1>3
      <3> QED BY <2>1, <2>2, <3>1
    <2> QED BY <1>3, <2>3, InjectiveCounts
  <1>11. \A a, b \in 1 .. n : sorted[a] = sorted[b] => a = b
    BY <1>3, <1>9, <1>10, CountedIsInjective
  <1>12. Cardinality(FirstOf(sorted, m)) = m
    <2>1. \A a, b \in 1 .. m : sorted[a] = sorted[b] => a = b
      BY <1>3, <1>6, <1>11
    <2> QED BY <1>3, <1>6, <2>1, InjectiveCounts
  <1>13. \A a, b \in 1 .. n : a <= b => memsize[sorted[b]] <= memsize[sorted[a]]
    <2> DEFINE size == [i \in 1 .. n |-> memsize[sorted[i]]]
    <2>1. \A i \in 1 .. n : size[i] \in Int
      BY <1>2, <1>3, <1>4
    <2>2. \A i \in 2 .. n : size[i] <= size[i - 1]
      BY <1>2, <1>3 DEF n
    <2>3. \A a, b \in 1 .. n : a <= b => size[b] <= size[a]
      <3> HIDE DEF size
      <3> QED BY <1>3, <2>1, <2>2, Descending
    <2> QED BY <2>3
  <1>14. ProcessList!ListIsComplete'
    <2> DEFINE counted == {procs[i] : i \in DOMAIN procs}
               printed == {shown[i] : i \in DOMAIN shown}
    <2>1. counted' = FirstOf(procs, n) /\ counted' = FirstOf(sorted, n)
      BY <1>2, <1>4, <1>9 DEF FirstOf
    <2>2. printed' = FirstOf(sorted, m)
      BY <1>7 DEF FirstOf
    <2>3. Len(procs') = n /\ m = IF ScreenRows < n THEN ScreenRows ELSE n
      BY <1>2, <1>3, <1>5 DEF m, ListConstants
    <2>4. n < MAX_PROC_NUM => {p \in stayed' : memsize'[p] > 0} \subseteq counted'
      BY <1>1, <2>1 DEF ListInv, Listed, FirstOf, n
    <2>5. ASSUME NEW p \in printed', NEW q \in counted' \ printed' PROVE memsize'[p] >= memsize'[q]
      <3> HIDE DEF counted, printed
      <3>1. PICK a \in 1 .. m : sorted[a] = p
        BY <2>2, <2>5 DEF FirstOf
      <3>2. PICK b \in 1 .. n : sorted[b] = q
        BY <2>1, <2>5 DEF FirstOf
      <3>3. ~(b \in 1 .. m)
        BY <2>2, <2>5, <3>2 DEF FirstOf
      <3>4. a \in 1 .. n /\ a <= b
        BY <1>3, <1>6, <3>1, <3>2, <3>3
      <3>5. memsize[q] <= memsize[p]
        BY <1>13, <3>1, <3>2, <3>4
      <3>6. p \in Pid /\ q \in Pid
        BY <3>1, <3>2, <3>4, <1>4
      <3> QED BY <1>1, <1>3, <3>5, <3>6
    <2>6. Cardinality(counted') = Len(procs')
      BY <1>10, <2>1, <2>3
    <2>7. Cardinality(printed') = IF ScreenRows < Len(procs') THEN ScreenRows ELSE Len(procs')
      BY <1>12, <2>2, <2>3
    <2>8. Len(procs') < MAX_PROC_NUM => {p \in stayed' : memsize'[p] > 0} \subseteq counted'
      BY <2>3, <2>4
    <2>9. ProcessList!Cardinality(counted') = Cardinality(counted')
          /\ ProcessList!Cardinality(printed') = Cardinality(printed')
      BY DEF ProcessList!Cardinality, Cardinality
    <2> QED BY <2>5, <2>6, <2>7, <2>8, <2>9 DEF ProcessList!ListIsComplete
  <1> QED BY <1>1, <1>8, <1>14 DEF ListInv

(* A process that was there all the time is in the list, however others    *)
(* start and end during the scan, unless the table is full; nothing is     *)
(* counted twice; and the rows printed are the largest.                    *)
THEOREM ListIsAlwaysComplete ==
    ListConstants /\ ProcessList!Spec => [](ProcessList!TypeOK /\ ProcessList!ListIsComplete)
  <1> SUFFICES ASSUME ListConstants
               PROVE  ProcessList!Spec => [](ProcessList!TypeOK /\ ProcessList!ListIsComplete)
    OBVIOUS
  <1>1. ProcessList!Init => ListInv
    BY ListStart
  <1>2. ListInv /\ [ProcessList!Next]_ProcessList!vars => ListInv'
    <2>1. ASSUME ListInv, UNCHANGED ProcessList!vars PROVE ListInv'
      <3>1. UNCHANGED <<memsize, alive, stayed, cursor, names, procs, shown, phase>>
        BY <2>1 DEF ProcessList!vars, ProcessList!world
      <3> QED BY <2>1, <3>1
              DEF ListInv, ProcessList!TypeOK, InPidOrder, Listed, Named,
                  ProcessList!ListIsComplete, ProcessList!Ended
    <2> QED BY <2>1, WorldKeepsListInv, FillKeepsListInv, LookKeepsListInv, CloseKeepsListInv,
               OutputKeepsListInv DEF ProcessList!Next, ProcessList!Step
  <1>3. ListInv => ProcessList!TypeOK /\ ProcessList!ListIsComplete
    BY DEF ListInv
  <1> QED BY <1>1, <1>2, <1>3, PTL DEF ProcessList!Spec

-----------------------------------------------------------------------------
(* The header and the body of a response.                                  *)
HttpConstants == MaxResponse \in Nat /\ BufferSize \in Nat

(* An empty line ends at byte e.                                           *)
EndsAt(e) == SubSeq(response, e - 3, e) = Http!CRLFCRLF

(* The last four bytes of the header; "0" is what is there before the first. *)
Window == \A m \in 1 .. 4 : last4[m] = IF done + m <= 4 THEN "0" ELSE response[done + m - 4]

HttpInv ==
    /\ response \in Seq(Byte)
    /\ taken \in 0 .. Len(response) /\ done \in 0 .. taken
    /\ last4 \in Seq(Byte \cup {"0"}) /\ Len(last4) = 4
    /\ inHeader \in BOOLEAN
    /\ inHeader => /\ Window
                   /\ \A e \in 4 .. done : ~EndsAt(e)
                   /\ stderr = SubSeq(response, 1, done) /\ stdout = <<>>
    /\ ~inHeader => \E e \in 4 .. done :
                       /\ EndsAt(e) /\ \A d \in 4 .. done : EndsAt(d) => e <= d
                       /\ stderr = SubSeq(response, 1, e)
                       /\ stdout = SubSeq(response, e + 1, done)

LEMMA HttpStart == HttpConstants /\ Http!Init => HttpInv
  <1> SUFFICES ASSUME HttpConstants, Http!Init PROVE HttpInv
    OBVIOUS
  <1>1. PICK n \in 0 .. MaxResponse : response \in [1 .. n -> Byte]
    BY DEF Http!Init
  <1>2. response \in Seq(Byte) /\ Len(response) \in Nat
    BY <1>1 DEF HttpConstants
  <1>3. /\ taken = 0 /\ done = 0 /\ last4 = <<"0", "0", "0", "0">> /\ inHeader = TRUE
        /\ stderr = <<>> /\ stdout = <<>>
    BY DEF Http!Init
  <1>4. last4 \in Seq(Byte \cup {"0"}) /\ Len(last4) = 4
    BY <1>3
  <1>5. Window
    BY <1>3 DEF Window
  <1>6. stderr = SubSeq(response, 1, done)
    BY <1>2, <1>3
  <1> QED BY <1>2, <1>3, <1>4, <1>5, <1>6 DEF HttpInv

LEMMA ReadKeepsHttpInv ==
    ASSUME HttpConstants, HttpInv, Http!Read PROVE HttpInv'
  <1>1. PICK n \in 1 .. BufferSize : taken + n <= Len(response) /\ taken' = taken + n
    BY DEF Http!Read
  <1>2. UNCHANGED <<response, done, last4, inHeader, stderr, stdout>>
    BY DEF Http!Read
  <1>3. taken' \in 0 .. Len(response) /\ done \in 0 .. taken'
    BY <1>1 DEF HttpInv, HttpConstants
  <1> QED BY <1>2, <1>3 DEF HttpInv, Window, EndsAt

(* A prefix and a later part of the response, one byte longer.             *)
LEMMA LongerPart ==
    ASSUME NEW S, NEW s \in Seq(S), NEW a \in 1 .. Len(s) + 1, NEW b \in 0 .. Len(s),
           a <= b + 1, b + 1 <= Len(s)
    PROVE  Append(SubSeq(s, a, b), s[b + 1]) = SubSeq(s, a, b + 1)
  <1>1. SubSeq(s, a, b) \in Seq(S) /\ Len(SubSeq(s, a, b)) = b - a + 1
        /\ \A m \in 1 .. b - a + 1 : SubSeq(s, a, b)[m] = s[a + m - 1]
    OBVIOUS
  <1>2. SubSeq(s, a, b + 1) \in Seq(S) /\ Len(SubSeq(s, a, b + 1)) = b + 1 - a + 1
        /\ \A m \in 1 .. b + 1 - a + 1 : SubSeq(s, a, b + 1)[m] = s[a + m - 1]
    OBVIOUS
  <1>3. s[b + 1] \in S
    OBVIOUS
  <1> DEFINE t == SubSeq(s, a, b)
             u == SubSeq(s, a, b + 1)
             v == Append(t, s[b + 1])
  <1>4. v \in Seq(S) /\ Len(v) = Len(t) + 1 /\ v[Len(t) + 1] = s[b + 1]
        /\ \A m \in 1 .. Len(t) : v[m] = t[m]
    BY <1>1, <1>3, AppendFacts
  <1> HIDE DEF v, t, u
  <1>5. Len(v) = Len(u)
    BY <1>1, <1>2, <1>4 DEF t, u
  <1>6. ASSUME NEW m \in 1 .. Len(v) PROVE v[m] = u[m]
    <2>1. CASE m \in 1 .. b - a + 1
      BY <1>1, <1>2, <1>4, <2>1 DEF t, u
    <2>2. CASE m = b - a + 2
      <3>1. v[m] = s[b + 1]
        BY <1>1, <1>4, <2>2 DEF t
      <3>2. u[m] = s[a + m - 1] /\ a + m - 1 = b + 1
        BY <1>2, <2>2 DEF u
      <3> QED BY <3>1, <3>2
    <2> QED BY <1>1, <1>4, <2>1, <2>2 DEF t
  <1>7. v = u
    BY <1>2, <1>4, <1>5, <1>6, SameSequence DEF u
  <1> QED BY <1>7 DEF u, v, t

LEMMA FirstIsNotZero == "0" # "\r"
  BY Zenon

(* The window is the end of an empty line when four bytes are.             *)
LEMMA WindowEnds ==
    ASSUME HttpConstants, response \in Seq(Byte), NEW h \in 1 .. Len(response), NEW w,
           w \in Seq(Byte \cup {"0"}), Len(w) = 4,
           \A m \in 1 .. 4 : w[m] = IF h + m <= 4 THEN "0" ELSE response[h + m - 4]
    PROVE  w = Http!CRLFCRLF <=> h >= 4 /\ EndsAt(h)
  <1>1. CASE h < 4
    <2>1. w[1] = "0"
      BY <1>1
    <2>2. Http!CRLFCRLF[1] = "\r"
      BY DEF Http!CRLFCRLF
    <2>3. w # Http!CRLFCRLF
      BY <2>1, <2>2, FirstIsNotZero, Zenon
    <2> QED BY <1>1, <2>3
  <1>2. CASE h >= 4
    <2> DEFINE part == SubSeq(response, h - 3, h)
    <2>1. part \in Seq(Byte) /\ Len(part) = 4 /\ \A m \in 1 .. 4 : part[m] = response[h - 3 + m - 1]
      BY <1>2
    <2>2. \A m \in 1 .. 4 : h - 3 + m - 1 = h + m - 4 /\ ~(h + m <= 4)
      BY <1>2
    <2> HIDE DEF part
    <2>3. \A m \in 1 .. 4 : w[m] = part[m]
      BY <2>1, <2>2
    <2>4. part \in Seq(Byte \cup {"0"})
      BY <2>1
    <2>5. w = part
      BY <2>1, <2>3, <2>4, SameSequence
    <2> QED BY <1>2, <2>5 DEF EndsAt, part
  <1> QED BY <1>1, <1>2

LEMMA PutKeepsHttpInv ==
    ASSUME HttpConstants, HttpInv, Http!Put PROVE HttpInv'
  <1> DEFINE c == response[done + 1]
             h == done + 1
  <1>1. /\ done < taken /\ done' = done + 1 /\ UNCHANGED <<response, taken>>
        /\ inHeader => /\ stderr' = Append(stderr, c) /\ UNCHANGED stdout
                       /\ last4' = Append(Tail(last4), c)
                       /\ inHeader' = (last4' # Http!CRLFCRLF)
        /\ ~inHeader => stdout' = Append(stdout, c) /\ UNCHANGED <<last4, inHeader, stderr>>
    BY DEF Http!Put, Http!Recent
  <1>2. /\ response \in Seq(Byte) /\ Len(response) \in Nat /\ h \in 1 .. Len(response)
        /\ taken \in 0 .. Len(response) /\ done \in Nat /\ done' \in 0 .. taken
        /\ c \in Byte
    BY <1>1 DEF HttpInv
  <1>3. inHeader' \in BOOLEAN
    BY <1>1 DEF HttpInv
  <1>4. CASE inHeader
    <2>1. /\ Window /\ (\A e \in 4 .. done : ~EndsAt(e)) /\ last4 \in Seq(Byte \cup {"0"})
          /\ stderr = SubSeq(response, 1, done) /\ stdout = <<>> /\ Len(last4) = 4
      BY <1>4 DEF HttpInv
    <2> DEFINE t == Tail(last4)
    <2>20. Len(last4) # 0
      BY <2>1
    <2>21. t \in Seq(Byte \cup {"0"}) /\ Len(t) = Len(last4) - 1
           /\ \A m \in 1 .. Len(last4) - 1 : t[m] = last4[m + 1]
      BY <2>1, <2>20, TailFacts
    <2>22. Len(last4) - 1 = 3
      BY <2>1
    <2>2. t \in Seq(Byte \cup {"0"}) /\ Len(t) = 3 /\ \A m \in 1 .. 3 : t[m] = last4[m + 1]
      BY <2>21, <2>22, Zenon
    <2>3. last4' = Append(t, c)
      BY <1>1, <1>4
    <2> HIDE DEF t
    <2>4. c \in Byte \cup {"0"}
      BY <1>2
    <2> HIDE DEF c
    <2>50. t \in Seq(Byte \cup {"0"})
      BY <2>2
    <2>51. /\ Append(t, c) \in Seq(Byte \cup {"0"}) /\ Len(Append(t, c)) = Len(t) + 1
           /\ \A m \in 1 .. Len(t) : Append(t, c)[m] = t[m]
           /\ Append(t, c)[Len(t) + 1] = c
      BY <2>50, <2>4, AppendFacts
    <2>5. /\ last4' \in Seq(Byte \cup {"0"}) /\ Len(last4') = Len(t) + 1
          /\ \A m \in 1 .. Len(t) : last4'[m] = t[m]
          /\ last4'[Len(t) + 1] = c
      BY <2>3, <2>51, Zenon
    <2>6. Len(last4') = 4
      BY <2>2, <2>5
    <2>7. ASSUME NEW m \in 1 .. 4
          PROVE  last4'[m] = IF h + m <= 4 THEN "0" ELSE response[h + m - 4]
      <3>1. CASE m = 4
        <4>1. last4'[m] = c /\ ~(h + m <= 4) /\ h + m - 4 = h
          BY <1>2, <2>2, <2>5, <3>1
        <4> QED BY <4>1 DEF c
      <3>2. CASE m # 4
        <4>1. m + 1 \in 1 .. 4 /\ m \in 1 .. 3
          BY <3>2
        <4>2. last4'[m] = last4[m + 1]
          BY <2>2, <2>5, <4>1
        <4>3. last4[m + 1] = IF done + (m + 1) <= 4 THEN "0" ELSE response[done + (m + 1) - 4]
          BY <2>1, <4>1, Zenon DEF Window
        <4>4. h + m = done + (m + 1) /\ done + (m + 1) - 4 = h + m - 4
          BY <1>2
        <4> QED BY <4>2, <4>3, <4>4, Zenon
      <3> QED BY <3>1, <3>2
    <2>8. last4' = Http!CRLFCRLF <=> h >= 4 /\ EndsAt(h)
      BY <1>2, <2>5, <2>6, <2>7, WindowEnds
    <2>9. stderr' = SubSeq(response, 1, h) /\ stdout' = <<>>
      <3>1. stderr' = Append(SubSeq(response, 1, done), response[done + 1]) /\ stdout' = <<>>
        BY <1>1, <1>4, <2>1 DEF c
      <3>2. 1 \in 1 .. Len(response) + 1 /\ done \in 0 .. Len(response) /\ 1 <= done + 1
            /\ done + 1 <= Len(response)
        BY <1>2
      <3>3. Append(SubSeq(response, 1, done), response[done + 1]) = SubSeq(response, 1, done + 1)
        BY <1>2, <3>2, LongerPart
      <3> QED BY <3>1, <3>3
    <2>10. \A e \in 4 .. done' : e \in 4 .. done \/ (e = h /\ h >= 4)
      BY <1>1, <1>2
    <2>11. \A e : EndsAt(e)' <=> EndsAt(e)
      BY <1>1 DEF EndsAt
    <2>12. inHeader' => /\ Window'
                        /\ \A e \in 4 .. done' : ~EndsAt(e)'
                        /\ stderr' = SubSeq(response', 1, done')
      <3>1. Window'
        BY <1>1, <2>7 DEF Window
      <3>2. inHeader' => ~(h >= 4 /\ EndsAt(h))
        BY <1>1, <1>4, <2>8
      <3> QED BY <1>1, <2>1, <2>9, <2>10, <2>11, <3>1, <3>2
    <2>13. ASSUME ~inHeader'
           PROVE  \E e \in 4 .. done' :
                     /\ EndsAt(e)' /\ \A d \in 4 .. done' : EndsAt(d)' => e <= d
                     /\ stderr' = SubSeq(response', 1, e)
                     /\ stdout' = SubSeq(response', e + 1, done')
      <3>1. h >= 4 /\ EndsAt(h)
        BY <1>1, <1>4, <2>8, <2>13
      <3>2. PICK g \in Nat : g = h
        BY <1>2
      <3>3. g >= 4 /\ EndsAt(g) /\ done' = g
        BY <1>1, <3>1, <3>2
      <3>4. g \in 4 .. done'
        BY <3>2, <3>3
      <3>5. EndsAt(g)'
        BY <2>11, <3>3, Zenon
      <3>6. \A d \in 4 .. done' : EndsAt(d)' => g <= d
        BY <1>2, <2>1, <2>10, <2>11, <3>2
      <3>7. stdout' = SubSeq(response', g + 1, done')
        BY <1>1, <1>2, <2>9, <3>2
      <3>8. stderr' = SubSeq(response', 1, g)
        BY <1>1, <2>9, <3>2
      <3> QED BY <3>4, <3>5, <3>6, <3>7, <3>8
    <2> QED BY <1>1, <1>2, <1>3, <2>5, <2>6, <2>9, <2>12, <2>13 DEF HttpInv
  <1>5. CASE ~inHeader
    <2>1. PICK e \in 4 .. done :
             /\ EndsAt(e) /\ \A d \in 4 .. done : EndsAt(d) => e <= d
             /\ stderr = SubSeq(response, 1, e)
             /\ stdout = SubSeq(response, e + 1, done)
      BY <1>5 DEF HttpInv
    <2>2. \A d : EndsAt(d)' <=> EndsAt(d)
      BY <1>1 DEF EndsAt
    <2>3. e \in 4 .. done' /\ \A d \in 4 .. done' : d \in 4 .. done \/ e <= d
      BY <1>1, <1>2
    <2>4. stdout' = SubSeq(response', e + 1, done')
      <3>1. e + 1 \in 1 .. Len(response) + 1 /\ done \in 0 .. Len(response) /\ e + 1 <= done + 1
            /\ done + 1 <= Len(response)
        BY <1>2
      <3>2. Append(SubSeq(response, e + 1, done), response[done + 1])
              = SubSeq(response, e + 1, done + 1)
        BY <1>2, <3>1, LongerPart
      <3> QED BY <1>1, <1>5, <2>1, <3>2
    <2>5. /\ EndsAt(e)' /\ \A d \in 4 .. done' : EndsAt(d)' => e <= d
          /\ stderr' = SubSeq(response', 1, e)
      BY <1>1, <1>5, <2>1, <2>2, <2>3
    <2>6. last4' \in Seq(Byte \cup {"0"}) /\ Len(last4') = 4 /\ ~inHeader'
      BY <1>1, <1>5 DEF HttpInv
    <2> QED BY <1>1, <1>2, <2>3, <2>4, <2>5, <2>6 DEF HttpInv
  <1> QED BY <1>3, <1>4, <1>5

LEMMA HttpInvSuffices ==
    ASSUME HttpConstants, HttpInv PROVE Http!TypeOK /\ Http!SplitAtEmptyLine
  <1>0. response \in Seq(Byte) /\ Len(response) \in Nat
    BY DEF HttpInv
  <1>01. last4 \in Seq(Byte \cup {"0"}) /\ Len(last4) = 4
    BY DEF HttpInv
  <1>02. last4 \in [1 .. Len(last4) -> Byte \cup {"0"}]
    BY <1>01, SequenceIsFunction
  <1>03. last4 \in [1 .. 4 -> Byte \cup {"0"}]
    BY <1>01, <1>02, Zenon
  <1>1. Http!TypeOK
    BY <1>03 DEF HttpInv, Http!TypeOK
  <1> DEFINE ends == {i \in 4 .. Len(response) : SubSeq(response, i - 3, i) = Http!CRLFCRLF}
             header == IF ends = {} THEN Len(response)
                       ELSE CHOOSE i \in ends : \A j \in ends : i <= j
  <1>2. ASSUME Http!Ended
        PROVE  stderr = SubSeq(response, 1, header)
               /\ stdout = SubSeq(response, header + 1, Len(response))
    <2>0. done = Len(response)
      BY <1>2 DEF Http!Ended
    <2>1. \A e \in 4 .. done : e \in ends <=> EndsAt(e)
      BY <2>0 DEF EndsAt
    <2>2. \A e \in ends : e \in 4 .. done
      BY <2>0
    <2>3. CASE inHeader
      <3>1. ends = {}
        BY <2>1, <2>2, <2>3 DEF HttpInv
      <3>2. header = Len(response)
        BY <3>1
      <3> HIDE DEF ends, header
      <3>3. SubSeq(response, Len(response) + 1, Len(response)) = <<>>
        BY <1>0
      <3>4. stderr = SubSeq(response, 1, done) /\ stdout = <<>>
        BY <2>3 DEF HttpInv
      <3> QED BY <2>0, <3>2, <3>3, <3>4, Zenon
    <2>4. CASE ~inHeader
      <3>1. PICK e \in 4 .. done :
               /\ EndsAt(e) /\ \A d \in 4 .. done : EndsAt(d) => e <= d
               /\ stderr = SubSeq(response, 1, e)
               /\ stdout = SubSeq(response, e + 1, done)
        BY <2>4 DEF HttpInv
      <3>2. e \in ends /\ \A d \in ends : e <= d
        BY <2>1, <2>2, <3>1
      <3>3. ends \subseteq Int
        BY <1>0
      <3> HIDE DEF ends
      <3>4. header \in ends /\ \A d \in ends : header <= d
        BY <3>2
      <3> HIDE DEF header
      <3>5. header = e
        BY <3>2, <3>3, <3>4
      <3> QED BY <2>0, <3>1, <3>5
    <2> QED BY <2>3, <2>4
  <1>3. Http!SplitAtEmptyLine
    BY <1>2 DEF Http!SplitAtEmptyLine
  <1> QED BY <1>1, <1>3

(* exercises/ex16: the header ends with the first empty line, wherever the *)
(* reads have cut it, and what follows is the body.                        *)
THEOREM ResponseIsSplit ==
    HttpConstants /\ Http!Spec => [](Http!TypeOK /\ Http!SplitAtEmptyLine)
  <1> SUFFICES ASSUME HttpConstants
               PROVE  Http!Spec => [](Http!TypeOK /\ Http!SplitAtEmptyLine)
    OBVIOUS
  <1>1. Http!Init => HttpInv
    BY HttpStart
  <1>2. HttpInv /\ [Http!Next]_Http!vars => HttpInv'
    <2>1. ASSUME HttpInv, UNCHANGED Http!vars PROVE HttpInv'
      <3>1. UNCHANGED <<response, taken, done, last4, inHeader, stderr, stdout>>
        BY <2>1 DEF Http!vars
      <3> QED BY <2>1, <3>1 DEF HttpInv, Window, EndsAt
    <2> QED BY <2>1, ReadKeepsHttpInv, PutKeepsHttpInv DEF Http!Next
  <1>3. HttpInv => Http!TypeOK /\ Http!SplitAtEmptyLine
    BY HttpInvSuffices
  <1> QED BY <1>1, <1>2, <1>3, PTL DEF Http!Spec
=============================================================================
