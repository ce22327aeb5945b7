------------------------------ MODULE MyMalloc ------------------------------
(***************************************************************************)
(* exercises/ex11/myMalloc.c: a first-fit allocator over pages from mmap.  *)
(* Sizes and addresses count units of four bytes, to which malloc rounds.  *)
(* A block is where its size field stands and the size that says; the list *)
(* of the free ones is a sequence.  What callers store is left out, and    *)
(* with it what calloc clears and realloc copies.                          *)
(***************************************************************************)
EXTENDS Integers, Sequences, SequencesExt, FiniteSetsExt

CONSTANTS
    Sizes,      \* the sizes callers ask for
    SIZE_T,     \* sizeof( size_t ), 2 units in the code
    POINTER,    \* sizeof( Hole * ), 2 units
    PAGE,       \* 1024 units
    MaxPages    \* what mmap has to give

(* A link has a size, there are pages, and sizes are not negative.         *)
HeapConstants ==
    /\ Sizes \subseteq Nat
    /\ SIZE_T \in Nat /\ POINTER \in Nat \ {0}
    /\ PAGE \in Nat \ {0} /\ MaxPages \in Nat

VARIABLES
    freeList,
    allocated,  \* the blocks callers have
    nextBlock   \* how far mmap has got

vars == <<freeList, allocated, nextBlock>>

Block == [at : 0 .. MaxPages * PAGE, size : 1 .. MaxPages * PAGE]
End(b) == b.at + SIZE_T + b.size

TypeOK ==
    /\ freeList \in Seq(Block)
    /\ allocated \subseteq Block
    /\ nextBlock \in {PAGE * n : n \in 0 .. MaxPages}

Init ==
    /\ freeList = <<>>
    /\ allocated = {}
    /\ nextBlock = 0

-----------------------------------------------------------------------------
(* The sizes malloc works with                                             *)

Least(size) == IF size < POINTER THEN POINTER ELSE size
Pages(size) == ((size + SIZE_T + PAGE - 1) \div PAGE) * PAGE

SplitTight(h, size) == size + SIZE_T < h.size   \* mutant: no room for a link
Splits(h, size) == size + SIZE_T + POINTER <= h.size

(* returnBlock.  The block goes where the list stays in order, absorbs the *)
(* one behind it, and is absorbed by the one before it.                    *)
Before(list, h) == {i \in 1 .. Len(list) : list[i].at < h.at}

AbsorbAt(list, i) ==
    IF i \in 1 .. Len(list) - 1 /\ End(list[i]) = list[i + 1].at
      THEN RemoveAt([list EXCEPT ![i].size = @ + list[i + 1].size + SIZE_T], i + 1)
      ELSE list

ReturnedBackOnly(list, h) ==            \* mutant: the predecessor absorbs nothing
    LET i == Cardinality(Before(list, h)) + 1
    IN  AbsorbAt(InsertAt(list, i, h), i)
Returned(list, h) ==
    LET i == Cardinality(Before(list, h)) + 1
    IN  AbsorbAt(AbsorbAt(InsertAt(list, i, h), i), i - 1)

(* getBlock: the first that is large enough.                               *)
Fitting(size) == {i \in 1 .. Len(freeList) : freeList[i].size >= size}

(* A block h that is in no list becomes one of that size, and what is left *)
(* goes back to the list; otherwise the caller gets all of it.             *)
SplitWhole(list, h, size) ==            \* mutant: the block keeps its size as well
    [block |-> h,
     freeList |-> Returned(list, [at |-> h.at + SIZE_T + size, size |-> h.size - size - SIZE_T])]
Split(list, h, size) ==
    [block |-> [at |-> h.at, size |-> size],
     freeList |-> Returned(list, [at |-> h.at + SIZE_T + size, size |-> h.size - size - SIZE_T])]

Given(list, h, size) ==
    IF Splits(h, size) THEN Split(list, h, size) ELSE [block |-> h, freeList |-> list]

-----------------------------------------------------------------------------
(* The calls.  mmap extends the memory it gave before, or malloc returns   *)
(* NULL and nothing changes.                                               *)

FromList(size) ==
    LET i == Min(Fitting(size))
    IN  Given(RemoveAt(freeList, i), freeList[i], size)

FromPages(size) == Given(freeList, [at |-> nextBlock, size |-> Pages(size) - SIZE_T], size)

Served(size) == IF Fitting(size) # {} THEN FromList(size) ELSE FromPages(size)
Mapped(size) == IF Fitting(size) # {} THEN nextBlock ELSE nextBlock + Pages(size)
CanServe(size) == Mapped(size) <= MaxPages * PAGE

(* malloc, and calloc with the product of its arguments.                   *)
Malloc(asked) ==
    LET size == Least(asked)
    IN  /\ CanServe(size)
        /\ allocated' = allocated \cup {Served(size).block}
        /\ freeList' = Served(size).freeList
        /\ nextBlock' = Mapped(size)

Free(h) ==
    /\ allocated' = allocated \ {h}
    /\ freeList' = Returned(freeList, h)
    /\ UNCHANGED nextBlock

(* realloc of a block, to a size other than 0: a new block, and then the   *)
(* old one is freed.                                                       *)
Realloc(h, asked) ==
    LET size == Least(asked)
    IN  /\ CanServe(size)
        /\ allocated' = (allocated \cup {Served(size).block}) \ {h}
        /\ freeList' = Returned(Served(size).freeList, h)
        /\ nextBlock' = Mapped(size)

Next ==
    \/ \E asked \in Sizes : Malloc(asked)
    \/ \E h \in allocated : Free(h)
    \/ \E h \in allocated, asked \in Sizes : Realloc(h, asked)

Spec == Init /\ [][Next]_vars

-----------------------------------------------------------------------------
(* Properties                                                              *)

Holes == Range(freeList)
Units(b) == b.at .. End(b) - 1

(* The blocks of callers and the free ones, with their size fields, are    *)
(* all of the memory mapped, and no two of them overlap.                   *)
BlocksTile ==
    /\ UNION {Units(b) : b \in Holes \cup allocated} = 0 .. nextBlock - 1
    /\ \A b, c \in Holes \cup allocated : b # c => Units(b) \cap Units(c) = {}
    /\ Holes \cap allocated = {}

(* The list is in the order of the addresses, and what could be one block  *)
(* is one: when everything has been freed, one block is left.              *)
ListIsMerged == \A i \in 1 .. Len(freeList) - 1 : End(freeList[i]) < freeList[i + 1].at

(* A free block has room for the link to the next one.                     *)
HolesHoldLinks == \A h \in Holes : h.size >= POINTER
=============================================================================
