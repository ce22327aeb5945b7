----------------------------- MODULE FloppyDir -----------------------------
(* exercises/ex18: reportDirectory of floppyDir.c and floppyDirNew.c walks *)
(* the directories of a FAT12 image.  The recursive calls share one file   *)
(* position.  An entry is its kind, "file", "deleted" (whatever is         *)
(* skipped), or the directory it stands for; a line of the report is its   *)
(* depth and the place of its entry in the image.                          *)
EXTENDS Integers, Sequences, FiniteSets

CONSTANTS
    SECTORS,        \* of the root directory
    Entries,        \* entries of a sector
    Clusters,       \* of the data region
    Images

VARIABLES
    version,        \* "floppyDir" or "floppyDirNew"
    image,          \* [dirs : contents of "root", "A" and "B", chain : their clusters, eoc]
    pos,            \* of the file, in entries
    stack,          \* the calls of reportDirectory, the last one first
    lines           \* the report

vars == <<version, image, pos, stack, lines>>

SubDirs == {"A", "B"}
Dirs == SubDirs \cup {"root"}
Kinds == SubDirs \cup {"file", "deleted"}
BAD_SECTOR == 4087
EOC_MARKER_START == 4088

-----------------------------------------------------------------------------
(* The image                                                               *)

SectorStart(cluster) == (SECTORS + cluster - 2) * Entries
EndOfFile == SectorStart(Clusters + 2)

(* The places of a family of sequences: a key and an index.                *)
PlacesIn(family) == UNION {{d} \X DOMAIN family[d] : d \in DOMAIN family}

(* No two chains share a cluster, and they have room for the entries; no   *)
(* directory is in itself: each has a depth, below those it is in.         *)
WellFormed(im) ==
    /\ im.dirs \in [Dirs -> Seq(Kinds)] /\ im.chain \in [SubDirs -> Seq(2 .. Clusters + 1)]
    /\ im.eoc \in Nat /\ im.eoc >= EOC_MARKER_START /\ im.eoc < 4096
    /\ Len(im.dirs["root"]) <= SECTORS * Entries
    /\ \A d \in SubDirs : /\ Len(im.chain[d]) >= 1
                          /\ Len(im.dirs[d]) <= Len(im.chain[d]) * Entries
    /\ \A g, h \in PlacesIn(im.chain) : im.chain[g[1]][g[2]] = im.chain[h[1]][h[2]] => g = h
    /\ \E depth \in [Dirs -> 1 .. 3] :
          \A e \in PlacesIn(im.dirs) :
              LET held == im.dirs[e[1]][e[2]]
              IN  held \in SubDirs => depth[held] > depth[e[1]]

(* The root directory has a sector, clusters have numbers below the marks. *)
FloppyConstants ==
    /\ SECTORS \in Nat \ {0} /\ Entries \in Nat \ {0}
    /\ Clusters \in Nat /\ Clusters + 1 < BAD_SECTOR
    /\ \A im \in Images : WellFormed(im)

(* Where the k-th entry of a directory is.                                 *)
Place(dir, k) ==
    IF dir = "root" THEN k - 1
    ELSE SectorStart(image.chain[dir][((k - 1) \div Entries) + 1]) + ((k - 1) % Entries)

Held(e) == image.dirs[e[1]][e[2]]

EntryAt(p) ==
    LET here == {e \in PlacesIn(image.dirs) : Place(e[1], e[2]) = p}
    IN  IF here = {} THEN "none" ELSE Held(CHOOSE e \in here : TRUE)

(* The next cluster of a chain, and the bytes of the packed table.         *)
NextCluster(c) ==
    LET at == {h \in PlacesIn(image.chain) : image.chain[h[1]][h[2]] = c}
    IN  IF at = {} THEN 0
        ELSE LET e == CHOOSE h \in at : TRUE
             IN  IF e[2] < Len(image.chain[e[1]]) THEN image.chain[e[1]][e[2] + 1] ELSE image.eoc

FatByte(n) ==
    LET low == NextCluster(2 * (n \div 3))
        high == NextCluster(2 * (n \div 3) + 1)
    IN  CASE n % 3 = 0 -> low % 256
          [] n % 3 = 1 -> (low \div 256) + 16 * (high % 16)
          [] n % 3 = 2 -> high \div 16

(* getFat12 of floppyDir.c: 3 bytes as one little-endian number.           *)
PairShiftedByEight(idx) ==              \* mutant: bytes, not nibbles
    LET o == 3 * (idx \div 2)
        pair == FatByte(o) + 256 * FatByte(o + 1) + 65536 * FatByte(o + 2)
    IN  IF idx % 2 = 1 THEN pair \div 65536 ELSE pair % 4096
GetFatPair(idx) ==
    LET o == 3 * (idx \div 2)
        pair == FatByte(o) + 256 * FatByte(o + 1) + 65536 * FatByte(o + 2)
    IN  IF idx % 2 = 1 THEN pair \div 4096 ELSE pair % 4096

(* getFat12 of floppyDirNew.c: from the entry's own first byte, but for an *)
(* odd entry with the second and third byte instead of the first two.      *)
GetFatBytes(idx) ==
    LET o == idx + (idx \div 2)
    IN  IF idx % 2 = 1 THEN (FatByte(o + 1) \div 16) + 16 * FatByte(o + 2)
        ELSE FatByte(o) + 256 * (FatByte(o + 1) % 16)

GetFat12(idx) == IF version = "floppyDir" THEN GetFatPair(idx) ELSE GetFatBytes(idx)

-----------------------------------------------------------------------------
(* reportDirectory                                                         *)

InData(cluster) == cluster < EOC_MARKER_START /\ cluster >= 2 /\ cluster # BAD_SECTOR

(* A call: the sector it is in (the root's are negative), how many of its  *)
(* entries are done, and nextEntryPos while it waits for another call.     *)
Call(sector) == [sector |-> sector, i |-> 0, nextEntryPos |-> 0]
RootSector(k) == k - SECTORS

Start(sector) == IF sector < 0 THEN (sector + SECTORS) * Entries ELSE SectorStart(sector)

Init ==
    /\ version \in {"floppyDir", "floppyDirNew"}
    /\ image \in Images
    /\ stack = <<Call(RootSector(0))>>
    /\ pos = Start(RootSector(0))
    /\ lines = <<>>

Top == Head(stack)
Below == Tail(stack)

(* The call ends; the one that made it goes back to its next entry.        *)
LeaveAsIs ==                            \* mutant: no fseek after the recursion
    /\ stack' = IF Below = <<>> THEN <<>> ELSE <<[Head(Below) EXCEPT !.i = @ + 1]>> \o Tail(Below)
    /\ UNCHANGED pos
Leave ==
    IF Below = <<>> THEN stack' = <<>> /\ UNCHANGED pos
    ELSE /\ stack' = <<[Head(Below) EXCEPT !.i = @ + 1]>> \o Tail(Below)
         /\ pos' = Head(Below).nextEntryPos

(* The call goes on with a sector, if the loop's condition holds.          *)
Enter(sector, calls) == stack' = <<Call(sector)>> \o calls /\ pos' = Start(sector)

NextSector ==
    /\ stack # <<>> /\ Top.i = Entries
    /\ LET next == IF Top.sector < 0 THEN Top.sector + 1 ELSE GetFat12(Top.sector)
       IN  IF (Top.sector < 0 /\ next < 0) \/ (Top.sector >= 0 /\ InData(next))
           THEN Enter(next, Below)
           ELSE Leave
    /\ UNCHANGED <<version, image, lines>>

Entry == IF pos >= EndOfFile THEN "none" ELSE EntryAt(pos)
Reading == stack # <<>> /\ Top.i < Entries

(* A first byte of 0x00, or the end of the file.                           *)
EndOfDirectory ==
    /\ Reading /\ Entry = "none"
    /\ Leave
    /\ UNCHANGED <<version, image, lines>>

Skip ==
    /\ Reading /\ Entry = "deleted"
    /\ stack' = <<[Top EXCEPT !.i = @ + 1]>> \o Below
    /\ pos' = pos + 1
    /\ UNCHANGED <<version, image, lines>>

Report == lines' = Append(lines, <<Len(stack) - 1, pos>>) /\ UNCHANGED <<version, image>>

File ==
    /\ Reading /\ Entry = "file"
    /\ Report
    /\ stack' = <<[Top EXCEPT !.i = @ + 1]>> \o Below
    /\ pos' = pos + 1

Directory ==
    /\ Reading /\ Entry \in SubDirs
    /\ Report
    /\ Enter(image.chain[Entry][1], <<[Top EXCEPT !.nextEntryPos = pos + 1]>> \o Below)

Step == NextSector \/ EndOfDirectory \/ Skip \/ File \/ Directory

Ended == stack = <<>>

Next == Step \/ (Ended /\ UNCHANGED vars)

-----------------------------------------------------------------------------
(* floppyDirNew.c follows no chain from an odd cluster.                    *)
OddChain == \E d \in SubDirs : \E k \in 1 .. Len(image.chain[d]) :
               /\ image.chain[d][k] % 2 = 1
               /\ k * Entries <= Len(image.dirs[d])
ReadsRight == version = "floppyDirNew" => ~OddChain

(* A reader that goes astray may recur for ever; one that does not is in   *)
(* at most the three directories.                                          *)
TypeOK ==
    /\ pos \in 0 .. SectorStart(EOC_MARKER_START)
    /\ \A k \in DOMAIN stack : stack[k].i \in 0 .. Entries
    /\ ReadsRight => Len(stack) <= 3

(* The way to an entry: the entries of the directories it is in, and it.   *)
Last(r) == r[Len(r)]
Routes ==
    {r \in UNION {[1 .. n -> PlacesIn(image.dirs)] : n \in 1 .. 3} :
        /\ r[1][1] = "root"
        /\ \A n \in 1 .. Len(r) - 1 : r[n + 1][1] = Held(r[n])}
Listed == {r \in Routes : Held(Last(r)) # "deleted"}

(* A directory comes before what is in it, and that before the next entry. *)
Earlier(g, r) ==
    \E n \in 0 .. Len(g) :
        /\ n < Len(r) /\ \A m \in 1 .. n : g[m] = r[m]
        /\ n < Len(g) => g[n + 1][2] < r[n + 1][2]
Before(r) == {g \in Listed : Earlier(g, r)}

(* What the report has of an entry: its depth and its place.               *)
LineOf(r) == <<Len(r) - 1, Place(Last(r)[1], Last(r)[2])>>

(* The report has a line for each entry of a set, with one line above it   *)
(* for each entry before that one, and no others.                          *)
Reported(set) ==
    /\ Len(lines) = Cardinality(set)
    /\ \A r \in set : lines[Cardinality(Before(r)) + 1] = LineOf(r)

(* Both programs come with the same expected output: each entry but the    *)
(* deleted ones, a directory's own right after it and one level deeper.    *)
ReportIsExpected == Ended => Reported(Listed)

(* The report is the tree, in order: the two readings of a packed entry,   *)
(* directories that end inside a sector, fill one, or go on in another,    *)
(* and the position the recursion comes back to.  floppyDirNew.c needs     *)
(* chains without odd clusters.                                            *)
ReportIsTheTree == ReadsRight => ReportIsExpected
=============================================================================
