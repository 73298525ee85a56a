----------------------------- MODULE MCFatBuild -----------------------------
(* Instances of FatBuild for TLC. *)
EXTENDS FatBuild, NameSlots

-----------------------------------------------------------------------------
(* Names, in bytes: x times the letter a or A, with ".TXT" behind a file.  *)

Letters(x, k) == [i \in 1..k |-> x]
Txt == <<46, 84, 88, 84>>

\* The limits of 8.3, of a chunk of 13 units and of two chunks, and the first
\* and last characters of one, two and three bytes.
FileNames ==
    {Letters(65, k) \o Txt : k \in {1, 8, 9}}
    \union {Letters(97, k) \o Txt : k \in {8, 9, 10, 22, 23}}
    \union {<<65, 46, 72>>, <<65, 46, 72, 84, 77, 76>>, <<127>> \o Txt, <<194, 128>> \o Txt,
            <<223, 191>> \o Txt, <<224, 160, 128>> \o Txt, <<239, 191, 189>> \o Txt}
DirNames ==
    {Letters(65, k) : k \in {1, 11, 12, 13, 14}} \union {Letters(97, k) : k \in {1, 13, 26, 27}}
    \union {Letters(97, 11) \o <<223, 191, 224, 160, 128>>}

\* The two that the trees are made of.
ShortName == <<65>> \o Txt
LongName  == Letters(97, 10) \o Txt
TwoNames  == {ShortName, LongName}
AllNames  == FileNames \union DirNames \union TwoNames

ByName == [n \in AllNames |-> n]
\* Tables chosen from sets of one, so that TLC converts each name once.
FileTable == CHOOSE f \in {[n \in FileNames |-> ShownFile(n)]} : TRUE
DirTable  == CHOOSE f \in {[n \in DirNames \union TwoNames |-> ShownDirectory(n)]} : TRUE
SlotNames == [file |-> FileTable, dir |-> DirTable]

-----------------------------------------------------------------------------
\* A tree is given by the kind of each of its paths: the number of blocks of a
\* file, or DIR.
Tree(kind) == [p \in DOMAIN kind |->
                  IF kind[p] = DIR THEN DIR ELSE [k \in 1..kind[p] |-> <<p, k>>]]
Paths(d)   == UNION {[1..k -> TwoNames] : k \in 1..d}
Closed(D)  == \A p \in D : Len(p) = 1 \/ Parent(p) \in D

\* Every tree of depth two with files of no block and three blocks in the root,
\* of no block and one in a directory.
Shallow == UNION {{Tree(kind) : kind \in {k \in [D -> {0, 1, 3, DIR}] :
                       \A p \in D : \/ Len(p) = 1 /\ k[p] # 1
                                    \/ Len(p) = 2 /\ k[p] \in {0, 1} /\ k[Parent(p)] = DIR}}
                  : D \in {D \in SUBSET Paths(2) : Closed(D)}}

\* Directories in directories in directories.
Deep == LET a == ShortName
            b == LongName
            D == {<<a>>, <<b>>, <<a, a>>, <<a, b>>, <<a, b, a>>, <<a, b, b>>, <<a, b, a, b>>}
        IN  {Tree([p \in D |->
                 CASE p \in {<<b>>, <<a, b, b>>} -> 2
                   [] p = <<a, b, a, b>>         -> 1
                   [] OTHER                      -> DIR])}

\* One file, or one directory with a file in it, of each other name.
Named == {Tree([p \in {<<n>>} |-> 1]) : n \in FileNames}
         \union {Tree([p \in {<<n>>, <<n, LongName>>} |-> IF p = <<n>> THEN DIR ELSE 1])
                    : n \in DirNames}

AllTrees == Shallow \union Deep \union Named

\* No directory of these trees takes more than the 16 entries of its array,
\* the label or the dots included.
SlotsTaken(t, p) ==
    LET width(n) == IF t[Append(p, n)] = DIR THEN SlotsOfDirectory(n) ELSE SlotsOfFile(n)
        sum[S \in SUBSET AllNames] ==
            IF S = {} THEN 2 ELSE LET n == CHOOSE n \in S : TRUE IN width(n) + sum[S \ {n}]
    IN  sum[{n \in AllNames : Append(p, n) \in DOMAIN t}]
ASSUME NamesFit /\ TableFits
ASSUME ArraysHold == \A t \in AllTrees : \A p \in DOMAIN t \union {<<>>} : SlotsTaken(t, p) <= 16
=============================================================================
