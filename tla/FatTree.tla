------------------------------- MODULE FatTree -------------------------------
(***************************************************************************)
(* What it takes for the directory sectors of a volume to show a tree: the *)
(* searches of mimic_fat.c give back the path of each of its entries, and  *)
(* the entry of each of its clusters.                                      *)
(***************************************************************************)
EXTENDS FatDir

\* The files and directories a search finds in a sector.
Visible(s) == {i \in Slots : Live(s, i) /\ s[i].kind \in {"file", "dir"}}

\* The first slot after the label, or after the dots.
FirstSlot(p) == IF p = <<>> THEN 2 ELSE 3

\* place gives the cluster of each directory of P, the paths of a tree.
Situated(P, place) ==
    /\ P \subseteq Seq(Names)
    /\ <<>> \in P
    /\ \A p \in P : p # <<>> => Parent(p) \in P
    /\ place \in [P -> Cluster]
    /\ place[<<>>] = Root

\* Each directory is in its sector, which points to the directory above, and
\* is not deeper than the disk is large.
SectorsSaved(tmp, P, place) ==
    \A p \in P :
        /\ HasDirectory(tmp, place[p])
        /\ Len(p) < NumClusters
        /\ ParentOf(tmp[place[p]]) = IF p = <<>> THEN 0 ELSE place[Parent(p)]

\* The names of a sector come after its label or its dots, and only they.
NamesListed(tmp, P, place) ==
    \A p \in P : \A i \in Slots :
        /\ i \in Visible(tmp[place[p]]) => /\ i >= FirstSlot(p)
                                          /\ tmp[place[p]][i].name \in Names
        /\ Live(tmp[place[p]], i) /\ i >= FirstSlot(p) => i \in Visible(tmp[place[p]])

\* The entry of a directory leads to it.
Leads(tmp, P, place, p, i) ==
    /\ tmp[place[p]][i].clus # Root
    /\ tmp[place[p]][i].kind = "dir" => /\ tmp[place[p]][i].clus # 0
                                       /\ Append(p, tmp[place[p]][i].name) \in P
                                       /\ place[Append(p, tmp[place[p]][i].name)]
                                             = tmp[place[p]][i].clus

EntriesLead(tmp, P, place) ==
    \A p \in P : \A i \in Visible(tmp[place[p]]) : Leads(tmp, P, place, p, i)

\* Each directory but the root has an entry in its parent.
HasEntry(s, n) == \E i \in Visible(s) : s[i].kind = "dir" /\ s[i].name = n
ParentsList(tmp, P, place) ==
    \A p \in P : p # <<>> => HasEntry(tmp[place[Parent(p)]], p[Len(p)])

\* A cluster starts one file or directory at most.
Alone(tmp, P, place, p, i) ==
    \A q \in P : \A j \in Visible(tmp[place[q]]) :
        tmp[place[q]][j].clus = tmp[place[p]][i].clus => q = p /\ j = i

StartsOnce(tmp, P, place) ==
    \A p \in P : \A i \in Visible(tmp[place[p]]) :
        tmp[place[p]][i].clus # 0 => Alone(tmp, P, place, p, i)

\* The sectors of tmp show a tree: the directories of P, each at its place.
Volume(tmp, P, place) ==
    /\ Situated(P, place)
    /\ SectorsSaved(tmp, P, place)
    /\ NamesListed(tmp, P, place)
    /\ EntriesLead(tmp, P, place)
    /\ ParentsList(tmp, P, place)
    /\ StartsOnce(tmp, P, place)
==============================================================================
