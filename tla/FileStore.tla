----------------------------- MODULE FileStore ------------------------------
(***************************************************************************)
(* What README.md promises of the drive: "you can create, read, update and *)
(* delete files in littlefs".  A host operation is a request to drop some  *)
(* paths and set others; when the drive has taken all its sectors, littlefs*)
(* holds exactly the requested tree, and every request is completed.       *)
(***************************************************************************)
EXTENDS Sequences

CONSTANT None

VARIABLES store,    \* path to content, as littlefs holds it between operations
          pending   \* the request being carried out, or None

Apply(r, s) == [p \in (DOMAIN s \ r.gone) \union DOMAIN r.put |->
                   IF p \in DOMAIN r.put THEN r.put[p] ELSE s[p]]

\* A request names files that are there and replaces what it drops or
\* overwrites, never anything else.
Legal(r, s) == r.gone \subseteq DOMAIN s

Init == pending = None

Begin ==
    /\ pending = None
    /\ pending' # None
    /\ Legal(pending', store)
    /\ UNCHANGED store

Complete ==
    /\ pending # None
    /\ store' = Apply(pending, store)
    /\ pending' = None

Next == Begin \/ Complete

vars == <<store, pending>>

Safety == Init /\ [][Next]_vars
Spec == Safety /\ WF_vars(Complete)
=============================================================================
