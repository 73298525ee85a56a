---------------------------- MODULE DurableStore ----------------------------
(***************************************************************************)
(* FileStore with all that may happen to a drive besides what the host     *)
(* asks: the plug is pulled, the power goes, the bus is suspended, the     *)
(* program on the Pico appends to its log or formats the flash.            *)
(*                                                                         *)
(* An operation that is cut short leaves each path it names as it was or as*)
(* it was to be; a file that was not there may also be left empty.  Once   *)
(* the host's view has lapsed its requests may fail, and files it only     *)
(* believes in may appear.  A file nobody names is never touched.          *)
(***************************************************************************)
EXTENDS Sequences

CONSTANTS None, LogPath, Click, Formatted

VARIABLES store,    \* path to content
          pending,  \* the request being carried out, or None
          session   \* "none", "open", or "stale": the host's view has lapsed

F == INSTANCE FileStore

\* Nobody loses a file but by asking for it.
Torn(r, s, t) ==
    /\ \A p \in DOMAIN s :
          \/ p \in DOMAIN t /\ t[p] = s[p]
          \/ p \in DOMAIN t /\ p \in DOMAIN r.put /\ t[p] = r.put[p]
          \/ p \notin DOMAIN t /\ p \in r.gone
    /\ session = "open" => \A p \in DOMAIN t \ DOMAIN s :
                             p \in DOMAIN r.put /\ t[p] \in {<<>>, r.put[p]}

Init == pending = None /\ session = "none"

\* A host whose view has lapsed may name files the drive never made.
Begin ==
    /\ session # "none"
    /\ pending = None
    /\ pending' # None
    /\ session = "open" => F!Legal(pending', store)
    /\ UNCHANGED <<store, session>>

Open   == session = "none" /\ session' = "open" /\ UNCHANGED <<store, pending>>
Lapse  == session = "open" /\ session' = "stale" /\ UNCHANGED <<store, pending>>
Close  == pending = None /\ session' = "none" /\ UNCHANGED <<store, pending>>

\* To the end, as asked, while the host's view holds.
Complete == session = "open" /\ F!Complete /\ UNCHANGED session

\* The session ends, or the host's view had lapsed.
Interrupt ==
    /\ pending # None
    /\ Torn(pending, store, store')
    /\ pending' = None
    /\ session' = "none" \/ (session = "stale" /\ session' = "stale")

Append1(s) == IF LogPath \in DOMAIN s THEN Append(s[LogPath], Click) ELSE <<Click>>
LogClick ==
    /\ store' = [p \in DOMAIN store \union {LogPath} |->
                    IF p = LogPath THEN Append1(store) ELSE store[p]]
    /\ UNCHANGED <<pending, session>>

Format == store' = Formatted /\ pending' = None /\ session' = "none"

Next == Open \/ Begin \/ Lapse \/ Close \/ Complete \/ Interrupt \/ LogClick \/ Format

Safety == Init /\ [][Next]_<<store, pending, session>>
=============================================================================
