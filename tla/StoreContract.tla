----------------------------- MODULE StoreContract -----------------------------
(***************************************************************************)
(* What a persistent MemoryStore promises to the bank over it: a memory    *)
(* that it has taken is there, as it was last written, until it is         *)
(* deleted, over any number of restarts, and no operation touches another  *)
(* memory than its own.  The exception is a memory of which an update has  *)
(* raised half way: until it is written again, a restart may turn it back. *)
(***************************************************************************)
CONSTANTS
    Ids,     \* ids of memories
    Items    \* memories

VARIABLES
    memories,  \* what get() and list_all() read: id -> item
    doubtful   \* ids of which an update raised half way

contractVars == <<memories, doubtful>>

SInit ==
    /\ memories = [i \in {} |-> i]
    /\ doubtful = {}

\* Nothing happens to memories other than i.
OthersStay(i) ==
    \A j \in Ids \ {i} :
        /\ j \in DOMAIN memories' <=> j \in DOMAIN memories
        /\ j \in DOMAIN memories => memories'[j] = memories[j]

\* add() or update() returns.
Take(i, r) ==
    /\ i \in DOMAIN memories' /\ memories'[i] = r
    /\ OthersStay(i)
    /\ doubtful' = doubtful \ {i}

\* delete() returns.
Forget(i) ==
    /\ i \notin DOMAIN memories'
    /\ OthersStay(i)
    /\ doubtful' = doubtful \ {i}

\* update() raises with a part of it done.
Botch(i) ==
    /\ i \in DOMAIN memories /\ i \in DOMAIN memories'
    /\ memories'[i] \in Items
    /\ OthersStay(i)
    /\ doubtful' = doubtful \cup {i}

\* The process ends and starts again.
Restart ==
    /\ DOMAIN memories' = DOMAIN memories
    /\ \A i \in DOMAIN memories \ doubtful : memories'[i] = memories[i]
    /\ UNCHANGED doubtful

SNext ==
    \/ \E i \in Ids : \/ \E r \in Items : Take(i, r)
                      \/ Forget(i)
                      \/ Botch(i)
    \/ Restart

Contract == SInit /\ [][SNext]_contractVars
===============================================================================
