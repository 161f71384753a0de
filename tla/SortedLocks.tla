----------------------------- MODULE SortedLocks -----------------------------
(***************************************************************************)
(* What the keyed locks promise to the code that uses them: a key has one  *)
(* owner, whoever locks a list owns its keys in ascending order, gives     *)
(* none back before it is done with all, gives them back in descending     *)
(* order, and loses them when its host dies.  The order is why lists that  *)
(* overlap cannot make tasks wait for each other in a circle.              *)
(***************************************************************************)
EXTENDS Naturals

CONSTANTS
    Clients,    \* whoever locks
    Hosts,      \* what they run in
    HostOf,     \* the host of a client
    Keys,       \* what is locked, in an order
    Nobody      \* the owner of a key that is free

VARIABLES
    owner,      \* of every key
    leaving,    \* clients that give their keys back
    gone        \* hosts that have died

vars == <<owner, leaving, gone>>

Init ==
    /\ owner = [k \in Keys |-> Nobody]
    /\ leaving = {}
    /\ gone = {}

Owned(c) == {k \in Keys : owner[k] = c}

Acquire(c, k) ==
    /\ HostOf[c] \notin gone
    /\ c \notin leaving
    /\ owner[k] = Nobody
    /\ \A l \in Owned(c) : l < k
    /\ owner' = [owner EXCEPT ![k] = c]
    /\ UNCHANGED <<leaving, gone>>

Leave(c) ==
    /\ HostOf[c] \notin gone
    /\ leaving' = leaving \cup {c}
    /\ UNCHANGED <<owner, gone>>

Release(c, k) ==
    /\ c \in leaving
    /\ owner[k] = c
    /\ \A l \in Owned(c) : l <= k
    /\ owner' = [owner EXCEPT ![k] = Nobody]
    /\ UNCHANGED <<leaving, gone>>

Return(c) ==
    /\ c \in leaving
    /\ Owned(c) = {}
    /\ leaving' = leaving \ {c}
    /\ UNCHANGED <<owner, gone>>

Die(h) ==
    /\ gone' = gone \cup {h}
    /\ leaving' = {c \in leaving : HostOf[c] # h}
    /\ owner' = [k \in Keys |->
                    IF owner[k] # Nobody /\ HostOf[owner[k]] = h THEN Nobody ELSE owner[k]]

Next ==
    \/ \E c \in Clients : Leave(c) \/ Return(c)
    \/ \E c \in Clients, k \in Keys : Acquire(c, k) \/ Release(c, k)
    \/ \E h \in Hosts : Die(h)

Spec == Init /\ [][Next]_vars
=============================================================================
