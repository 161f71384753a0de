----------------------------- MODULE WritingSide -----------------------------
(***************************************************************************)
(* What a hand-over promises to the business stores: in each term one of   *)
(* the two slots writes, and the next term begins when no write of the     *)
(* last one is under way any more.                                         *)
(***************************************************************************)
EXTENDS Naturals

CONSTANT Writers    \* identities of writes

VARIABLES
    side,      \* the slot that may write
    term,      \* the number of hand-overs, plus one
    writing    \* writes under way, each with the slot it comes from

vars == <<side, term, writing>>

Init ==
    /\ side = "blue"
    /\ term = 1
    /\ writing = {}

Start(w) ==
    /\ writing' = writing \cup {<<side, w>>}
    /\ UNCHANGED <<side, term>>

End(w) ==
    /\ writing' = writing \ {<<side, w>>}
    /\ UNCHANGED <<side, term>>

Handover ==
    /\ writing = {}
    /\ side' \in {"blue", "green"} \ {side}
    /\ term' = term + 1
    /\ UNCHANGED writing

Next == Handover \/ \E w \in Writers : Start(w) \/ End(w)

Spec == Init /\ [][Next]_vars
=============================================================================
