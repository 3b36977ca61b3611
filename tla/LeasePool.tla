------------------------------ MODULE LeasePool ------------------------------
(***************************************************************************)
(* What the native canvas promises to its consumers: an image somebody     *)
(* holds a lease of is not written to, and a lease is only given out of an *)
(* image that is not being written to.                                     *)
(***************************************************************************)
CONSTANTS Place, Entry, NoEntry

VARIABLES
    hold,     \* per place: the entry it leases
    writing   \* the entries the GPU writes to

vars == <<hold, writing>>

TypeOK ==
    /\ hold \in [Place -> Entry \cup {NoEntry}]
    /\ writing \subseteq Entry

Init ==
    /\ hold = [p \in Place |-> NoEntry]
    /\ writing = {}

Write(e) ==
    /\ \A p \in Place : hold[p] # e
    /\ writing' = writing \cup {e}
    /\ UNCHANGED hold

Finish(e) ==
    /\ writing' = writing \ {e}
    /\ UNCHANGED hold

\* Leases are taken, passed on and given back.
Share ==
    /\ hold' \in [Place -> Entry \cup {NoEntry}]
    /\ \A p \in Place : hold'[p] \notin writing
    /\ UNCHANGED writing

Next == Share \/ \E e \in Entry : Write(e) \/ Finish(e)

Spec == Init /\ [][Next]_vars
=============================================================================
