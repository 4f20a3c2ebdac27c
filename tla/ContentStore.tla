---------------------------- MODULE ContentStore ----------------------------
(***************************************************************************)
(* What an arm's data file promises: every body is stored at most once, at  *)
(* an address of its own, and stays there.                                  *)
(***************************************************************************)
CONSTANT Bodies

VARIABLE stored   \* address -> body

Init == stored = << >>

\* A body that is not there yet gets a fresh address.
Add(b) ==
    /\ \A o \in DOMAIN stored : stored[o] # b
    /\ \E a \in DOMAIN stored' :
         /\ a \notin DOMAIN stored
         /\ stored' = [o \in DOMAIN stored \cup {a} |->
                         IF o = a THEN b ELSE stored[o]]

Next == \E b \in Bodies : Add(b)

Spec == Init /\ [][Next]_stored
==============================================================================
