------------------------------ MODULE KeyStock ------------------------------
(***************************************************************************)
(* What the rounds promise of the secrets both sides have in common,       *)
(* without messages, files or processes: each round adds its own, early or *)
(* late, and none is lost, spoilt or called INVALID, whatever fails. Only  *)
(* init.cc does that: it renews its own secret and forgets the others.     *)
(***************************************************************************)
EXTENDS Naturals

CONSTANT Names \* numbers: 0 for what init.cc makes, i for the i-th round

VARIABLES
    stock, \* the names of the secrets both sides hold
    busy   \* is init.cc at work?

stockVars == <<stock, busy>>

Init == stock = {} /\ busy = FALSE

Begin ==
    /\ ~busy
    /\ busy' = TRUE
    /\ UNCHANGED stock

\* init.cc touches its own secret only, or empties the stock; it may stop at
\* any point of that.
Renew ==
    /\ busy
    /\ busy' \in BOOLEAN
    /\ stock' \in {stock, stock \cup {0}, stock \ {0}, {}}

Add(n) ==
    /\ ~busy
    /\ n # 0 /\ n \notin stock
    /\ stock' = stock \cup {n}
    /\ UNCHANGED busy

Next == Begin \/ Renew \/ \E n \in Names : Add(n)

Spec == Init /\ [][Next]_stockVars
=============================================================================
