------------------------------ MODULE Handover ------------------------------
(***************************************************************************)
(* What the transfer of one secret promises, without messages, files,      *)
(* threads or the answers of calls: the server stages its copy, the client *)
(* judges what it received once, a good verdict lets the client keep a     *)
(* copy of its own and the server confirm, a bad one lets the server       *)
(* discard. Nothing waits for the server to record the verdict. The        *)
(* server's copy is complete unless its disk failed while it was made.     *)
(***************************************************************************)

VARIABLES
    status,  \* the server's record: absent, staged, confirmed or discarded
    copy,    \* TRUE while the record stands for a complete secret file
    spoilt,  \* TRUE once the disk has failed under the server's copy
    verdict, \* the client's: none, good or bad
    holds    \* TRUE once the client has a secret file of its own

hvars == <<status, copy, spoilt, verdict, holds>>

Init ==
    /\ status = "absent"
    /\ copy = FALSE
    /\ spoilt = FALSE
    /\ verdict = "none"
    /\ holds = FALSE

Spoil ==
    /\ status = "absent" /\ verdict = "none"
    /\ spoilt' = TRUE
    /\ UNCHANGED <<status, copy, verdict, holds>>

\* Before the client judges; incomplete only over a failed disk.
Stage ==
    /\ status = "absent" /\ verdict = "none"
    /\ status' = "staged"
    /\ copy' \in BOOLEAN
    /\ copy' \/ spoilt
    /\ UNCHANGED <<spoilt, verdict, holds>>

\* Once, and good only of a secret the server has staged.
Judge ==
    /\ verdict = "none"
    /\ verdict' \in {"good", "bad"}
    /\ verdict' = "good" => status = "staged"
    /\ UNCHANGED <<status, copy, spoilt, holds>>

Confirm ==
    /\ status = "staged" /\ verdict = "good"
    /\ status' = "confirmed"
    /\ UNCHANGED <<copy, spoilt, verdict, holds>>

Discard ==
    /\ status \in {"absent", "staged"} /\ verdict = "bad"
    /\ status' = "discarded"
    /\ copy' = FALSE
    /\ UNCHANGED <<spoilt, verdict, holds>>

Hold ==
    /\ verdict = "good" /\ ~holds
    /\ holds' = TRUE
    /\ UNCHANGED <<status, copy, spoilt, verdict>>

Next == Spoil \/ Stage \/ Judge \/ Confirm \/ Discard \/ Hold

Spec == Init /\ [][Next]_hvars
=============================================================================
