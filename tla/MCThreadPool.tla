---------------------------- MODULE MCThreadPool ----------------------------
(* Fewer workers than tasks, so that tasks queue; two of both at least. *)
EXTENDS ThreadPool

CONSTANTS w1, w2, t1, t2, t3

MCWorkers == {w1, w2}
MCTasks == {t1, t2, t3}
=============================================================================
