----------------------------- MODULE MCThreads ------------------------------
(* Small instances of Threads for TLC. *)
EXTENDS Threads, TLC

CONSTANTS c0, c1, reaper, main, w1, w2, rsem, s1

MCInitialN == [s \in Sems |-> 0]

\* The main thread makes two calls, every thread it leads to one.
MCMaxCalls == [t \in TCBs |-> IF t = main THEN 2 ELSE 1]

\* The workers are interchangeable: sound for the safety runs, which have no
\* liveness property.
Workers == Permutations(TCBs \ {reaper, main})
=============================================================================
