----------------------------- MODULE MCOptimize -----------------------------
(***************************************************************************)
(* Three objectives, the first with four values, and up to three solutions.*)
(***************************************************************************)
EXTENDS Optimize, FiniteSets, FiniteSetsExt

MCTop == <<3, 1, 1>>
MCTuples == (0..3) \X (0..1) \X (0..1)
MCInstances == UNION {kSubset(n, MCTuples) : n \in 0..3}

Setting(maximize, perArg, limited) ==
    {[maximize |-> maximize, search |-> s, perArg |-> perArg, limited |-> limited] :
        s \in {"linear", "binary"}}

MinAll == <<FALSE, FALSE, FALSE>>
MaxAll == <<TRUE, TRUE, TRUE>>
MaxLast == <<FALSE, FALSE, TRUE>>

\* The directions and limits the consistency checks are right for.
MCSettings ==
    Setting(MinAll, FALSE, TRUE) \cup Setting(MinAll, TRUE, TRUE)
      \cup Setting(MaxAll, TRUE, TRUE) \cup Setting(MaxAll, FALSE, FALSE)
      \cup Setting(MaxLast, FALSE, FALSE) \cup Setting(MaxLast, TRUE, TRUE)
=============================================================================
