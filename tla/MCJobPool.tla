----------------------------- MODULE MCJobPool -----------------------------
(* The job pool checked on small pools: FreeMax stands for                 *)
(* JS_JOBS_FREE_MAX (64), MaxPending for how many reactions the program    *)
(* leaves pending at once.                                                 *)
EXTENDS JobPool
=============================================================================
