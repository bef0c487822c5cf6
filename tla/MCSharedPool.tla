---------------------------- MODULE MCSharedPool ----------------------------
(***************************************************************************)
(* SharedPool with three processes: threads or forked processes, which     *)
(* have the segment at the same address.                                   *)
(***************************************************************************)
EXTENDS SharedPool

OneAddress == [p \in Procs |-> 0]
=============================================================================
