-------------------------- MODULE MCMessageTracker --------------------------
(***************************************************************************)
(* MessageTracker on small instances.                                      *)
(***************************************************************************)
EXTENDS MessageTracker

\* Every participant is active all the time.
AllActive == {Readers}

\* Blocks of MESSAGE_BLOCK_SIZE: each text has words of its own.
Apart == [b \in Blocks |-> {b}]

\* As built, with texts of 8 to 15 characters: the k-th block is the address of
\* the k-th slot of the pool's ring, and the text there takes two words.
Overlapping == [b \in Blocks |-> LET k == CHOOSE j \in 1 .. Cardinality(Blocks) :
                                                SetToSeq(Blocks)[j] = b
                                 IN {k, k + 1}]
=============================================================================
