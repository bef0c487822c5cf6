------------------------------ MODULE MPMCTest ------------------------------
(***************************************************************************)
(* test_mpmc_ring_buffer of 04_shared_mempool/mempool_test.c: producers    *)
(* and consumers that drive one ring until each thinks its work is done.   *)
(* The calls, and the interleaving inside them, are those of MPMCRing; the *)
(* loops around the calls are modelled here.                               *)
(***************************************************************************)
EXTENDS MPMCRing, FiniteSets, Functions

CONSTANTS Producers, Consumers,  \* the threads the test creates
          Values,                \* args->values of each producer
          Ops,                   \* OPERATIONS_PER_THREAD
          MaxEmpty               \* max_consecutive_empty

ASSUME TestAssumption == /\ Threads = Producers \cup Consumers
                         /\ Producers \cap Consumers = {}
                         /\ IsFiniteSet(Producers) /\ IsFiniteSet(Consumers)
                         /\ Cardinality(Producers) = Cardinality(Consumers)
                         /\ Ops \in Nat \ {0} /\ MaxEmpty \in Nat
                         /\ OK # FULL /\ NULL \notin {OK, FULL}
                         /\ Capacity = Ops * Cardinality(Producers)
                         /\ Values \in [Producers -> [1 .. Ops -> Items]]
                         /\ IsFiniteSet(Items) /\ Cardinality(Items) = Capacity
                         /\ Items = UNION {Range(Values[p]) : p \in Producers}

VARIABLES made,     \* i, the successful puts of each producer
          read,     \* what each consumer got; items_consumed is its length
          empties   \* consecutive_empty of each consumer, up to MaxEmpty

tvars == <<vars, made, read, empties>>

TestInit == /\ Init
            /\ made = [p \in Producers |-> 0]
            /\ read = [c \in Consumers |-> << >>]
            /\ empties = [c \in Consumers |-> 0]

\* One pass of the producer's inner loop: put until the ring accepts.
ProducerCall(p) == /\ made[p] < Ops
                   /\ CallPut(p, Values[p][made[p] + 1])
                   /\ UNCHANGED <<made, read, empties>>

ProducerReturn(p) == /\ Return(p)
                     /\ made' = [made EXCEPT ![p] = @ + (IF ret[p] = OK THEN 1 ELSE 0)]
                     /\ UNCHANGED <<read, empties>>

\* The loop condition of the consumer, with its disjunction.
KeepsConsuming(c) == Len(read[c]) < Ops \/ empties[c] < MaxEmpty

ConsumerCall(c) == /\ KeepsConsuming(c)
                   /\ CallGet(c)
                   /\ UNCHANGED <<made, read, empties>>

\* The int consecutive_empty is only compared with its maximum; it stops
\* there instead of growing.
ConsumerReturn(c) ==
  /\ Return(c)
  /\ \/ /\ ret[c] # NULL
        /\ read' = [read EXCEPT ![c] = Append(@, ret[c])]
        /\ empties' = [empties EXCEPT ![c] = 0]
     \/ /\ ret[c] = NULL
        /\ empties' = [empties EXCEPT ![c] = IF @ < MaxEmpty THEN @ + 1 ELSE @]
        /\ UNCHANGED read
  /\ UNCHANGED made

InRing(t) == (PutStep(t) \/ GetStep(t)) /\ UNCHANGED <<made, read, empties>>

ProducerDone(p) == pc[p] = "idle" /\ made[p] = Ops
ConsumerDone(c) == pc[c] = "idle" /\ ~KeepsConsuming(c)

\* Both loops of pthread_join have returned.
AllJoined == /\ \A p \in Producers : ProducerDone(p)
             /\ \A c \in Consumers : ConsumerDone(c)

Producer(p) == ProducerCall(p) \/ InRing(p) \/ ProducerReturn(p)
Consumer(c) == ConsumerCall(c) \/ InRing(c) \/ ConsumerReturn(c)

TestNext == \/ \E p \in Producers : Producer(p)
            \/ \E c \in Consumers : Consumer(c)
            \/ AllJoined /\ UNCHANGED tvars

\* Every thread of the test is scheduled.  Nothing is assumed of who wins a
\* spinlock: locks are only taken while there are items left to move.
TestSpec == /\ TestInit /\ [][TestNext]_tvars
            /\ \A p \in Producers : WF_tvars(Producer(p))
            /\ \A c \in Consumers : WF_tvars(Consumer(c))

-----------------------------------------------------------------------------
(* However the threads interleave, no value is delivered twice: not to two
   consumers, nor to one. *)
NoValueTwice ==
  \A c, d \in Consumers : \A i \in 1 .. Len(read[c]), j \in 1 .. Len(read[d]) :
     <<c, i>> # <<d, j>> => read[c][i] # read[d][j]

(* If the joins return, every value has been delivered, the ring is empty as
   the assertion after them asks (line 270), and the consumers have shared
   the values out evenly: the test cannot end in any other way. *)
EndsAllRead ==
  AllJoined => /\ UNION {Range(read[c]) : c \in Consumers} = Items
               /\ count = 0
               /\ \A c \in Consumers : Len(read[c]) = Ops

(* The first join loop ends: producers complete. *)
ProducersComplete == <>(\A p \in Producers : ProducerDone(p))

(* Some consumer always completes. *)
SomeConsumerCompletes == <>(\E c \in Consumers : ConsumerDone(c))
=============================================================================
