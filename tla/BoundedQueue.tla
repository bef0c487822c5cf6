---------------------------- MODULE BoundedQueue ----------------------------
(***************************************************************************)
(* What ring_buffer.h of 04_shared_mempool promises to its callers: a      *)
(* bounded first-in first-out buffer of pointers that many threads may use *)
(* at once.  An operation is called, takes effect at one instant between   *)
(* its call and its return, and returns.                                   *)
(*   put    appends the item and answers true, or answers false when the  *)
(*          buffer is full;                                                *)
(*   get    removes and answers the oldest item, or answers NULL when the  *)
(*          buffer is empty;                                               *)
(*   reset  empties the buffer.                                            *)
(***************************************************************************)
EXTENDS Naturals, Sequences

CONSTANTS Threads,   \* the threads and processes that share the buffer
          Items,     \* the pointers callers store
          Capacity,  \* the capacity given to ring_buffer_init
          NULL,      \* the null pointer
          OK, FULL   \* the answers true and false of a put

VARIABLES queue,  \* the items in the buffer, oldest first
          phase,  \* how far the call of each thread has got
          arg,    \* the item each thread gave to the put it is in
          res     \* the answer of a call not yet returned from

qvars == <<queue, phase, arg, res>>

QInit == /\ queue = << >>
         /\ phase = [t \in Threads |-> "idle"]
         /\ arg = [t \in Threads |-> NULL]
         /\ res = [t \in Threads |-> NULL]

Begin(t, op) == /\ phase[t] = "idle"
                /\ phase' = [phase EXCEPT ![t] = op]
                /\ UNCHANGED <<queue, res>>

Answer(t, op, r) == /\ phase[t] = op
                    /\ phase' = [phase EXCEPT ![t] = "answered"]
                    /\ res' = [res EXCEPT ![t] = r]
                    /\ UNCHANGED arg

BeginPut(t, x) == Begin(t, "put") /\ arg' = [arg EXCEPT ![t] = x]
BeginGet(t)    == Begin(t, "get") /\ UNCHANGED arg
BeginReset(t)  == Begin(t, "reset") /\ UNCHANGED arg

PutOk(t)   == /\ Len(queue) < Capacity
              /\ queue' = Append(queue, arg[t])
              /\ Answer(t, "put", OK)

PutFull(t) == /\ Len(queue) = Capacity
              /\ UNCHANGED queue
              /\ Answer(t, "put", FULL)

GetOk(t)   == /\ queue # << >>
              /\ queue' = Tail(queue)
              /\ Answer(t, "get", Head(queue))

GetEmpty(t) == /\ queue = << >>
               /\ UNCHANGED queue
               /\ Answer(t, "get", NULL)

Reset(t)   == queue' = << >> /\ Answer(t, "reset", NULL)

End(t) == /\ phase[t] = "answered"
          /\ phase' = [phase EXCEPT ![t] = "idle"]
          /\ arg' = [arg EXCEPT ![t] = NULL]
          /\ res' = [res EXCEPT ![t] = NULL]
          /\ UNCHANGED queue

QNext == \E t \in Threads :
            \/ \E x \in Items : BeginPut(t, x)
            \/ BeginGet(t)
            \/ BeginReset(t)
            \/ PutOk(t)
            \/ PutFull(t)
            \/ GetOk(t)
            \/ GetEmpty(t)
            \/ Reset(t)
            \/ End(t)

QSpec == QInit /\ [][QNext]_qvars
=============================================================================
