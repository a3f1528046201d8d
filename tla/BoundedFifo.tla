---------------------------- MODULE BoundedFifo ----------------------------
(***************************************************************************)
(* What ogs-queue promises its callers: a first-in first-out queue of at   *)
(* most Capacity items that any thread may push to and pop from.  A call   *)
(* either takes effect at one instant between its invocation and its       *)
(* return and then answers OK, or it leaves the queue as it was.           *)
(***************************************************************************)
EXTENDS Naturals, Sequences

CONSTANTS Threads,    \* the threads of the process that use the queue
          Data,       \* the pointers that may be pushed
          Capacity,   \* the capacity given to ogs_queue_create
          NoCall,     \* "this thread is outside the queue"
          NoItem      \* the item part of an answer that carries none

VARIABLES fifo,       \* the items, oldest first
          terminated, \* ogs_queue_term has been called
          call,       \* the call each thread is in, or NoCall
          ret         \* what the last call of each thread answered

vars == <<fifo, terminated, call, ret>>

Timeouts == {"try", "timed", "forever"}
Calls == [op : {"push"}, timeout : Timeouts, item : Data]
           \cup [op : {"pop"}, timeout : Timeouts, item : {NoItem}]

Init == /\ fifo = << >>
        /\ terminated = FALSE
        /\ call = [t \in Threads |-> NoCall]
        /\ ret = [t \in Threads |-> [status |-> "none", item |-> NoItem]]

Invoke(t) == /\ call[t] = NoCall
             /\ \E c \in Calls : call' = [call EXCEPT ![t] = c]
             /\ ret' = [ret EXCEPT ![t] = [status |-> "none", item |-> NoItem]]
             /\ UNCHANGED <<fifo, terminated>>

Answer(t, s, d) == /\ call' = [call EXCEPT ![t] = NoCall]
                   /\ ret' = [ret EXCEPT ![t] = [status |-> s, item |-> d]]

Enqueue(t) == /\ call[t] # NoCall
              /\ call[t].op = "push"
              /\ Len(fifo) < Capacity
              /\ fifo' = Append(fifo, call[t].item)
              /\ Answer(t, "OK", NoItem)
              /\ UNCHANGED terminated

Dequeue(t) == /\ call[t] # NoCall
              /\ call[t].op = "pop"
              /\ fifo # << >>
              /\ fifo' = Tail(fifo)
              /\ Answer(t, "OK", Head(fifo))
              /\ UNCHANGED terminated

\* Nothing can be pushed (popped) right now.
Stuck(op) == IF op = "push" THEN Len(fifo) = Capacity ELSE fifo = << >>

\* A call that has no effect, and the answers it may give: RETRY only to a
\* non-blocking call that found the queue full (empty), TIMEUP only to a
\* timed call, DONE only after termination, ERROR only to a blocking call.
Decline(t) ==
  /\ call[t] # NoCall
  /\ \/ /\ call[t].timeout = "try"
        /\ Stuck(call[t].op)
        /\ Answer(t, "RETRY", NoItem)
     \/ /\ call[t].timeout = "timed"
        /\ Answer(t, "TIMEUP", NoItem)
     \/ /\ terminated
        /\ Answer(t, "DONE", NoItem)
     \/ /\ call[t].timeout # "try"
        /\ Answer(t, "ERROR", NoItem)
  /\ UNCHANGED <<fifo, terminated>>

Terminate == /\ terminated' = TRUE
             /\ UNCHANGED <<fifo, call, ret>>

Next == \/ \E t \in Threads : Invoke(t) \/ Enqueue(t) \/ Dequeue(t) \/ Decline(t)
        \/ Terminate

Spec == Init /\ [][Next]_vars
=============================================================================
