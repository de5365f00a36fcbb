------------------------------ MODULE TaskPool ------------------------------
(***************************************************************************)
(* What ThreadPool promises the threads that hand it tasks, with no mutex, *)
(* condition variable or flag in sight: tasks begin in the order they were *)
(* queued, each once, one at a time on each worker; and once the pool is   *)
(* closed, a worker begins at most the one task it was already asking for. *)
(***************************************************************************)
EXTENDS Naturals, Sequences

CONSTANTS Workers   \* the threads that run tasks

VARIABLES pending,  \* tasks queued and not begun, oldest first
          running,  \* the task each worker runs, 0 for none
          last,     \* the number of tasks queued so far
          open,     \* the pool has not been closed
          asking    \* once closed: the workers that may begin one more task

vars == <<pending, running, last, open, asking>>

Init ==
  /\ pending = <<>>
  /\ running = [w \in Workers |-> 0]
  /\ last = 0
  /\ open = TRUE
  /\ asking = {}

Queue ==
  /\ last' = last + 1
  /\ pending' = Append(pending, last')
  /\ UNCHANGED <<running, open, asking>>

Begin(w) ==
  /\ open \/ w \in asking
  /\ running[w] = 0
  /\ pending # <<>>
  /\ running' = [running EXCEPT ![w] = Head(pending)]
  /\ pending' = Tail(pending)
  /\ asking' = asking \ {w}
  /\ UNCHANGED <<last, open>>

End(w) ==
  /\ running[w] # 0
  /\ running' = [running EXCEPT ![w] = 0]
  /\ UNCHANGED <<pending, last, open, asking>>

Close ==
  /\ open
  /\ open' = FALSE
  /\ asking' \in SUBSET {w \in Workers : running[w] = 0}
  /\ UNCHANGED <<pending, running, last>>

(* A worker that was asking finds nothing to do and leaves. *)
Leave(w) ==
  /\ asking' = asking \ {w}
  /\ UNCHANGED <<pending, running, last, open>>

Next ==
  \/ Queue
  \/ Close
  \/ \E w \in Workers : Begin(w) \/ End(w) \/ Leave(w)

Spec == Init /\ [][Next]_vars

=============================================================================
