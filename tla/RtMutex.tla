------------------------------ MODULE RtMutex ------------------------------
(***************************************************************************)
(* The mutex of the RT-Thread kernel in this repository (ipc.c), with the  *)
(* inheritance of priorities and the hand-over to the first waiting        *)
(* thread. A smaller number is a higher priority. No thread here takes a   *)
(* mutex it holds, so the count of nested takes is left out.               *)
(***************************************************************************)
EXTENDS Integers, Sequences, SequencesExt

CONSTANTS Threads, NoThread

Free == [value |-> 1, owner |-> NoThread, original |-> 255, waiting |-> <<>>]

Mutexes ==
  [value : {0, 1}, owner : Threads \union {NoThread}, original : 0..255,
   waiting : {w \in UNION {[1..n -> Threads] : n \in 0..2} : IsInjective(w)}]

Available(m) == m.value > 0

Taken(m, t, prio) ==
  [m EXCEPT !.value = @ - 1, !.owner = t, !.original = prio[t]]

\* rt_ipc_list_suspend with RT_IPC_FLAG_PRIO: before the first of a lower priority.
Ahead(waiting, t, prio) ==
  CHOOSE n \in 0..Len(waiting) :
    /\ \A m \in 1..n : prio[waiting[m]] <= prio[t]
    /\ n < Len(waiting) => prio[waiting[n + 1]] > prio[t]

Queued(waiting, t, prio) == InsertAt(waiting, Ahead(waiting, t, prio) + 1, t)

Suspended(m, t, prio) == [m EXCEPT !.waiting = Queued(@, t, prio)]

\* The owner runs at the priority of whoever waits for it, if that is higher.
Boosted(m, t, prio) ==
  IF prio[t] < prio[m.owner] THEN [prio EXCEPT ![m.owner] = prio[t]] ELSE prio

\* Mutant: the owner keeps the priority it was lent.
Kept(m, prio) == prio

Restored(m, prio) == [prio EXCEPT ![m.owner] = m.original]

\* Mutant: the mutex is given up, and nobody who waits is told.
GivenUp(m, prio) == [m EXCEPT !.value = 1, !.owner = NoThread, !.original = 255]

Released(m, prio) ==
  IF m.waiting = <<>>
  THEN [m EXCEPT !.value = @ + 1, !.owner = NoThread, !.original = 255]
  ELSE LET t == Head(m.waiting)
       IN  [m EXCEPT !.owner = t, !.original = prio[t], !.waiting = Tail(@)]
=============================================================================
