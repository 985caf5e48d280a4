------------------------------ MODULE AbstractMutex ------------------------------
(***************************************************************************)
(* What tinycthread.h promises of a mutex: one thread at a time has it,    *)
(* more than once only if it is recursive.                                 *)
(***************************************************************************)
EXTENDS Integers

CONSTANT Client

VARIABLES
  held,      \* how often each thread has the mutex
  recursive  \* its type

Init ==
  /\ held = [t \in Client |-> 0]
  /\ recursive \in BOOLEAN

Take(t) ==
  /\ \A u \in Client \ {t} : held[u] = 0
  /\ recursive \/ held[t] = 0
  /\ held' = [held EXCEPT ![t] = @ + 1]
  /\ UNCHANGED recursive

Give(t) ==
  /\ held[t] > 0
  /\ held' = [held EXCEPT ![t] = @ - 1]
  /\ UNCHANGED recursive

Spec == Init /\ [][\E t \in Client : Take(t) \/ Give(t)]_<<held, recursive>>

==============================================================================
