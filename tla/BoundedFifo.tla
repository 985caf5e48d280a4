------------------------------ MODULE BoundedFifo ------------------------------
(***************************************************************************)
(* What a NeedleOS channel promises, with no slot and no link in it: the   *)
(* messages come out in the order they went in, each once, and a message   *)
(* is refused only while Capacity of them are waiting.                     *)
(***************************************************************************)
EXTENDS Integers, Sequences

CONSTANTS
  Message,   \* what can be sent
  Capacity,  \* most messages waiting at once
  Nothing    \* no message received yet

VARIABLES
  waiting,   \* the messages sent and not yet received, oldest first
  got        \* the message received last

Init == waiting = <<>> /\ got = Nothing

Put(m) ==
  /\ Len(waiting) < Capacity
  /\ waiting' = Append(waiting, m)
  /\ UNCHANGED got

Get ==
  /\ waiting # <<>>
  /\ got' = Head(waiting)
  /\ waiting' = Tail(waiting)

Next == Get \/ \E m \in Message : Put(m)

Spec == Init /\ [][Next]_<<waiting, got>>

==============================================================================
