-------------------------------- MODULE Channel --------------------------------
(***************************************************************************)
(* One channel page of kernel/channel.c: the array msgs of message slots,  *)
(* the slots given back (free, a stack), the slots never used yet (from    *)
(* used on) and the queue normal_priority, all threaded through the one    *)
(* `next' word of each slot.  kern_send takes a slot and queues it,        *)
(* kern_recv unqueues a slot and gives it back; both run under the core    *)
(* lock, so each is one step.  kern_send fails with NDL_EWOULDBLOCK when   *)
(* it finds no slot and then changes nothing.                              *)
(*                                                                         *)
(* Slots are 1..NumMsgs in address order, 0 is the NULL pointer, and       *)
(* NumMsgs + 1 is &msgs[NUM_MSGS].  Channel ends, ready masks and sleeping *)
(* receivers are in module Kernel, pages sent along in PageTransfer.       *)
(***************************************************************************)
EXTENDS Integers, Sequences

CONSTANTS
  NumMsgs,   \* NUM_MSGS, 128 in kernel.h
  Message,   \* what a slot can carry: cmd and obj
  Nothing    \* what a slot carries, and a receiver has got, at the start

ASSUME NumMsgsOK == NumMsgs \in Nat \ {0}

Slot == 1 .. NumMsgs
Null == 0
Ptr  == Slot \cup {Null}

VARIABLES
  used,         \* the first slot never used
  free,         \* the slot given back last
  next, body,   \* msg.next, and msg.cmd with msg.obj
  first, last,  \* normal_priority
  got,          \* what kern_recv last returned through its argument r
  order,        \* history: the queued slots, oldest first
  spare         \* history: the slots given back, latest first

pool  == <<used, free>>
queue == <<first, last>>
vars  == <<pool, next, body, queue, got, order, spare>>

TypeOK ==
  /\ used \in 1 .. NumMsgs + 1
  /\ free \in Ptr
  /\ next \in [Slot -> Ptr]
  /\ body \in [Slot -> Message \cup {Nothing}]
  /\ first \in Ptr
  /\ last \in Ptr
  /\ got \in Message \cup {Nothing}
  /\ order \in Seq(Slot)
  /\ spare \in Seq(Slot)

\* kern_pipe clears the page and sets used to the first slot.
Init ==
  /\ used = 1
  /\ free = Null
  /\ next = [s \in Slot |-> Null]
  /\ body = [s \in Slot |-> Nothing]
  /\ first = Null
  /\ last = Null
  /\ got = Nothing
  /\ order = <<>>
  /\ spare = <<>>

\* kern_send has no slot to put the message in.
FullAtLastSlot == free = Null /\ used >= NumMsgs    \* a mistaken Full
FullPastEnd == free = Null /\ used > NumMsgs + 1    \* another
Full == free = Null /\ used > NumMsgs

\* The slot kern_send takes: one given back if there is one, else a fresh one.
FreshFirst == IF used <= NumMsgs THEN used ELSE free   \* a mistaken Taken
Taken == IF free # Null THEN free ELSE used

\* Slot s goes to the end of the queue: end->next = m, then m->next = NULL.
Linked(s) ==
  [(IF last # Null THEN [next EXCEPT ![last] = s] ELSE next) EXCEPT ![s] = Null]

Send(m) ==
  /\ ~Full
  /\ IF free # Null
       THEN free' = next[free] /\ spare' = Tail(spare) /\ UNCHANGED used
       ELSE used' = used + 1 /\ UNCHANGED <<free, spare>>
  /\ body' = [body EXCEPT ![Taken] = m]
  /\ first' = IF last = Null THEN Taken ELSE first
  /\ next' = Linked(Taken)
  /\ last' = Taken
  /\ order' = Append(order, Taken)
  /\ UNCHANGED got

\* The end of the queue once its head is gone.
LastKept == last   \* a mistaken LastAfterRecv: the reset is forgotten
LastAfterRecv == IF next[first] = Null THEN Null ELSE last

\* The ready bit is set, so the queue is not empty (assert(msg)).
Recv ==
  /\ first # Null
  /\ first' = next[first]
  /\ last' = LastAfterRecv
  /\ got' = body[first]
  /\ next' = [next EXCEPT ![first] = free]
  /\ free' = first
  /\ order' = Tail(order)
  /\ spare' = <<first>> \o spare
  /\ UNCHANGED <<used, body>>

Next == Recv \/ \E m \in Message : Send(m)

Spec == Init /\ [][Next]_vars

-----------------------------------------------------------------------------
(* Properties                                                              *)

\* The links n lead from h through exactly the slots of s, in order, to NULL.
IsChain(n, h, s) ==
  /\ h = IF s = <<>> THEN Null ELSE s[1]
  /\ \A i \in 1 .. Len(s) : n[s[i]] = IF i = Len(s) THEN Null ELSE s[i + 1]

(***************************************************************************)
(* The queue and the stack of given-back slots run through the same links  *)
(* and never meet: they hold every slot below used, each slot once, and    *)
(* the queue's last is the end of the list that starts at its first.       *)
(***************************************************************************)
SlotsPartitioned ==
  /\ IsChain(next, first, order)
  /\ IsChain(next, free, spare)
  /\ last = IF order = <<>> THEN Null ELSE order[Len(order)]
  /\ Len(order) + Len(spare) = used - 1
  /\ \A i, j \in 1 .. Len(order) : order[i] = order[j] => i = j
  /\ \A i, j \in 1 .. Len(spare) : spare[i] = spare[j] => i = j
  /\ \A i \in 1 .. Len(order), j \in 1 .. Len(spare) : order[i] # spare[j]
  /\ \A i \in 1 .. Len(order) : order[i] < used
  /\ \A i \in 1 .. Len(spare) : spare[i] < used

(***************************************************************************)
(* kern_send answers NDL_EWOULDBLOCK, "overfull channel", exactly while    *)
(* NUM_MSGS messages are queued: giving slots back loses none of them.     *)
(***************************************************************************)
RefusesOnlyWhenFull == Full <=> Len(order) = NumMsgs

(***************************************************************************)
(* The slots implement a bounded queue: every message is received once,    *)
(* unchanged and in the order of sending, however slots are reused.        *)
(***************************************************************************)
Waiting == [i \in 1 .. Len(order) |-> body[order[i]]]

Fifo == INSTANCE BoundedFifo WITH waiting <- Waiting, Capacity <- NumMsgs

IsFifo == Fifo!Spec

==============================================================================
