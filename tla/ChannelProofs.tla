----------------------------- MODULE ChannelProofs -----------------------------
(***************************************************************************)
(* Proofs about Channel for every NUM_MSGS: the two lists threaded through *)
(* the slots' one link word stay apart, so the channel is a bounded queue. *)
(* IInv, the inductive invariant, is TypeOK with SlotsPartitioned.         *)
(***************************************************************************)
EXTENDS Channel, TLAPS, SequenceTheorems

IInv == TypeOK /\ SlotsPartitioned

\* What Append does to a sequence.
LEMMA Appended ==
  ASSUME NEW S, NEW sq \in Seq(S), NEW e \in S, NEW k \in Nat, k = Len(sq)
  PROVE  /\ Append(sq, e) \in Seq(S)
         /\ Len(Append(sq, e)) = k + 1
         /\ Append(sq, e)[k + 1] = e
         /\ \A i \in 1 .. k : Append(sq, e)[i] = sq[i]
OBVIOUS

\* The queue's head and end, read off its pointers.
LEMMA QueueEnds ==
  ASSUME TypeOK, SlotsPartitioned
  PROVE  /\ first = Null <=> order = <<>>
         /\ last = Null <=> order = <<>>
         /\ order # <<>> => /\ Len(order) \in Nat \ {0}
                            /\ first = order[1] /\ first \in Slot
                            /\ last = order[Len(order)] /\ last \in Slot
                            /\ next[last] = Null
<1>1. order # <<>> => Len(order) \in Nat \ {0} /\ order[1] \in Slot /\ order[Len(order)] \in Slot
      BY DEF TypeOK
<1>2. Null \notin Slot
      BY DEF Null, Slot
<1> QED
    BY <1>1, <1>2 DEF SlotsPartitioned, IsChain

\* The same for the stack of slots given back.
LEMMA SpareTop ==
  ASSUME TypeOK, SlotsPartitioned
  PROVE  /\ free = Null <=> spare = <<>>
         /\ spare # <<>> => Len(spare) \in Nat \ {0} /\ free = spare[1] /\ free \in Slot
<1>1. spare # <<>> => Len(spare) \in Nat \ {0} /\ spare[1] \in Slot
      BY DEF TypeOK
<1>2. Null \notin Slot
      BY DEF Null, Slot
<1> QED
    BY <1>1, <1>2 DEF SlotsPartitioned, IsChain

\* kern_send takes a slot that is in neither list.
LEMMA TakenIsFree ==
  ASSUME TypeOK, SlotsPartitioned, ~Full
  PROVE  /\ Taken \in Slot
         /\ \A i \in 1 .. Len(order) : order[i] # Taken
<1>1. CASE free # Null
      BY <1>1, SpareTop DEF Taken, SlotsPartitioned
<1>2. CASE free = Null
      BY <1>2, NumMsgsOK DEF Taken, Full, TypeOK, Slot, SlotsPartitioned
<1> QED
    BY <1>1, <1>2

-----------------------------------------------------------------------------
(* Type correctness                                                        *)

\* kern_pipe leaves every pointer NULL or at the first slot.
LEMMA TypeInit == Init => TypeOK
BY NumMsgsOK DEF Init, TypeOK, Slot, Ptr, Null

\* kern_send and kern_recv follow only pointers to slots of the array.
LEMMA TypeNext ==
  ASSUME IInv, [Next]_vars
  PROVE  TypeOK'
<1>1. TypeOK /\ SlotsPartitioned
      BY DEF IInv
<1>2. ASSUME NEW m \in Message, Send(m) PROVE TypeOK'
      <2>1. Taken \in Slot
            BY <1>1, <1>2, TakenIsFree DEF Send
      <2>2. used' \in 1 .. NumMsgs + 1 /\ free' \in Ptr /\ spare' \in Seq(Slot)
            <3>1. CASE free # Null
                  <4>1. spare \in Seq(Slot) /\ spare # <<>> /\ free \in Slot
                        BY <1>1, <3>1, SpareTop DEF TypeOK
                  <4>2. Tail(spare) \in Seq(Slot)
                        BY <4>1
                  <4> QED
                      BY <1>1, <1>2, <3>1, <4>1, <4>2 DEF Send, TypeOK
            <3>2. CASE free = Null
                  BY <1>1, <1>2, <3>2, NumMsgsOK DEF Send, Full, TypeOK
            <3> QED
                BY <3>1, <3>2
      <2>3. next' \in [Slot -> Ptr]
            BY <1>1, <1>2, <2>1 DEF Send, Linked, TypeOK, Ptr
      <2>4. body' \in [Slot -> Message \cup {Nothing}]
            BY <1>1, <1>2, <2>1 DEF Send, TypeOK
      <2>5. first' \in Ptr /\ last' \in Ptr /\ got' \in Message \cup {Nothing}
            BY <1>1, <1>2, <2>1 DEF Send, TypeOK, Ptr
      <2>6. order' \in Seq(Slot)
            BY <1>1, <1>2, <2>1 DEF Send, TypeOK
      <2> QED
          BY <2>2, <2>3, <2>4, <2>5, <2>6 DEF TypeOK
<1>3. ASSUME Recv PROVE TypeOK'
      <2>1. first \in Slot /\ order # <<>>
            BY <1>1, <1>3, QueueEnds DEF Recv
      <2>2. Tail(order) \in Seq(Slot) /\ <<first>> \o spare \in Seq(Slot)
            BY <1>1, <2>1 DEF TypeOK
      <2> QED
          BY <1>1, <1>3, <2>1, <2>2 DEF Recv, TypeOK, Ptr, LastAfterRecv
<1>4. ASSUME UNCHANGED vars PROVE TypeOK'
      BY <1>1, <1>4 DEF vars, pool, queue, TypeOK
<1> QED
    BY <1>2, <1>3, <1>4 DEF Next

-----------------------------------------------------------------------------
(* The two lists                                                           *)

\* In a new channel page both lists are empty.
LEMMA SlotsInit == Init => SlotsPartitioned
BY DEF Init, SlotsPartitioned, IsChain, Null

\* kern_send keeps the two lists apart.
LEMMA SlotsSend ==
  ASSUME IInv, NEW m \in Message, Send(m)
  PROVE  SlotsPartitioned'
<1>1. TypeOK /\ SlotsPartitioned /\ ~Full
      BY DEF IInv, Send
<1>2. /\ Taken \in Slot
      /\ \A i \in 1 .. Len(order) : order[i] # Taken
      BY <1>1, TakenIsFree
<1>3. PICK s \in Slot : s = Taken
      BY <1>2
<1>4. PICK n \in Nat : n = Len(order)
      BY <1>1 DEF TypeOK
<1>5. /\ order' = Append(order, s)
      /\ Len(order') = n + 1
      /\ \A i \in 1 .. n : order'[i] = order[i] /\ order[i] \in Slot /\ order[i] # s
      /\ order'[n + 1] = s
      <2>1. order' = Append(order, s) /\ order \in Seq(Slot)
            BY <1>1, <1>3 DEF Send, TypeOK
      <2>2. \A i \in 1 .. n : order[i] \in Slot /\ order[i] # s
            BY <1>2, <1>3, <1>4, <2>1
      <2> QED
          BY <1>4, <2>1, <2>2
<1>6. PICK q \in Nat : q = Len(spare)
      BY <1>1 DEF TypeOK
<1>7. \* the stack of slots given back
      /\ spare \in Seq(Slot) /\ n + q = used - 1 /\ used \in Nat
      /\ \A i \in 1 .. q : /\ spare[i] \in Slot /\ spare[i] < used
                           /\ next[spare[i]] = IF i = q THEN Null ELSE spare[i + 1]
                           /\ \A j \in 1 .. q : spare[i] = spare[j] => i = j
                           /\ \A j \in 1 .. n : order[j] # spare[i]
      BY <1>1, <1>4, <1>6 DEF SlotsPartitioned, IsChain, TypeOK
<1>8. \* the same without the slot taken
      \E k \in {0, 1} :
        /\ spare' \in Seq(Slot) /\ Len(spare') = q - k /\ q - k \in Nat
        /\ \A i \in 1 .. q - k : spare'[i] = spare[i + k] /\ spare[i + k] # s
        /\ free' = IF q - k = 0 THEN Null ELSE spare[1 + k]
        /\ n + 1 + (q - k) = used' - 1
        /\ used' \in Nat /\ s < used' /\ used <= used'
      <2>1. CASE free # Null
            <3>1. spare # <<>> /\ q # 0 /\ spare[1] = s
                  BY <1>1, <1>3, <1>6, <2>1, SpareTop DEF Taken
            <3>2. spare' = Tail(spare) /\ used' = used /\ free' = next[s]
                  BY <1>3, <2>1 DEF Send, Taken
            <3>3. /\ spare' \in Seq(Slot)
                  /\ Len(spare') = q - 1
                  /\ \A i \in 1 .. q - 1 : spare'[i] = spare[i + 1]
                  BY <1>6, <1>7, <3>1, <3>2
            <3>4. \A i \in 1 .. q - 1 : i + 1 \in 1 .. q /\ 1 \in 1 .. q /\ i + 1 # 1
                  BY <3>1
            <3>5. \A i \in 1 .. q - 1 : spare[i + 1] # s
                  BY <1>7, <3>1, <3>4
            <3>6. free' = IF q = 1 THEN Null ELSE spare[2]
                  BY <1>7, <3>1, <3>2
            <3>7. s < used
                  BY <1>7, <3>1
            <3> QED
                BY <1>7, <3>1, <3>2, <3>3, <3>5, <3>6, <3>7
      <2>2. CASE free = Null
            <3>1. q = 0 /\ spare' = spare /\ used' = used + 1 /\ free' = Null /\ s = used
                  BY <1>1, <1>3, <1>6, <2>2, SpareTop DEF Send, Taken
            <3>2. q - 0 = 0 /\ spare' \in Seq(Slot) /\ Len(spare') = q - 0
                  <4>1. spare' = spare
                        BY <3>1
                  <4>2. Len(spare') = q /\ spare' \in Seq(Slot)
                        BY <1>6, <1>7, <4>1, Zenon
                  <4> QED
                      BY <3>1, <4>2
            <3>3. used' \in Nat /\ s < used' /\ used <= used'
                  BY <1>7, <3>1
            <3>4. n + 1 + (q - 0) = used' - 1
                  BY <1>7, <3>1
            <3>5. \A i \in 1 .. q - 0 : FALSE
                  BY <3>2
            <3> QED
                BY <3>1, <3>2, <3>3, <3>4, <3>5
      <2> QED
          BY <2>1, <2>2
<1>9. PICK k \in {0, 1} :
        /\ spare' \in Seq(Slot) /\ Len(spare') = q - k /\ q - k \in Nat
        /\ \A i \in 1 .. q - k : spare'[i] = spare[i + k] /\ spare[i + k] # s
        /\ free' = IF q - k = 0 THEN Null ELSE spare[1 + k]
        /\ n + 1 + (q - k) = used' - 1
        /\ used' \in Nat /\ s < used' /\ used <= used'
      BY <1>8
<1>10. PICK r \in Nat : r = q - k
       BY <1>9
<1>11. \A i \in 1 .. r : i + k \in 1 .. q /\ (i = r <=> i + k = q) /\ spare'[i] = spare[i + k] /\ spare[i + k] # s
       BY <1>9, <1>10
<1>12. /\ last' = s
       /\ first' = IF n = 0 THEN s ELSE order[1]
       BY <1>1, <1>3, <1>4, QueueEnds DEF Send
<1>13. /\ next'[s] = Null
       /\ n # 0 => next'[order[n]] = s
       /\ \A d \in Slot : d # s /\ (n # 0 => d # order[n]) => next'[d] = next[d]
       BY <1>1, <1>3, <1>4, <1>5, QueueEnds DEF Send, Linked, TypeOK
<1>14. IsChain(next', first', order')
       <2>1. \A i \in 1 .. n : next'[order[i]] = IF i = n THEN s ELSE order[i + 1]
             <3> SUFFICES ASSUME NEW i \in 1 .. n
                          PROVE  next'[order[i]] = IF i = n THEN s ELSE order[i + 1]
                 OBVIOUS
             <3>1. CASE i = n
                   BY <1>13, <3>1
             <3>2. CASE i # n
                   BY <1>1, <1>4, <1>5, <1>13, <3>2 DEF SlotsPartitioned, IsChain
             <3> QED
                 BY <3>1, <3>2
       <2> QED
           BY <1>4, <1>5, <1>12, <1>13, <2>1 DEF IsChain
<1>15. IsChain(next', free', spare')
       <2>1. \A i \in 1 .. r : next'[spare'[i]] = next[spare[i + k]]
             BY <1>7, <1>11, <1>13
       <2>2. \A i \in 1 .. r : next'[spare'[i]] = IF i = r THEN Null ELSE spare'[i + 1]
             <3> SUFFICES ASSUME NEW i \in 1 .. r
                          PROVE  next'[spare'[i]] = IF i = r THEN Null ELSE spare'[i + 1]
                 OBVIOUS
             <3>1. next'[spare'[i]] = IF i + k = q THEN Null ELSE spare[i + k + 1]
                   BY <1>7, <1>11, <2>1
             <3>2. CASE i = r
                   BY <1>11, <3>1, <3>2
             <3>3. CASE i # r
                   <4>1. i + 1 \in 1 .. r /\ (i + 1) + k = i + k + 1
                         BY <3>3
                   <4> QED
                       BY <1>11, <3>1, <3>3, <4>1
             <3> QED
                 BY <3>2, <3>3
       <2>3. spare' = <<>> <=> r = 0
             BY <1>9, <1>10
       <2>4. r # 0 => spare'[1] = spare[1 + k]
             BY <1>11
       <2> QED
           BY <1>9, <1>10, <2>2, <2>3, <2>4 DEF IsChain
<1>16. \A i \in 1 .. n + 1 : i \in 1 .. n \/ i = n + 1
       OBVIOUS
<1>17. /\ \A i, j \in 1 .. n + 1 : order'[i] = order'[j] => i = j
       /\ \A i \in 1 .. n + 1 : order'[i] < used'
       <2>1. \A i, j \in 1 .. n : order[i] = order[j] => i = j
             BY <1>1, <1>4 DEF SlotsPartitioned
       <2>2. \A i \in 1 .. n : order[i] < used /\ order[i] \in Int
             BY <1>1, <1>4, <1>5 DEF SlotsPartitioned, Slot
       <2>3. \A i \in 1 .. n : order[i] < used'
             BY <1>7, <1>9, <2>2
       <2> QED
           BY <1>5, <1>9, <1>16, <2>1, <2>3
<1>18. /\ \A i, j \in 1 .. r : spare'[i] = spare'[j] => i = j
       /\ \A i \in 1 .. n + 1, j \in 1 .. r : order'[i] # spare'[j]
       /\ \A i \in 1 .. r : spare'[i] < used'
       <2>1. \A i, j \in 1 .. r : spare'[i] = spare'[j] => i + k = j + k
             BY <1>7, <1>11
       <2>2. \A i \in 1 .. n, j \in 1 .. r : order[i] # spare'[j]
             BY <1>7, <1>11
       <2>3. \A i \in 1 .. r : spare'[i] < used /\ spare'[i] \in Int
             BY <1>7, <1>11 DEF Slot
       <2>4. \A i, j \in 1 .. r : spare'[i] = spare'[j] => i = j
             BY <1>9, <2>1
       <2>5. \A j \in 1 .. r : s # spare'[j]
             BY <1>11
       <2>6. \A i \in 1 .. n + 1, j \in 1 .. r : order'[i] # spare'[j]
             BY <1>5, <1>16, <2>2, <2>5
       <2>7. \A i \in 1 .. r : spare'[i] < used'
             BY <1>7, <1>9, <2>3
       <2> QED
           BY <2>4, <2>6, <2>7
<1>19. last' = IF order' = <<>> THEN Null ELSE order'[Len(order')]
       BY <1>4, <1>5, <1>12
<1>20. Len(order') = n + 1 /\ Len(spare') = r /\ Len(order') + Len(spare') = used' - 1
       BY <1>5, <1>9, <1>10
<1>21. \A i \in 1 .. n + 1, j \in 1 .. r : order'[i] # spare'[j]
       BY <1>18
<1> QED
    BY <1>14, <1>15, <1>17, <1>18, <1>19, <1>20, <1>21 DEF SlotsPartitioned

\* kern_recv moves the queue's head to the stack.
LEMMA SlotsRecv ==
  ASSUME IInv, Recv
  PROVE  SlotsPartitioned'
<1>1. TypeOK /\ SlotsPartitioned
      BY DEF IInv
<1>2. /\ order # <<>> /\ first = order[1] /\ first \in Slot
      BY <1>1, QueueEnds DEF Recv
<1>3. PICK s \in Slot : s = first
      BY <1>2
<1>4. PICK n \in Nat : n + 1 = Len(order) /\ order[1] = s
      BY <1>1, <1>2, <1>3, QueueEnds
<1>5. PICK k \in Nat : k = Len(spare)
      BY <1>1 DEF TypeOK
<1>6. /\ Len(order') = n
      /\ \A i \in 1 .. n : order'[i] = order[i + 1] /\ order[i + 1] \in Slot
      BY <1>1, <1>2, <1>4 DEF Recv, TypeOK
<1>7. /\ Len(spare') = k + 1
      /\ spare'[1] = s
      /\ \A i \in 1 .. k : spare'[i + 1] = spare[i] /\ spare[i] \in Slot
      BY <1>1, <1>3, <1>5 DEF Recv, TypeOK
<1>8. /\ next' = [next EXCEPT ![s] = free]
      /\ first' = next[s] /\ free' = s /\ used' = used
      BY <1>3 DEF Recv
<1>9. /\ \A i \in 1 .. n : order'[i] # s
      /\ \A i \in 1 .. k : spare[i] # s
      BY <1>1, <1>4, <1>5, <1>6 DEF SlotsPartitioned
<1>10. IsChain(next', first', order')
      <2>1. next[s] = IF n = 0 THEN Null ELSE order[2]
            BY <1>1, <1>4 DEF SlotsPartitioned, IsChain
      <2>2. \A i \in 1 .. n : next'[order'[i]] = IF i = n THEN Null ELSE order'[i + 1]
            BY <1>1, <1>4, <1>6, <1>8, <1>9 DEF SlotsPartitioned, IsChain, TypeOK
      <2> QED
          BY <1>6, <1>8, <2>1, <2>2 DEF IsChain
<1>11. IsChain(next', free', spare')
      <2>1. free = IF k = 0 THEN Null ELSE spare[1]
            BY <1>1, <1>5 DEF SlotsPartitioned, IsChain
      <2>2. next'[s] = IF k + 1 = 1 THEN Null ELSE spare'[2]
            BY <1>1, <1>7, <1>8, <2>1 DEF TypeOK
      <2>3. \A i \in 1 .. k : next'[spare[i]] = IF i = k THEN Null ELSE spare[i + 1]
            BY <1>1, <1>5, <1>7, <1>8, <1>9 DEF SlotsPartitioned, IsChain, TypeOK
      <2>4. \A i \in 2 .. k + 1 : next'[spare'[i]] = IF i = k + 1 THEN Null ELSE spare'[i + 1]
            <3> SUFFICES ASSUME NEW i \in 2 .. k + 1
                         PROVE  next'[spare'[i]] = IF i = k + 1 THEN Null ELSE spare'[i + 1]
                OBVIOUS
            <3>1. PICK j \in 1 .. k : i = j + 1
                  OBVIOUS
            <3>2. spare'[i] = spare[j] /\ (j < k => spare'[i + 1] = spare[j + 1])
                  BY <1>7, <3>1
            <3> QED
                BY <2>3, <3>1, <3>2
      <2> QED
          BY <1>7, <1>8, <2>2, <2>4 DEF IsChain
<1>12. last' = IF order' = <<>> THEN Null ELSE order'[Len(order')]
      <2>1. last = order[n + 1]
            BY <1>1, <1>2, <1>4, QueueEnds
      <2>2. next[s] = IF n = 0 THEN Null ELSE order[2]
            BY <1>1, <1>4 DEF SlotsPartitioned, IsChain
      <2>3. last' = IF n = 0 THEN Null ELSE last
            BY <1>1, <1>3, <1>4, <1>6, <2>2 DEF Recv, LastAfterRecv, Null, Slot
      <2> QED
          BY <1>6, <2>1, <2>3
<1>13. /\ \A i, j \in 1 .. n : order'[i] = order'[j] => i = j
       /\ \A i \in 1 .. n : order'[i] < used'
       BY <1>1, <1>4, <1>6, <1>8 DEF SlotsPartitioned
<1>14. \A i \in 1 .. k + 1 : \/ i = 1 /\ spare'[i] = s
                             \/ \E j \in 1 .. k : i = j + 1 /\ spare'[i] = spare[j]
      <2> SUFFICES ASSUME NEW i \in 1 .. k + 1, i # 1
                   PROVE  \E j \in 1 .. k : i = j + 1 /\ spare'[i] = spare[j]
          BY <1>7
      <2>1. i - 1 \in 1 .. k /\ i = (i - 1) + 1
            OBVIOUS
      <2> QED
          BY <1>7, <2>1
<1>15. /\ \A i, j \in 1 .. k + 1 : spare'[i] = spare'[j] => i = j
       /\ \A i \in 1 .. k + 1 : spare'[i] < used'
       BY <1>1, <1>4, <1>5, <1>8, <1>9, <1>14 DEF SlotsPartitioned
<1>16. \A i \in 1 .. n, j \in 1 .. k + 1 : order'[i] # spare'[j]
       <2>1. \A i \in 1 .. n : i + 1 \in 1 .. n + 1 /\ order'[i] = order[i + 1] /\ order'[i] # s
             BY <1>6, <1>9
       <2>2. \A i \in 1 .. n + 1, j \in 1 .. k : order[i] # spare[j]
             BY <1>1, <1>4, <1>5 DEF SlotsPartitioned
       <2> QED
           BY <1>14, <2>1, <2>2
<1>17. Len(order') + Len(spare') = used' - 1
       BY <1>1, <1>4, <1>5, <1>6, <1>7, <1>8 DEF SlotsPartitioned
<1> QED
    BY <1>6, <1>7, <1>10, <1>11, <1>12, <1>13, <1>15, <1>16, <1>17 DEF SlotsPartitioned

\* Every send and receive keeps both lists exact.
LEMMA InvNext ==
  ASSUME IInv, [Next]_vars
  PROVE  IInv'
<1>1. TypeOK'
      BY TypeNext
<1>2. CASE Next
      BY <1>1, <1>2, SlotsSend, SlotsRecv DEF Next, IInv
<1>3. CASE UNCHANGED vars
      BY <1>1, <1>3 DEF IInv, vars, pool, queue, SlotsPartitioned, IsChain
<1> QED
    BY <1>2, <1>3

\* Every pointer of a channel page points to a slot of its array or is NULL.
THEOREM TypeCorrect == Spec => []TypeOK
<1>1. Init => IInv
      BY TypeInit, SlotsInit DEF IInv
<1>2. IInv => TypeOK
      BY DEF IInv
<1> QED
    BY <1>1, <1>2, InvNext, PTL DEF Spec

\* The queue and the slots given back never meet, and no slot is lost.
THEOREM SlotsPartitionedHolds == Spec => []SlotsPartitioned
<1>1. Init => IInv
      BY TypeInit, SlotsInit DEF IInv
<1>2. IInv => SlotsPartitioned
      BY DEF IInv
<1> QED
    BY <1>1, <1>2, InvNext, PTL DEF Spec

\* NDL_EWOULDBLOCK means NUM_MSGS messages are waiting.
THEOREM RefusesOnlyWhenFullHolds == Spec => []RefusesOnlyWhenFull
<1>1. Init => IInv
      BY TypeInit, SlotsInit DEF IInv
<1>2. IInv => RefusesOnlyWhenFull
      <2> SUFFICES ASSUME TypeOK, SlotsPartitioned PROVE RefusesOnlyWhenFull
          BY DEF IInv
      <2>1. /\ Len(order) \in Nat /\ Len(spare) \in Nat
            /\ Len(order) + Len(spare) = used - 1
            /\ used \in 1 .. NumMsgs + 1
            BY DEF TypeOK, SlotsPartitioned
      <2>2. free = Null <=> Len(spare) = 0
            BY SpareTop DEF TypeOK
      <2> QED
          BY <2>1, <2>2, NumMsgsOK DEF RefusesOnlyWhenFull, Full
<1> QED
    BY <1>1, <1>2, InvNext, PTL DEF Spec

-----------------------------------------------------------------------------
(* Refinement of BoundedFifo                                               *)

\* The abstract queue is as long as the queue of slots.
LEMMA WaitingIsSeq ==
  ASSUME TypeOK
  PROVE  /\ Waiting \in Seq(Message \cup {Nothing})
         /\ Len(Waiting) = Len(order) /\ Len(order) \in Nat
         /\ \A i \in 1 .. Len(order) : Waiting[i] = body[order[i]]
<1>1. PICK n \in Nat : n = Len(order)
      BY DEF TypeOK
<1>2. \A i \in 1 .. n : order[i] \in Slot
      BY <1>1 DEF TypeOK
<1>3. \A i \in 1 .. n : body[order[i]] \in Message \cup {Nothing}
      BY <1>2 DEF TypeOK
<1>4. Waiting = [i \in 1 .. n |-> body[order[i]]]
      BY <1>1 DEF Waiting
<1>5. Waiting \in Seq(Message \cup {Nothing})
      BY <1>3, <1>4
<1>6. Len(Waiting) = n
      BY <1>4
<1> QED
    BY <1>1, <1>4, <1>5, <1>6

\* kern_send puts the message at the end of the abstract queue.
LEMMA SendPuts ==
  ASSUME IInv, NEW m \in Message, Send(m)
  PROVE  Fifo!Put(m)
<1>1. TypeOK /\ SlotsPartitioned /\ TypeOK' /\ SlotsPartitioned'
      BY InvNext DEF IInv, Next
<1>2. PICK s \in Slot : s = Taken
      BY <1>1, TakenIsFree DEF Send
<1>3. /\ order \in Seq(Slot)
      /\ \A i \in 1 .. Len(order) : order[i] # s
      BY <1>1, <1>2, TakenIsFree DEF TypeOK, Send
<1>4. PICK n \in Nat : n = Len(order)
      BY <1>3
<1>5. /\ Len(order) = n /\ Len(Waiting) = n
      /\ \A i \in 1 .. n : Waiting[i] = body[order[i]]
      BY <1>1, <1>4, WaitingIsSeq
<1>6. n < NumMsgs
      <2>1. PICK q \in Nat : q = Len(spare)
            BY <1>1 DEF TypeOK
      <2>2. n + q = used - 1 /\ used \in 1 .. NumMsgs + 1
            BY <1>1, <1>5, <2>1 DEF SlotsPartitioned, TypeOK
      <2>3. q # 0 \/ used <= NumMsgs
            BY <1>1, <2>1, <2>2, SpareTop, NumMsgsOK DEF Send, Full, TypeOK
      <2> QED
          BY <2>2, <2>3, NumMsgsOK
<1>7. order' = Append(order, s) /\ body' = [body EXCEPT ![s] = m]
      BY <1>2 DEF Send
<1>8. \A i \in 1 .. n : order[i] \in Slot /\ order[i] # s
      BY <1>3, <1>4
<1>9. /\ Len(order') = n + 1 /\ order'[n + 1] = s
      /\ \A i \in 1 .. n : order'[i] = order[i]
      BY <1>3, <1>4, <1>7
<1>10. /\ \A i \in 1 .. n : body'[order'[i]] = body[order[i]]
       /\ body'[order'[n + 1]] = m
       BY <1>1, <1>7, <1>8, <1>9 DEF TypeOK
<1>11. /\ Waiting' \in Seq(Message \cup {Nothing})
       /\ Len(Waiting') = n + 1
       /\ \A i \in 1 .. n + 1 : Waiting'[i] = body'[order'[i]]
       <2>1. PICK k \in Nat : k = n + 1
             OBVIOUS
       <2>2. Waiting' = [i \in 1 .. k |-> body'[order'[i]]]
             BY <1>9, <2>1 DEF Waiting
       <2>3. \A i \in 1 .. k : body'[order'[i]] \in Message \cup {Nothing}
             <3>1. \A i \in 1 .. k : order'[i] \in Slot
                   BY <1>1, <1>9, <2>1 DEF TypeOK
             <3> QED
                 BY <1>1, <3>1 DEF TypeOK
       <2>4. Waiting' \in Seq(Message \cup {Nothing})
             BY <2>2, <2>3
       <2>5. Len(Waiting') = k
             BY <2>2
       <2> QED
           BY <2>1, <2>2, <2>4, <2>5
<1>12. Waiting' = Append(Waiting, m)
       <2>1. Append(Waiting, m) \in Seq(Message \cup {Nothing})
             BY <1>1, WaitingIsSeq
       <2>2. Len(Append(Waiting, m)) = n + 1
             BY <1>1, <1>5, WaitingIsSeq
       <2>3. \A i \in 1 .. n : Append(Waiting, m)[i] = Waiting[i]
             BY <1>1, <1>5, WaitingIsSeq
       <2>4. Append(Waiting, m)[n + 1] = m
             BY <1>1, <1>5, WaitingIsSeq
       <2>5. \A i \in 1 .. n + 1 : i \in 1 .. n \/ i = n + 1
             OBVIOUS
       <2>6. \A i \in 1 .. n + 1 : Append(Waiting, m)[i] = Waiting'[i]
             BY <1>5, <1>10, <1>11, <2>3, <2>4, <2>5
       <2> QED
           BY <1>11, <2>1, <2>2, <2>6, SeqEqual
<1>13. UNCHANGED got
       BY DEF Send
<1> QED
    BY <1>5, <1>6, <1>12, <1>13 DEF Fifo!Put

\* kern_recv takes the message at its head.
LEMMA RecvGets ==
  ASSUME IInv, Recv
  PROVE  Fifo!Get
<1>1. TypeOK /\ SlotsPartitioned /\ TypeOK' /\ SlotsPartitioned'
      BY InvNext DEF IInv, Next
<1>2. PICK n \in Nat : /\ n + 1 = Len(order) /\ n + 1 = Len(Waiting)
                       /\ first = order[1] /\ first \in Slot
                       /\ \A i \in 1 .. n + 1 : Waiting[i] = body[order[i]]
      <2>1. /\ Len(order) \in Nat \ {0} /\ Len(Waiting) = Len(order)
            /\ first = order[1] /\ first \in Slot
            /\ \A i \in 1 .. Len(order) : Waiting[i] = body[order[i]]
            BY <1>1, WaitingIsSeq, QueueEnds DEF Recv
      <2>2. PICK k \in Nat \ {0} : k = Len(order)
            BY <2>1
      <2>3. PICK n \in Nat : n + 1 = k
            <3>1. k - 1 \in Nat /\ (k - 1) + 1 = k
                  OBVIOUS
            <3> QED
                BY <3>1
      <2> QED
          BY <2>1, <2>2, <2>3
<1>3. /\ Waiting # <<>>
      /\ Head(Waiting) = body[order[1]]
      BY <1>1, <1>2, WaitingIsSeq
<1>4. order' = Tail(order) /\ body' = body /\ got' = body[first]
      BY DEF Recv
<1>5. Len(order') = n /\ \A i \in 1 .. n : order'[i] = order[i + 1]
      BY <1>1, <1>2, <1>4 DEF TypeOK
<1>6. /\ Waiting' \in Seq(Message \cup {Nothing})
      /\ Len(Waiting') = n
      /\ \A i \in 1 .. n : Waiting'[i] = body'[order'[i]]
      BY <1>1, <1>5, WaitingIsSeq DEF Waiting, TypeOK
<1>7. Waiting' = Tail(Waiting)
      <2>1. /\ Tail(Waiting) \in Seq(Message \cup {Nothing})
            /\ Len(Tail(Waiting)) = n
            /\ \A i \in 1 .. n : Tail(Waiting)[i] = Waiting[i + 1]
            BY <1>1, <1>2, <1>3, WaitingIsSeq
      <2>2. \A i \in 1 .. n : i + 1 \in 1 .. n + 1
            OBVIOUS
      <2>3. \A i \in 1 .. n : Tail(Waiting)[i] = Waiting'[i]
            BY <1>2, <1>4, <1>5, <1>6, <2>1, <2>2
      <2> QED
          BY <1>6, <2>1, <2>3, SeqEqual
<1> QED
    BY <1>2, <1>3, <1>4, <1>7 DEF Fifo!Get

\* A channel page is a bounded first-in first-out queue: each message comes
\* out once, unchanged and in order, whichever slots it and the others used.
THEOREM IsFifoHolds == Spec => IsFifo
<1>1. Init => Fifo!Init
      BY DEF Init, Waiting, Fifo!Init
<1>2. IInv /\ [Next]_vars => [Fifo!Next]_<<Waiting, got>>
      <2>1. ASSUME IInv, Next PROVE Fifo!Next
            BY <2>1, SendPuts, RecvGets DEF Next, Fifo!Next
      <2>2. ASSUME UNCHANGED vars PROVE UNCHANGED <<Waiting, got>>
            BY <2>2 DEF vars, Waiting
      <2> QED
          BY <2>1, <2>2
<1>3. Init => IInv
      BY TypeInit, SlotsInit DEF IInv
<1> QED
    BY <1>1, <1>2, <1>3, InvNext, PTL DEF Spec, IsFifo, Fifo!Spec

==============================================================================
