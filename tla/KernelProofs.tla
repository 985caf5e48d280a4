----------------------------- MODULE KernelProofs -----------------------------
(***************************************************************************)
(* Proofs about Kernel, for any number of kernel pages, slots and messages:*)
(* its seven invariants.  None is inductive alone.  IInv, which is, joins  *)
(* them with two facts of where tasks and channels come from: a task that  *)
(* is being created has one creator and no thread (CreatingExact), and only*)
(* a task that has run holds a send end (SendEndsKept).                    *)
(*                                                                         *)
(* First what PushFront and Unlink do to a task list, then what each call  *)
(* writes, then that it keeps the lists (...Core) and the masks and ends   *)
(* of channels (...Mail).                                                  *)
(***************************************************************************)
EXTENDS Kernel, TLAPS, WellFoundedInduction

-----------------------------------------------------------------------------
(* The operators of the model.                                             *)

\* find_chan_slot returns the lowest free slot, if there is one; the lowest
\* bit of a mask is found in the same way.
LEMMA LowestSlot ==
  ASSUME NEW M \in SUBSET Slot, M # {}
  PROVE  \E s \in M : \A r \in M : s <= r
<1>1. Slot \subseteq Nat
      BY KernelConstants DEF Slot
<1>2. PICK s \in M : \A r \in M : ~(<<r, s>> \in OpToRel(<, Nat))
      BY <1>1, WFMin, NatLessThanWellFounded
<1>3. \A r \in M : ~(r < s)
      BY <1>1, <1>2 DEF OpToRel
<1> QED
    BY <1>1, <1>3

\* find_chan_slot answers a slot that is free.
LEMMA FoundSlot ==
  ASSUME NEW ends \in [Slot -> Ptr], FreeSlots(ends) # {}
  PROVE  FindSlot(ends) \in Slot /\ ends[FindSlot(ends)] = None
<1>1. \E s \in FreeSlots(ends) : \A r \in FreeSlots(ends) : s <= r
      BY LowestSlot DEF FreeSlots
<1> QED
    BY <1>1 DEF FindSlot, FreeSlots

-----------------------------------------------------------------------------
(* Lists of tasks.                                                         *)

\* Nothing but the links differs between two tasks.
SameTask(a, b) ==
  /\ a.creating = b.creating /\ a.rx = b.rx /\ a.tx = b.tx
  /\ a.rxMask = b.rxMask /\ a.readyMask = b.readyMask /\ a.dispatchMask = b.dispatchMask

\* A write of one next pointer.
LEMMA WriteNext ==
  ASSUME NEW ts \in [Page -> KernTask], NEW t \in Page, NEW v \in Ptr
  PROVE  LET us == [ts EXCEPT ![t].next = v]
         IN  /\ us \in [Page -> KernTask]
             /\ \A p \in Page : /\ us[p].next = IF p = t THEN v ELSE ts[p].next
                                /\ us[p].prev = ts[p].prev
                                /\ SameTask(us[p], ts[p])
<1> DEFINE us == [ts EXCEPT ![t].next = v]
<1>1. us = [ts EXCEPT ![t] = [ts[t] EXCEPT !.next = v]] /\ ts[t] \in KernTask
      OBVIOUS
<1>2. [ts[t] EXCEPT !.next = v] \in KernTask
      BY <1>1 DEF KernTask
<1>3. /\ [ts[t] EXCEPT !.next = v].next = v
      /\ [ts[t] EXCEPT !.next = v].prev = ts[t].prev
      /\ SameTask([ts[t] EXCEPT !.next = v], ts[t])
      BY <1>1 DEF KernTask, SameTask
<1>4. \A p \in Page : p # t => us[p] = ts[p] /\ SameTask(ts[p], ts[p])
      BY DEF SameTask
<1> QED
    BY <1>1, <1>2, <1>3, <1>4

\* A write of one prev pointer.
LEMMA WritePrev ==
  ASSUME NEW ts \in [Page -> KernTask], NEW t \in Page, NEW v \in Ptr
  PROVE  LET us == [ts EXCEPT ![t].prev = v]
         IN  /\ us \in [Page -> KernTask]
             /\ \A p \in Page : /\ us[p].prev = IF p = t THEN v ELSE ts[p].prev
                                /\ us[p].next = ts[p].next
                                /\ SameTask(us[p], ts[p])
<1> DEFINE us == [ts EXCEPT ![t].prev = v]
<1>1. us = [ts EXCEPT ![t] = [ts[t] EXCEPT !.prev = v]] /\ ts[t] \in KernTask
      OBVIOUS
<1>2. [ts[t] EXCEPT !.prev = v] \in KernTask
      BY <1>1 DEF KernTask
<1>3. /\ [ts[t] EXCEPT !.prev = v].prev = v
      /\ [ts[t] EXCEPT !.prev = v].next = ts[t].next
      /\ SameTask([ts[t] EXCEPT !.prev = v], ts[t])
      BY <1>1 DEF KernTask, SameTask
<1>4. \A p \in Page : p # t => us[p] = ts[p] /\ SameTask(ts[p], ts[p])
      BY DEF SameTask
<1> QED
    BY <1>1, <1>2, <1>3, <1>4

\* What PushFront and Unlink write.
LEMMA PushLinks ==
  ASSUME NEW ts \in [Page -> KernTask], NEW t \in Page, NEW h \in Ptr, h # t
  PROVE  /\ PushFront(ts, t, h) \in [Page -> KernTask]
         /\ \A p \in Page :
              /\ PushFront(ts, t, h)[p].next = IF p = t THEN h ELSE ts[p].next
              /\ PushFront(ts, t, h)[p].prev =
                   IF p = t THEN None ELSE IF p = h THEN t ELSE ts[p].prev
              /\ SameTask(PushFront(ts, t, h)[p], ts[p])
<1> DEFINE one == [ts EXCEPT ![t].next = h]
           two == [one EXCEPT ![t].prev = None]
           three == [two EXCEPT ![h].prev = t]
<1>0. None \notin Page /\ None \in Ptr /\ t \in Ptr
      BY KernelConstants DEF Ptr
<1>1. PushFront(ts, t, h) = IF h = None THEN two ELSE three
      BY DEF PushFront
<1>2. /\ one \in [Page -> KernTask]
      /\ \A p \in Page : /\ one[p].next = IF p = t THEN h ELSE ts[p].next
                         /\ one[p].prev = ts[p].prev
                         /\ SameTask(one[p], ts[p])
      BY WriteNext
<1> HIDE DEF one
<1>3. /\ two \in [Page -> KernTask]
      /\ \A p \in Page : /\ two[p].prev = IF p = t THEN None ELSE one[p].prev
                         /\ two[p].next = one[p].next
                         /\ SameTask(two[p], one[p])
      BY <1>0, <1>2, WritePrev
<1> HIDE DEF two
<1>4. h # None => /\ three \in [Page -> KernTask]
                  /\ \A p \in Page : /\ three[p].prev = IF p = h THEN t ELSE two[p].prev
                                     /\ three[p].next = two[p].next
                                     /\ SameTask(three[p], two[p])
      BY <1>0, <1>3, WritePrev DEF Ptr
<1> HIDE DEF three
<1> QED
    BY <1>0, <1>1, <1>2, <1>3, <1>4 DEF SameTask

\* What unlinking a task writes to the tasks around it.
LEMMA UnlinkLinks ==
  ASSUME NEW ts \in [Page -> KernTask], NEW t \in Page
  PROVE  /\ Unlink(ts, t) \in [Page -> KernTask]
         /\ \A p \in Page :
              /\ Unlink(ts, t)[p].next = IF p = ts[t].prev THEN ts[t].next ELSE ts[p].next
              /\ Unlink(ts, t)[p].prev = IF p = ts[t].next THEN ts[t].prev ELSE ts[p].prev
              /\ SameTask(Unlink(ts, t)[p], ts[p])
<1> DEFINE ahead == IF ts[t].next = None THEN ts ELSE [ts EXCEPT ![ts[t].next].prev = ts[t].prev]
           both == [ahead EXCEPT ![ts[t].prev].next = ts[t].next]
<1>0. None \notin Page /\ ts[t].next \in Ptr /\ ts[t].prev \in Ptr
      BY KernelConstants DEF KernTask
<1>1. Unlink(ts, t) = IF ts[t].prev = None THEN ahead ELSE both
      BY DEF Unlink
<1>2. /\ ahead \in [Page -> KernTask]
      /\ \A p \in Page : /\ ahead[p].prev = IF p = ts[t].next THEN ts[t].prev ELSE ts[p].prev
                         /\ ahead[p].next = ts[p].next
                         /\ SameTask(ahead[p], ts[p])
      BY <1>0, WritePrev DEF Ptr, SameTask
<1> HIDE DEF ahead
<1>3. ts[t].prev # None =>
        /\ both \in [Page -> KernTask]
        /\ \A p \in Page : /\ both[p].next = IF p = ts[t].prev THEN ts[t].next ELSE ahead[p].next
                           /\ both[p].prev = ahead[p].prev
                           /\ SameTask(both[p], ahead[p])
      BY <1>0, <1>2, WriteNext DEF Ptr
<1> HIDE DEF both
<1> QED
    BY <1>0, <1>1, <1>2, <1>3 DEF SameTask

\* A list is where its tasks' links are.
LEMMA ListKept ==
  ASSUME NEW ts, NEW us, NEW S \in SUBSET Page, NEW h, IsTaskList(ts, S, h),
         \A p \in S : us[p].next = ts[p].next /\ us[p].prev = ts[p].prev
  PROVE  IsTaskList(us, S, h)
BY DEF IsTaskList

\* A task pushed in front of a list makes it one longer.
LEMMA ListPushed ==
  ASSUME NEW ts \in [Page -> KernTask], NEW S \in SUBSET Page, NEW h, IsTaskList(ts, S, h),
         NEW t \in Page, t \notin S
  PROVE  IsTaskList(PushFront(ts, t, h), S \cup {t}, t)
<1> DEFINE ps == PushFront(ts, t, h)
<1>0. h \in Ptr /\ h # t /\ None \notin Page
      BY KernelConstants DEF IsTaskList, Ptr
<1>1. \A p \in Page :
        /\ ps[p].next = IF p = t THEN h ELSE ts[p].next
        /\ ps[p].prev = IF p = t THEN None ELSE IF p = h THEN t ELSE ts[p].prev
      BY <1>0, PushLinks
<1> HIDE DEF ps
<1>2. \A p \in S : ts[p].prev = None => p = h
      BY <1>0 DEF IsTaskList
<1>3. ASSUME NEW C \in SUBSET (S \cup {t}), C # {}
      PROVE  \E p \in C : ps[p].prev \notin C
      <2>1. CASE t \in C
            BY <1>0, <1>1, <2>1
      <2>2. CASE t \notin C
            <3>1. PICK p \in C : ts[p].prev \notin C
                  BY <1>3, <2>2 DEF IsTaskList
            <3> QED
                BY <1>1, <2>2, <3>1
      <2> QED
          BY <2>1, <2>2
<1>4. ASSUME NEW p \in S \cup {t}
      PROVE  /\ ps[p].next # None => ps[p].next \in S \cup {t} /\ ps[ps[p].next].prev = p
             /\ IF p = t THEN ps[p].prev = None
                         ELSE ps[p].prev \in S \cup {t} /\ ps[ps[p].prev].next = p
      <2>1. CASE p = t
            BY <1>0, <1>1, <2>1 DEF IsTaskList
      <2>2. CASE p # t
            <3>1. ts[p].next # None => ts[p].next \in S /\ ts[ts[p].next].prev = p /\ ts[p].next # h
                  BY <1>0, <2>2 DEF IsTaskList
            <3>2. IF p = h THEN ts[p].prev = None ELSE ts[p].prev \in S /\ ts[ts[p].prev].next = p
                  BY <2>2 DEF IsTaskList
            <3> QED
                BY <1>0, <1>1, <2>2, <3>1, <3>2
      <2> QED
          BY <2>1, <2>2
<1>5. IsTaskList(ps, S \cup {t}, t)
      BY <1>3, <1>4 DEF IsTaskList
<1> QED
    BY <1>5 DEF ps

\* A task taken off a list, wherever it is, leaves the rest.
LEMMA ListUnlinked ==
  ASSUME NEW ts \in [Page -> KernTask], NEW S \in SUBSET Page, NEW h, IsTaskList(ts, S, h),
         NEW t \in S
  PROVE  IsTaskList(Unlink(ts, t), S \ {t}, IF h = t THEN ts[t].next ELSE h)
<1> DEFINE us == Unlink(ts, t)
           g == IF h = t THEN ts[t].next ELSE h
<1>0. None \notin Page
      BY KernelConstants
<1>1. \A p \in Page :
        /\ us[p].next = IF p = ts[t].prev THEN ts[t].next ELSE ts[p].next
        /\ us[p].prev = IF p = ts[t].next THEN ts[t].prev ELSE ts[p].prev
      BY UnlinkLinks
<1> HIDE DEF us
<1>2. ts[t].next # t /\ ts[t].prev # t
      <2>1. ts[t].prev # t
            <3>1. \E p \in {t} : ts[p].prev \notin {t}
                  BY DEF IsTaskList
            <3> QED
                BY <3>1
      <2>2. ts[t].next # t
            BY <1>0, <2>1 DEF IsTaskList
      <2> QED
          BY <2>1, <2>2
<1>3. /\ ts[t].next # None => ts[t].next \in S /\ ts[ts[t].next].prev = t
      /\ IF t = h THEN ts[t].prev = None ELSE ts[t].prev \in S /\ ts[ts[t].prev].next = t
      BY DEF IsTaskList
<1>4. IF S \ {t} = {} THEN g = None ELSE g \in S \ {t}
      <2>1. CASE h # t
            BY <2>1 DEF IsTaskList
      <2>2. CASE h = t /\ ts[t].next # None
            BY <1>2, <1>3, <2>2
      <2>3. CASE h = t /\ ts[t].next = None
            <3>1. SUFFICES ASSUME S \ {t} # {} PROVE FALSE
                  BY <2>3
            <3>2. PICK p \in S \ {t} : ts[p].prev \notin S \ {t}
                  BY <3>1 DEF IsTaskList
            <3>3. ts[p].prev \in S /\ ts[ts[p].prev].next = p
                  BY <2>3, <3>2 DEF IsTaskList
            <3> QED
                BY <1>0, <2>3, <3>2, <3>3
      <2> QED
          BY <2>1, <2>2, <2>3
<1>5. ASSUME NEW p \in S \ {t}
      PROVE  /\ us[p].next # None => us[p].next \in S \ {t} /\ us[us[p].next].prev = p
             /\ IF p = g THEN us[p].prev = None
                         ELSE us[p].prev \in S \ {t} /\ us[us[p].prev].next = p
      <2>1. /\ ts[p].next # None => ts[p].next \in S /\ ts[ts[p].next].prev = p
            /\ IF p = h THEN ts[p].prev = None ELSE ts[p].prev \in S /\ ts[ts[p].prev].next = p
            BY DEF IsTaskList
      <2>2. us[p].next # None => us[p].next \in S \ {t} /\ us[us[p].next].prev = p
            <3>1. CASE p = ts[t].prev
                  BY <1>0, <1>1, <1>2, <1>3, <2>1, <3>1
            <3>2. CASE p # ts[t].prev
                  BY <1>0, <1>1, <1>2, <1>3, <2>1, <3>2
            <3> QED
                BY <3>1, <3>2
      <2>3. IF p = g THEN us[p].prev = None
                     ELSE us[p].prev \in S \ {t} /\ us[us[p].prev].next = p
            <3>1. CASE p = ts[t].next
                  BY <1>0, <1>1, <1>2, <1>3, <2>1, <3>1
            <3>2. CASE p # ts[t].next
                  BY <1>0, <1>1, <1>2, <1>3, <2>1, <3>2
            <3> QED
                BY <3>1, <3>2
      <2> QED
          BY <2>2, <2>3
<1>6. ASSUME NEW C \in SUBSET (S \ {t}), C # {}
      PROVE  \E p \in C : us[p].prev \notin C
      <2>1. PICK p \in C : ts[p].prev \notin C
            BY <1>6 DEF IsTaskList
      <2>2. CASE p # ts[t].next \/ ts[t].prev \notin C
            BY <1>1, <2>1, <2>2
      <2>3. CASE p = ts[t].next /\ ts[t].prev \in C
            <3>0. C \cup {t} \in SUBSET S /\ C \cup {t} # {}
                  OBVIOUS
            <3>1. PICK q \in C \cup {t} : ts[q].prev \notin C \cup {t}
                  BY <3>0 DEF IsTaskList
            <3>2. q # t /\ q # ts[t].next
                  BY <1>0, <1>3, <2>3, <3>1
            <3> QED
                BY <1>1, <3>1, <3>2
      <2> QED
          BY <2>2, <2>3
<1>7. IsTaskList(us, S \ {t}, g)
      BY <1>4, <1>5, <1>6 DEF IsTaskList
<1> QED
    BY <1>7 DEF us, g

\* A list without the task stays as it is.
LEMMA OtherListKept ==
  ASSUME NEW ts \in [Page -> KernTask],
         NEW S \in SUBSET Page, NEW h, IsTaskList(ts, S, h), NEW t \in S,
         NEW A \in SUBSET Page, NEW g, IsTaskList(ts, A, g), A \cap S = {}
  PROVE  IsTaskList(Unlink(ts, t), A, g)
<1>0. None \notin Page
      BY KernelConstants
<1>1. (ts[t].next # None => ts[t].next \in S) /\ (ts[t].prev # None => ts[t].prev \in S)
      BY DEF IsTaskList
<1>2. \A p \in A : Unlink(ts, t)[p].next = ts[p].next /\ Unlink(ts, t)[p].prev = ts[p].prev
      BY <1>0, <1>1, UnlinkLinks
<1> QED
    BY <1>2, ListKept

-----------------------------------------------------------------------------
(* The inductive invariant.                                                *)

\* kern_fork's new task belongs to one creator and has no thread until it is
\* started, so it is in no list.
CreatingExact ==
  /\ \A t \in Tasks : task[t].creating # None =>
       task[t].creating \in Tasks /\ thread[task[t].creating] = "none"
  /\ \A t, u \in Tasks :
       task[t].creating # None /\ task[t].creating = task[u].creating => t = u

\* Only a task that has run holds a send end: nobody is given one.  A channel
\* stays in a slot of a receiver, and its page is no task's.
SendEndsKept ==
  /\ \A t \in Tasks, s \in Slot : task[t].tx[s] # None =>
       task[t].tx[s] \in Chans /\ thread[t] \notin {"none", "suspended"}
  /\ \A ch \in Chans : chan[ch].bit \in Slot /\ thread[ch] = "none"

MailExact ==
  ReadyExact /\ EndsExact /\ DispatchExact /\ SendersReachReceivers
  /\ CreatingExact /\ SendEndsKept

CoreExact == SchedulerListsExact /\ OneThreadRuns

IInv == TypeOK /\ MailExact /\ CoreExact

\* The caller of a system call is the running task.
LEMMA CallerRuns ==
  ASSUME IInv, NEW t \in Page, Calls(t)
  PROVE  /\ fault = "none" /\ thread[t] = "runs" /\ t \in Tasks /\ t \in Ready
         /\ \A p \in Page : thread[p] \in {"runs", "zombie"} => p = t
         /\ t = running /\ ~event
BY DEF IInv, CoreExact, SchedulerListsExact, OneThreadRuns, Calls, Tasks, Ready

\* A free page is in no list; none of its threads runs during a call.
LEMMA FreePage ==
  ASSUME IInv, NEW t \in Page, Calls(t), NEW p \in Page, kind[p] = "free"
  PROVE  thread[p] = "none" /\ p \notin Tasks /\ p \notin Chans /\ p # t
<1>1. thread[t] = "runs" /\ kind[t] = "task"
      BY CallerRuns DEF Tasks
<1>2. thread[p] # "zombie"
      BY <1>1, CallerRuns
<1>3. thread[p] \in {"none", "suspended", "runs", "yielded", "zombie"}
      BY DEF IInv, TypeOK
<1>4. thread[p] \notin {"suspended", "runs", "yielded"}
      BY DEF IInv, CoreExact, SchedulerListsExact
<1> QED
    BY <1>1, <1>2, <1>3, <1>4 DEF Tasks, Chans

-----------------------------------------------------------------------------
(* What each call writes.                                                  *)

OthersKept(t) == \A p \in Page : p # t => task'[p] = task[p]
LinksOf(t)    == <<task[t].next, task[t].prev>>

\* The new channel is ch, in slots r and s of the caller.
Piped(t, fn, ch, r, s) ==
  /\ kind[ch] = "free" /\ task[t].rx[r] = None /\ task[t].tx[s] = None
  /\ kind' = [kind EXCEPT ![ch] = "chan"]
  /\ chan' = [chan EXCEPT ![ch] = [receiver |-> t, bit |-> r, fn |-> fn, queued |-> 0]]
  /\ task' \in [Page -> KernTask]
  /\ OthersKept(t)
  /\ task'[t].rx = [task[t].rx EXCEPT ![r] = ch]
  /\ task'[t].tx = [task[t].tx EXCEPT ![s] = ch]
  /\ task'[t].dispatchMask = SetDispatch(task[t].dispatchMask, r, fn)
  /\ task'[t].readyMask = task[t].readyMask /\ task'[t].rxMask = task[t].rxMask
  /\ task'[t].creating = task[t].creating
  /\ task'[t].next = task[t].next /\ task'[t].prev = task[t].prev

\* kern_pipe fills two free slots and clears a page for the channel.
LEMMA PipeWrites ==
  ASSUME TypeOK, NEW t \in Page, NEW fn \in BOOLEAN, Pipe(t, fn)
  PROVE  \E ch \in Page, r \in Slot, s \in Slot : Piped(t, fn, ch, r, s)
<1>0. task[t] \in KernTask /\ task \in [Page -> KernTask]
      BY DEF TypeOK
<1>1. /\ FindSlot(task[t].rx) \in Slot /\ task[t].rx[FindSlot(task[t].rx)] = None
      /\ FindSlot(task[t].tx) \in Slot /\ task[t].tx[FindSlot(task[t].tx)] = None
      BY <1>0, FoundSlot DEF Pipe, KernTask
<1>2. PICK ch \in Page, r \in Slot, s \in Slot :
        /\ task[t].rx[r] = None /\ task[t].tx[s] = None
        /\ kind[ch] = "free"
        /\ kind' = [kind EXCEPT ![ch] = "chan"]
        /\ chan' = [chan EXCEPT ![ch] =
                      [receiver |-> t, bit |-> r, fn |-> fn, queued |-> 0]]
        /\ task' = [task EXCEPT ![t].rx[r] = ch, ![t].tx[s] = ch,
                      ![t].dispatchMask = SetDispatch(@, r, fn)]
      BY <1>1 DEF Pipe
<1> DEFINE new == [task[t] EXCEPT !.rx = [task[t].rx EXCEPT ![r] = ch],
                                  !.tx = [task[t].tx EXCEPT ![s] = ch],
                                  !.dispatchMask = SetDispatch(task[t].dispatchMask, r, fn)]
<1>3. task' = [task EXCEPT ![t] = new]
      BY <1>0, <1>2 DEF KernTask
<1>4. /\ new \in KernTask
      /\ new.rx = [task[t].rx EXCEPT ![r] = ch]
      /\ new.tx = [task[t].tx EXCEPT ![s] = ch]
      /\ new.dispatchMask = SetDispatch(task[t].dispatchMask, r, fn)
      /\ new.readyMask = task[t].readyMask /\ new.rxMask = task[t].rxMask
      /\ new.creating = task[t].creating
      /\ new.next = task[t].next /\ new.prev = task[t].prev
      BY <1>0, <1>2 DEF KernTask, SetDispatch, Ptr
<1> HIDE DEF new
<1>5. task' \in [Page -> KernTask] /\ task'[t] = new /\ OthersKept(t)
      BY <1>0, <1>3, <1>4 DEF OthersKept
<1>6. Piped(t, fn, ch, r, s)
      BY <1>2, <1>4, <1>5 DEF Piped
<1> QED
    BY <1>6

\* A receive slot with a channel in it.
LEMMA HeldChannel ==
  ASSUME IInv, NEW t \in Tasks, NEW r \in Slot, task[t].rx[r] # None
  PROVE  /\ task[t].rx[r] \in Page /\ task[t].rx[r] \in Chans
         /\ chan[task[t].rx[r]].receiver = t /\ chan[task[t].rx[r]].bit = r
         /\ chan[task[t].rx[r]] \in Channel
BY DEF IInv, MailExact, EndsExact, Chans, TypeOK

OtherChansKept(ch) == \A p \in Page : p # ch => chan'[p] = chan[p]

\* A redirect puts an end the caller has into the task it creates.
LEMMA RedirectWrites ==
  ASSUME IInv, NEW t \in Page, NEW r \in Slot, NEW fn \in BOOLEAN, Redirect(t, r, fn)
  PROVE  LET ch == task[t].rx[r]
         IN  /\ ch \in Page
             /\ chan' \in [Page -> Channel]
             /\ OtherChansKept(ch)
             /\ chan'[ch].fn = fn /\ chan'[ch].queued = chan[ch].queued
             /\ chan'[ch].receiver = chan[ch].receiver /\ chan'[ch].bit = chan[ch].bit
             /\ task' \in [Page -> KernTask]
             /\ OthersKept(t)
             /\ task'[t].dispatchMask = SetDispatch(task[t].dispatchMask, r, fn)
             /\ task'[t].rx = task[t].rx /\ task'[t].tx = task[t].tx
             /\ task'[t].readyMask = task[t].readyMask /\ task'[t].rxMask = task[t].rxMask
             /\ task'[t].creating = task[t].creating
             /\ task'[t].next = task[t].next /\ task'[t].prev = task[t].prev
<1>0. task[t] \in KernTask /\ task \in [Page -> KernTask] /\ chan \in [Page -> Channel]
      BY DEF TypeOK, IInv
<1>1. t \in Tasks
      BY CallerRuns DEF Redirect
<1>2. PICK ch \in Page : /\ ch = task[t].rx[r] /\ chan[ch] \in Channel /\ chan[ch].bit = r
      BY <1>1, HeldChannel DEF Redirect
<1>3. chan' = [chan EXCEPT ![ch] = [chan[ch] EXCEPT !.fn = fn]]
      BY <1>0, <1>2 DEF Redirect
<1>4. /\ [chan[ch] EXCEPT !.fn = fn] \in Channel
      /\ [chan[ch] EXCEPT !.fn = fn].fn = fn
      /\ [chan[ch] EXCEPT !.fn = fn].queued = chan[ch].queued
      /\ [chan[ch] EXCEPT !.fn = fn].receiver = chan[ch].receiver
      /\ [chan[ch] EXCEPT !.fn = fn].bit = chan[ch].bit
      BY <1>2 DEF Channel
<1>5. /\ chan' \in [Page -> Channel] /\ OtherChansKept(ch)
      /\ chan'[ch] = [chan[ch] EXCEPT !.fn = fn]
      BY <1>0, <1>2, <1>3, <1>4 DEF OtherChansKept
<1> DEFINE new == [task[t] EXCEPT !.dispatchMask = SetDispatch(task[t].dispatchMask, r, fn)]
<1>6. task' = [task EXCEPT ![t] = new]
      BY <1>0, <1>2 DEF Redirect
<1>7. /\ new \in KernTask
      /\ new.dispatchMask = SetDispatch(task[t].dispatchMask, r, fn)
      /\ new.rx = task[t].rx /\ new.tx = task[t].tx
      /\ new.readyMask = task[t].readyMask /\ new.rxMask = task[t].rxMask
      /\ new.creating = task[t].creating
      /\ new.next = task[t].next /\ new.prev = task[t].prev
      BY <1>0 DEF KernTask, SetDispatch
<1> HIDE DEF new
<1>8. task' \in [Page -> KernTask] /\ task'[t] = new /\ OthersKept(t)
      BY <1>0, <1>6, <1>7 DEF OthersKept
<1> QED
    BY <1>2, <1>4, <1>5, <1>7, <1>8

\* Only the ready mask of task t is written.
ReadyMaskWritten(t, mask) ==
  /\ task' \in [Page -> KernTask]
  /\ OthersKept(t)
  /\ task'[t].readyMask = mask
  /\ task'[t].rx = task[t].rx /\ task'[t].tx = task[t].tx
  /\ task'[t].dispatchMask = task[t].dispatchMask /\ task'[t].rxMask = task[t].rxMask
  /\ task'[t].creating = task[t].creating
  /\ task'[t].next = task[t].next /\ task'[t].prev = task[t].prev

\* A write of one mask of the ends that have messages.
LEMMA WriteReadyMask ==
  ASSUME TypeOK, NEW t \in Page, NEW mask \in SUBSET Slot,
         task' = [task EXCEPT ![t].readyMask = mask]
  PROVE  ReadyMaskWritten(t, mask)
<1>0. task[t] \in KernTask /\ task \in [Page -> KernTask]
      BY DEF TypeOK
<1> DEFINE new == [task[t] EXCEPT !.readyMask = mask]
<1>1. task' = [task EXCEPT ![t] = new]
      BY <1>0
<1>2. /\ new \in KernTask
      /\ new.readyMask = mask
      /\ new.rx = task[t].rx /\ new.tx = task[t].tx
      /\ new.dispatchMask = task[t].dispatchMask /\ new.rxMask = task[t].rxMask
      /\ new.creating = task[t].creating
      /\ new.next = task[t].next /\ new.prev = task[t].prev
      BY <1>0 DEF KernTask
<1> HIDE DEF new
<1>3. task' \in [Page -> KernTask] /\ task'[t] = new /\ OthersKept(t)
      BY <1>0, <1>1, <1>2 DEF OthersKept
<1> QED
    BY <1>2, <1>3 DEF ReadyMaskWritten

\* Only the number of messages of channel ch is written.
QueuedWritten(ch, n) ==
  /\ chan' \in [Page -> Channel]
  /\ OtherChansKept(ch)
  /\ chan'[ch].queued = n /\ chan'[ch].fn = chan[ch].fn
  /\ chan'[ch].receiver = chan[ch].receiver /\ chan'[ch].bit = chan[ch].bit

\* A write of the number of messages of one channel.
LEMMA WriteQueued ==
  ASSUME TypeOK, NEW ch \in Page, NEW n \in 0 .. NumMsgs,
         chan' = [chan EXCEPT ![ch].queued = n]
  PROVE  QueuedWritten(ch, n)
<1>0. chan[ch] \in Channel /\ chan \in [Page -> Channel]
      BY DEF TypeOK
<1> DEFINE new == [chan[ch] EXCEPT !.queued = n]
<1>1. chan' = [chan EXCEPT ![ch] = new]
      BY <1>0
<1>2. /\ new \in Channel
      /\ new.queued = n /\ new.fn = chan[ch].fn
      /\ new.receiver = chan[ch].receiver /\ new.bit = chan[ch].bit
      BY <1>0 DEF Channel
<1> HIDE DEF new
<1>3. chan' \in [Page -> Channel] /\ chan'[ch] = new /\ OtherChansKept(ch)
      BY <1>0, <1>1, <1>2 DEF OtherChansKept
<1> QED
    BY <1>2, <1>3 DEF QueuedWritten

\* A sender's message goes to the task that holds the receive end.
LEMMA SendWrites ==
  ASSUME IInv, NEW t \in Page, NEW s \in Slot, Send(t, s)
  PROVE  \E ch \in Chans, to \in Tasks, r \in Slot :
           /\ ch = task[t].tx[s] /\ task[to].rx[r] = ch /\ ch # None /\ thread[to] # "yielded"
           /\ chan[ch].queued \in Nat
           /\ QueuedWritten(ch, chan[ch].queued + 1)
           /\ ReadyMaskWritten(to, task[to].readyMask \cup {r})
<1>0. task \in [Page -> KernTask] /\ chan \in [Page -> Channel] /\ TypeOK /\ None \notin Page
      BY KernelConstants DEF TypeOK, IInv
<1>1. t \in Tasks /\ thread[t] = "runs"
      BY CallerRuns DEF Send
<1>2. PICK ch \in Chans : ch = task[t].tx[s] /\ ch # None
      BY <1>1 DEF Send, IInv, MailExact, SendEndsKept
<1>3. PICK to \in Tasks, r \in Slot :
        /\ to = chan[ch].receiver /\ r = chan[ch].bit /\ task[to].rx[r] = ch
        /\ thread[to] # "yielded"
      <2>1. /\ chan[ch].receiver \in Tasks /\ task[chan[ch].receiver].rx[chan[ch].bit] = ch
            /\ thread[chan[ch].receiver] # "yielded"
            BY <1>1, <1>2 DEF IInv, MailExact, SendersReachReceivers
      <2>2. chan[ch].bit \in Slot
            BY <1>2 DEF IInv, MailExact, SendEndsKept
      <2> QED
          BY <2>1, <2>2
<1>4. ch \in Page /\ to \in Page
      BY DEF Tasks, Chans
<1>5. chan[ch].queued \in Nat /\ chan[ch].queued + 1 \in 0 .. NumMsgs
      <2>1. chan[ch].queued \in 0 .. NumMsgs
            BY <1>0, <1>4 DEF Channel
      <2>2. chan[ch].queued < NumMsgs
            BY <1>2 DEF Send, HasRoom
      <2> QED
          BY <2>1, <2>2, KernelConstants
<1>6. task[to].readyMask \cup {r} \in SUBSET Slot
      BY <1>0, <1>4 DEF KernTask
<1>7. chan' = [chan EXCEPT ![ch].queued = chan[ch].queued + 1]
      BY <1>0, <1>2, <1>4 DEF Send
<1>8. task' = [task EXCEPT ![to].readyMask = task[to].readyMask \cup {r}]
      BY <1>0, <1>2, <1>3, <1>4 DEF Send
<1>9. QueuedWritten(ch, chan[ch].queued + 1)
      BY <1>0, <1>4, <1>5, <1>7, WriteQueued
<1>10. ReadyMaskWritten(to, task[to].readyMask \cup {r})
      BY <1>0, <1>4, <1>6, <1>8, WriteReadyMask
<1> QED
    BY <1>2, <1>3, <1>5, <1>9, <1>10

\* The message is taken from channel ch in slot r.
Received(t, r, ch) ==
  /\ ch = task[t].rx[r] /\ ch # None
  /\ chan[ch].queued \in Nat /\ chan[ch].queued > 0
  /\ QueuedWritten(ch, chan[ch].queued - 1)
  /\ ReadyMaskWritten(t, IF chan[ch].queued = 1 THEN task[t].readyMask \ {r}
                                                ELSE task[t].readyMask)

\* A ready slot holds a channel with a message; the lowest one is chosen.
LEMMA RecvWrites ==
  ASSUME IInv, NEW t \in Page, NEW mask \in SUBSET Slot, Recv(t, mask)
  PROVE  \E r \in Slot, ch \in Chans :
           /\ r \in mask /\ \A i \in task[t].readyMask \cap mask : r <= i
           /\ Received(t, r, ch)
<1>0. task \in [Page -> KernTask] /\ chan \in [Page -> Channel] /\ TypeOK
      BY DEF TypeOK, IInv
<1>1. t \in Tasks
      BY CallerRuns DEF Recv
<1> DEFINE M == task[t].readyMask \cap mask
<1>2. M # {} /\ M \in SUBSET Slot
      BY DEF Recv
<1>3. PICK r \in M : r = (CHOOSE i \in M : \A j \in M : i <= j) /\ \A j \in M : r <= j
      BY <1>2, LowestSlot
<1>4. r \in Slot /\ r \in task[t].readyMask /\ r \in mask
      BY <1>2
<1>5. task[t].rx[r] # None /\ chan[task[t].rx[r]].queued > 0
      BY <1>1, <1>4 DEF IInv, MailExact, ReadyExact
<1>6. PICK ch \in Chans : ch = task[t].rx[r]
      BY <1>1, <1>4, <1>5, HeldChannel
<1>7. ch \in Page
      BY DEF Chans
<1>8. chan[ch].queued \in Nat /\ chan[ch].queued - 1 \in 0 .. NumMsgs
      BY <1>0, <1>5, <1>6, <1>7, KernelConstants DEF Channel
<1> DEFINE left == IF chan[ch].queued = 1 THEN task[t].readyMask \ {r} ELSE task[t].readyMask
<1>9. left \in SUBSET Slot
      BY <1>0 DEF KernTask
<1>10. chan' = [chan EXCEPT ![ch].queued = chan[ch].queued - 1]
      BY <1>0, <1>3, <1>6, <1>7 DEF Recv
<1>11. task' = [task EXCEPT ![t].readyMask = left]
      BY <1>0, <1>3, <1>6, <1>7 DEF Recv, ReadyAfterRecv
<1> HIDE DEF left
<1>12. QueuedWritten(ch, chan[ch].queued - 1) /\ ReadyMaskWritten(t, left)
      BY <1>0, <1>7, <1>8, <1>9, <1>10, <1>11, WriteQueued, WriteReadyMask
<1> QED
    BY <1>3, <1>4, <1>5, <1>6, <1>8, <1>12 DEF left, Received

\* Channel ch goes from slot r of t to slot n of task to.
Moved(t, r, to, ch, n) ==
  /\ to = task[t].creating /\ to # t /\ thread[to] = "none"
  /\ ch = task[t].rx[r] /\ ch # None /\ task[to].rx[n] = None
  /\ chan' \in [Page -> Channel] /\ OtherChansKept(ch)
  /\ chan'[ch].receiver = to /\ chan'[ch].bit = n /\ chan'[ch].fn = FALSE
  /\ chan'[ch].queued = chan[ch].queued
  /\ task' \in [Page -> KernTask]
  /\ \A p \in Page : p \notin {t, to} => task'[p] = task[p]
  /\ task'[t].rx = [task[t].rx EXCEPT ![r] = None]
  /\ task'[t].readyMask = task[t].readyMask \ {r}
  /\ task'[t].dispatchMask = task[t].dispatchMask \ {r}
  /\ task'[to].rx = [task[to].rx EXCEPT ![n] = ch]
  /\ task'[to].readyMask = ReadyAfterMove(task[to].readyMask, ch, n)
  /\ task'[to].dispatchMask = task[to].dispatchMask
  /\ \A p \in Page : /\ task'[p].tx = task[p].tx /\ task'[p].rxMask = task[p].rxMask
                     /\ task'[p].creating = task[p].creating
                     /\ LinksOf(p)' = LinksOf(p)

\* kern_move takes the receive end out of slot r of the caller and puts it in
\* a free slot of the task under creation, which is another task.
LEMMA MoveWrites ==
  ASSUME IInv, NEW t \in Page, NEW r \in Slot, MoveReceiver(t, r)
  PROVE  \E to \in Tasks, ch \in Chans, n \in Slot : Moved(t, r, to, ch, n)
<1>0. task \in [Page -> KernTask] /\ chan \in [Page -> Channel] /\ TypeOK /\ None \notin Page
      BY KernelConstants DEF TypeOK, IInv
<1>1. t \in Tasks /\ thread[t] = "runs"
      BY CallerRuns DEF MoveReceiver
<1> DEFINE to0 == task[t].creating
           ch0 == task[t].rx[r]
           n0 == FindSlot(task[to0].rx)
<1>a. /\ to0 # None /\ ch0 # None /\ FreeSlots(task[to0].rx) # {}
      BY DEF MoveReceiver
<1>b. task' = [task EXCEPT ![t].readyMask = @ \ {chan[ch0].bit},
                              ![t].dispatchMask = @ \ {chan[ch0].bit},
                              ![t].rx[r] = None,
                              ![to0].rx[n0] = ch0,
                              ![to0].readyMask = ReadyAfterMove(@, ch0, n0)]
      BY DEF MoveReceiver
<1>c. chan' = [chan EXCEPT ![ch0].receiver = to0, ![ch0].bit = n0, ![ch0].fn = FALSE]
      BY DEF MoveReceiver, BitAfterMove
<1>2. PICK ch \in Chans : ch = task[t].rx[r] /\ ch # None /\ chan[ch].bit = r
      BY <1>1, <1>a, HeldChannel
<1>3. PICK to \in Tasks : to = task[t].creating /\ thread[to] = "none"
      BY <1>1, <1>a DEF IInv, MailExact, CreatingExact
<1>4. ch \in Page /\ to \in Page /\ to # t
      BY <1>1, <1>3 DEF Chans, Tasks
<1>5. task[t] \in KernTask /\ task[to] \in KernTask /\ chan[ch] \in Channel
      BY <1>0, <1>4
<1>6. FindSlot(task[to].rx) \in Slot /\ task[to].rx[FindSlot(task[to].rx)] = None
      BY <1>3, <1>5, <1>a, FoundSlot DEF KernTask
<1>7. PICK n \in Slot : n = FindSlot(task[to].rx) /\ task[to].rx[n] = None
      BY <1>6
<1> DEFINE newCh == [chan[ch] EXCEPT !.receiver = to, !.bit = n, !.fn = FALSE]
           newT == [task[t] EXCEPT !.readyMask = task[t].readyMask \ {r},
                                   !.dispatchMask = task[t].dispatchMask \ {r},
                                   !.rx = [task[t].rx EXCEPT ![r] = None]]
           newTo == [task[to] EXCEPT !.rx = [task[to].rx EXCEPT ![n] = ch],
                       !.readyMask = ReadyAfterMove(task[to].readyMask, ch, n)]
<1>8. chan' = [chan EXCEPT ![ch] = newCh]
      BY <1>0, <1>2, <1>3, <1>4, <1>7, <1>c
<1>9. task' = [task EXCEPT ![t] = newT, ![to] = newTo]
      <2> DEFINE ts == [task EXCEPT ![t].readyMask = task[t].readyMask \ {r},
                                    ![t].dispatchMask = task[t].dispatchMask \ {r},
                                    ![t].rx[r] = None]
      <2>0. task' = [task EXCEPT ![t].readyMask = @ \ {r},
                                 ![t].dispatchMask = @ \ {r},
                                 ![t].rx[r] = None,
                                 ![to].rx[n] = ch,
                                 ![to].readyMask = ReadyAfterMove(@, ch, n)]
            BY <1>2, <1>3, <1>7, <1>b
      <2>1. task' = [ts EXCEPT ![to].rx[n] = ch,
                               ![to].readyMask = ReadyAfterMove(@, ch, n)]
            BY <1>0, <1>4, <1>5, <2>0
      <2>2. ts = [task EXCEPT ![t] = newT]
            BY <1>0, <1>4, <1>5
      <2> HIDE DEF ts, newT
      <2>3. ts[to] = task[to] /\ to \in DOMAIN ts
            BY <1>0, <1>4, <2>2
      <2>4. task' = [ts EXCEPT ![to] = newTo]
            BY <2>1, <2>3
      <2> QED
          BY <2>2, <2>4
<1>10. /\ newCh \in Channel
       /\ newCh.receiver = to /\ newCh.bit = n /\ newCh.fn = FALSE
       /\ newCh.queued = chan[ch].queued
       BY <1>4, <1>5 DEF Channel, Ptr
<1>11. /\ newT \in KernTask
       /\ newT.rx = [task[t].rx EXCEPT ![r] = None]
       /\ newT.readyMask = task[t].readyMask \ {r}
       /\ newT.dispatchMask = task[t].dispatchMask \ {r}
       /\ newT.tx = task[t].tx /\ newT.rxMask = task[t].rxMask
       /\ newT.creating = task[t].creating
       /\ newT.next = task[t].next /\ newT.prev = task[t].prev
       BY <1>5 DEF KernTask, Ptr
<1>12. /\ newTo \in KernTask
       /\ newTo.rx = [task[to].rx EXCEPT ![n] = ch]
       /\ newTo.readyMask = ReadyAfterMove(task[to].readyMask, ch, n)
       /\ newTo.dispatchMask = task[to].dispatchMask
       /\ newTo.tx = task[to].tx /\ newTo.rxMask = task[to].rxMask
       /\ newTo.creating = task[to].creating
       /\ newTo.next = task[to].next /\ newTo.prev = task[to].prev
       <2>1. ReadyAfterMove(task[to].readyMask, ch, n) \in SUBSET Slot
             BY <1>5 DEF KernTask, ReadyAfterMove
       <2> QED
           BY <1>4, <1>5, <2>1 DEF KernTask, Ptr
<1> HIDE DEF newCh, newT, newTo
<1>13. chan' \in [Page -> Channel] /\ OtherChansKept(ch) /\ chan'[ch] = newCh
       BY <1>0, <1>4, <1>8, <1>10 DEF OtherChansKept
<1>14. /\ task' \in [Page -> KernTask]
       /\ \A p \in Page : p \notin {t, to} => task'[p] = task[p]
       /\ task'[t] = newT /\ task'[to] = newTo
       BY <1>0, <1>4, <1>9, <1>11, <1>12
<1>15. \A p \in Page : /\ task'[p].tx = task[p].tx /\ task'[p].rxMask = task[p].rxMask
                       /\ task'[p].creating = task[p].creating
                       /\ LinksOf(p)' = LinksOf(p)
       <2> TAKE p \in Page
       <2>1. CASE p = t
             BY <1>11, <1>14, <2>1 DEF LinksOf
       <2>2. CASE p = to
             BY <1>12, <1>14, <2>2 DEF LinksOf
       <2>3. CASE p \notin {t, to}
             BY <1>14, <2>3 DEF LinksOf
       <2> QED
           BY <2>1, <2>2, <2>3
<1>16. Moved(t, r, to, ch, n)
       BY <1>2, <1>3, <1>4, <1>7, <1>10, <1>11, <1>12, <1>13, <1>14, <1>15 DEF Moved
<1> QED
    BY <1>16

\* What the messages, and the sending and receiving, depend on.
SameMail(a, b) ==
  a.rx = b.rx /\ a.tx = b.tx /\ a.readyMask = b.readyMask /\ a.dispatchMask = b.dispatchMask

\* Two writes to a task that change neither its mail nor its links.
LEMMA WriteCreating ==
  ASSUME NEW ts \in [Page -> KernTask], NEW t \in Page, NEW v \in Ptr
  PROVE  LET us == [ts EXCEPT ![t].creating = v]
         IN  /\ us \in [Page -> KernTask]
             /\ \A p \in Page : /\ us[p].creating = IF p = t THEN v ELSE ts[p].creating
                                /\ us[p].next = ts[p].next /\ us[p].prev = ts[p].prev
                                /\ us[p].rxMask = ts[p].rxMask
                                /\ SameMail(us[p], ts[p])
<1> DEFINE us == [ts EXCEPT ![t].creating = v]
           new == [ts[t] EXCEPT !.creating = v]
<1>1. us = [ts EXCEPT ![t] = new] /\ ts[t] \in KernTask
      OBVIOUS
<1>2. new \in KernTask
      BY <1>1 DEF KernTask
<1>3. /\ new.creating = v /\ new.rxMask = ts[t].rxMask
      /\ new.next = ts[t].next /\ new.prev = ts[t].prev
      /\ SameMail(new, ts[t])
      BY <1>1 DEF KernTask, SameMail
<1>4. \A p \in Page : p # t => us[p] = ts[p] /\ SameMail(ts[p], ts[p])
      BY DEF SameMail
<1> HIDE DEF new
<1> QED
    BY <1>1, <1>2, <1>3, <1>4

\* A write of one mask of the ends that are waited for.
LEMMA WriteRxMask ==
  ASSUME NEW ts \in [Page -> KernTask], NEW t \in Page, NEW v \in SUBSET Slot
  PROVE  LET us == [ts EXCEPT ![t].rxMask = v]
         IN  /\ us \in [Page -> KernTask]
             /\ \A p \in Page : /\ us[p].rxMask = IF p = t THEN v ELSE ts[p].rxMask
                                /\ us[p].next = ts[p].next /\ us[p].prev = ts[p].prev
                                /\ us[p].creating = ts[p].creating
                                /\ SameMail(us[p], ts[p])
<1> DEFINE us == [ts EXCEPT ![t].rxMask = v]
           new == [ts[t] EXCEPT !.rxMask = v]
<1>1. us = [ts EXCEPT ![t] = new] /\ ts[t] \in KernTask
      OBVIOUS
<1>2. new \in KernTask
      BY <1>1 DEF KernTask
<1>3. /\ new.rxMask = v /\ new.creating = ts[t].creating
      /\ new.next = ts[t].next /\ new.prev = ts[t].prev
      /\ SameMail(new, ts[t])
      BY <1>1 DEF KernTask, SameMail
<1>4. \A p \in Page : p # t => us[p] = ts[p] /\ SameMail(ts[p], ts[p])
      BY DEF SameMail
<1> HIDE DEF new
<1> QED
    BY <1>1, <1>2, <1>3, <1>4

\* The new task is nt.
Forked(t, nt) ==
  /\ kind[nt] = "free" /\ kind' = [kind EXCEPT ![nt] = "task"]
  /\ task[t].creating = None /\ UNCHANGED <<chan, cpu, os, fault>>
  /\ nt # t /\ thread[nt] = "none"
  /\ task' \in [Page -> KernTask] /\ task'[nt] = ClearedTask
  /\ \A p \in Page \ {nt} :
       /\ task'[p].creating = IF p = t THEN nt ELSE task[p].creating
       /\ task'[p].next = task[p].next /\ task'[p].prev = task[p].prev
       /\ task'[p].rxMask = task[p].rxMask
       /\ SameMail(task'[p], task[p])

\* kern_fork clears a page and makes it the task in creation.
LEMMA ForkWrites ==
  ASSUME IInv, NEW t \in Page, Fork(t)
  PROVE  \E nt \in Page : Forked(t, nt)
<1>0. task \in [Page -> KernTask]
      BY DEF TypeOK, IInv
<1>1. PICK nt \in Page :
        /\ kind[nt] = "free" /\ kind' = [kind EXCEPT ![nt] = "task"]
        /\ task' = [task EXCEPT ![nt] = ClearedTask, ![t].creating = nt]
      BY DEF Fork
<1>2. nt # t /\ thread[nt] = "none"
      BY <1>1, FreePage DEF Fork
<1> DEFINE ts == [task EXCEPT ![nt] = ClearedTask]
<1>3. task' = [ts EXCEPT ![t].creating = nt]
      BY <1>1
<1>4. ClearedTask \in KernTask
      BY DEF ClearedTask, KernTask, Ptr
<1>5. ts \in [Page -> KernTask] /\ ts[nt] = ClearedTask /\ \A p \in Page \ {nt} : ts[p] = task[p]
      BY <1>0, <1>4
<1> HIDE DEF ts
<1>6. /\ task' \in [Page -> KernTask]
      /\ \A p \in Page : /\ task'[p].creating = IF p = t THEN nt ELSE ts[p].creating
                         /\ task'[p].next = ts[p].next /\ task'[p].prev = ts[p].prev
                         /\ task'[p].rxMask = ts[p].rxMask
                         /\ SameMail(task'[p], ts[p])
      BY <1>3, <1>5, WriteCreating DEF Ptr
<1>7. task'[nt] = ts[nt]
      BY <1>2, <1>3, <1>5
<1>8. task[t].creating = None /\ UNCHANGED <<chan, cpu, os, fault>>
      BY DEF Fork
<1>9. \A p \in Page \ {nt} :
        /\ task'[p].creating = IF p = t THEN nt ELSE task[p].creating
        /\ task'[p].next = task[p].next /\ task'[p].prev = task[p].prev
        /\ task'[p].rxMask = task[p].rxMask
        /\ SameMail(task'[p], task[p])
      BY <1>5, <1>6
<1>10. task'[nt] = ClearedTask
      BY <1>5, <1>7
<1> QED
    BY <1>1, <1>2, <1>6, <1>8, <1>9, <1>10 DEF Forked

\* A push in front of one list does not touch another.
LEMMA PushedElsewhere ==
  ASSUME NEW ts \in [Page -> KernTask],
         NEW S \in SUBSET Page, NEW h, IsTaskList(ts, S, h), NEW t \in Page, t \notin S,
         NEW A \in SUBSET Page, NEW g, IsTaskList(ts, A, g), A \cap S = {}, t \notin A
  PROVE  IsTaskList(PushFront(ts, t, h), A, g)
<1>1. (h = None \/ h \in S) /\ h \in Ptr /\ h # t /\ None \notin Page
      BY KernelConstants DEF IsTaskList, Ptr
<1>2. \A p \in A : PushFront(ts, t, h)[p].next = ts[p].next /\ PushFront(ts, t, h)[p].prev = ts[p].prev
      BY <1>1, PushLinks
<1> QED
    BY <1>2, ListKept

\* The two lists of the core, as a caller finds them.
LEMMA TwoLists ==
  ASSUME IInv
  PROVE  /\ IsTaskList(task, Ready, ready) /\ IsTaskList(task, Asleep, asleep)
         /\ Ready \in SUBSET Page /\ Asleep \in SUBSET Page /\ Asleep \cap Ready = {}
         /\ task \in [Page -> KernTask] /\ None \notin Page
BY KernelConstants DEF IInv, CoreExact, SchedulerListsExact, TypeOK, Ready, Asleep

\* A sleeping task goes from the one list to the other.
LEMMA SleepWrites ==
  ASSUME IInv, NEW t \in Page, NEW mask \in SUBSET Slot, Sleep(t, mask)
  PROVE  /\ task' \in [Page -> KernTask]
         /\ \A p \in Page : /\ SameMail(task'[p], task[p])
                            /\ task'[p].creating = task[p].creating
                            /\ task'[p].rxMask = IF p = t THEN mask ELSE task[p].rxMask
         /\ IsTaskList(task', Ready \ {t}, ready')
         /\ IsTaskList(task', Asleep \cup {t}, asleep')
<1> DEFINE ts == [task EXCEPT ![t].rxMask = mask]
           gone == Unlink(ts, t)
<1>1. /\ task' = PushFront(gone, t, asleep) /\ asleep' = t
      /\ ready' = IF ready = t THEN task[t].next ELSE ready
      BY DEF Sleep, HeadWithout
<1>2. t \in Ready /\ t \notin Asleep
      BY CallerRuns, TwoLists DEF Sleep
<1>3. /\ ts \in [Page -> KernTask]
      /\ \A p \in Page : /\ ts[p].rxMask = IF p = t THEN mask ELSE task[p].rxMask
                         /\ ts[p].next = task[p].next /\ ts[p].prev = task[p].prev
                         /\ ts[p].creating = task[p].creating
                         /\ SameMail(ts[p], task[p])
      BY TwoLists, WriteRxMask
<1> HIDE DEF ts
<1>4. IsTaskList(ts, Ready, ready) /\ IsTaskList(ts, Asleep, asleep)
      BY <1>3, TwoLists, ListKept
<1>5. /\ IsTaskList(gone, Ready \ {t}, ready')
      /\ IsTaskList(gone, Asleep, asleep)
      BY <1>1, <1>2, <1>3, <1>4, TwoLists, ListUnlinked, OtherListKept
<1>6. gone \in [Page -> KernTask] /\ \A p \in Page : SameTask(gone[p], ts[p])
      BY <1>3, UnlinkLinks
<1> HIDE DEF gone
<1>7. IsTaskList(task', Asleep \cup {t}, asleep')
      BY <1>1, <1>2, <1>5, <1>6, TwoLists, ListPushed
<1>8. IsTaskList(task', Ready \ {t}, ready')
      <2>1. Ready \ {t} \in SUBSET Page /\ (Ready \ {t}) \cap Asleep = {} /\ t \notin Ready \ {t}
            BY TwoLists
      <2> QED
          BY <1>1, <1>2, <1>5, <1>6, <2>1, TwoLists, PushedElsewhere
<1>9. asleep \in Ptr /\ asleep # t
      BY <1>2, TwoLists, KernelConstants DEF IsTaskList, Ptr
<1>10. task' \in [Page -> KernTask] /\ \A p \in Page : SameTask(task'[p], gone[p])
       BY <1>1, <1>6, <1>9, PushLinks
<1> QED
    BY <1>3, <1>6, <1>7, <1>8, <1>10 DEF SameTask, SameMail

\* A started task goes in front of the ready list.
Started(t, nt) ==
  /\ nt = task[t].creating /\ nt # None /\ nt # t /\ thread[nt] = "none"
  /\ thread' = [thread EXCEPT ![nt] = "suspended"] /\ ready' = nt
  /\ UNCHANGED <<kind, chan, asleep, running, event, fault>>
  /\ task' \in [Page -> KernTask]
  /\ \A p \in Page : /\ SameMail(task'[p], task[p])
                     /\ task'[p].creating = IF p = t THEN None ELSE task[p].creating
                     /\ task'[p].rxMask = task[p].rxMask
  /\ IsTaskList(task', Ready \cup {nt}, ready')
  /\ IsTaskList(task', Asleep, asleep')

\* kern_start ends the creation and lists the new task.
LEMMA StartWrites ==
  ASSUME IInv, NEW t \in Page, Start(t)
  PROVE  \E nt \in Tasks : Started(t, nt)
<1>1. t \in Tasks /\ thread[t] = "runs"
      BY CallerRuns DEF Start
<1>2. PICK nt \in Tasks : nt = task[t].creating /\ nt # None /\ thread[nt] = "none"
      BY <1>1 DEF Start, IInv, MailExact, CreatingExact
<1>3. nt \in Page /\ nt # t /\ nt \notin Ready /\ nt \notin Asleep
      BY <1>1, <1>2 DEF Ready, Asleep, Tasks
<1> DEFINE ts == [task EXCEPT ![t].creating = None]
<1>4. /\ task' = PushFront(ts, nt, ready) /\ ready' = nt
      /\ thread' = [thread EXCEPT ![nt] = "suspended"]
      /\ UNCHANGED <<kind, chan, asleep, running, event, fault>>
      BY <1>2 DEF Start
<1>5. /\ ts \in [Page -> KernTask]
      /\ \A p \in Page : /\ ts[p].creating = IF p = t THEN None ELSE task[p].creating
                         /\ ts[p].next = task[p].next /\ ts[p].prev = task[p].prev
                         /\ ts[p].rxMask = task[p].rxMask
                         /\ SameMail(ts[p], task[p])
      BY TwoLists, WriteCreating DEF Ptr
<1> HIDE DEF ts
<1>6. IsTaskList(ts, Ready, ready) /\ IsTaskList(ts, Asleep, asleep)
      BY <1>5, TwoLists, ListKept
<1>7. IsTaskList(task', Ready \cup {nt}, ready')
      BY <1>3, <1>4, <1>5, <1>6, TwoLists, ListPushed
<1>8. IsTaskList(task', Asleep, asleep')
      BY <1>3, <1>4, <1>5, <1>6, TwoLists, PushedElsewhere
<1>9. ready \in Ptr /\ ready # nt
      BY <1>3, TwoLists, KernelConstants DEF IsTaskList, Ptr
<1>10. task' \in [Page -> KernTask] /\ \A p \in Page : SameTask(task'[p], ts[p])
       BY <1>3, <1>4, <1>5, <1>9, PushLinks
<1>11. \A p \in Page : /\ SameMail(task'[p], task[p])
                       /\ task'[p].creating = IF p = t THEN None ELSE task[p].creating
                       /\ task'[p].rxMask = task[p].rxMask
       BY <1>5, <1>10 DEF SameTask, SameMail
<1>12. Started(t, nt)
       BY <1>2, <1>3, <1>4, <1>7, <1>8, <1>10, <1>11 DEF Started
<1> QED
    BY <1>12

\* The ending task leaves the ready list.
LEMMA FreeTaskWrites ==
  ASSUME IInv, NEW t \in Page, Calls(t), NEW ts \in [Page -> KernTask], FreeTask(ts, t),
         \A p \in Page : /\ ts[p].next = task[p].next /\ ts[p].prev = task[p].prev
                         /\ ts[p].rxMask = task[p].rxMask
                         /\ SameMail(ts[p], task[p])
  PROVE  /\ task' \in [Page -> KernTask]
         /\ \A p \in Page : /\ SameMail(task'[p], task[p])
                            /\ task'[p].creating = ts[p].creating
                            /\ task'[p].rxMask = task[p].rxMask
         /\ IsTaskList(task', Ready \ {t}, ready')
         /\ IsTaskList(task', Asleep, asleep')
         /\ kind' = [kind EXCEPT ![t] = "free"] /\ UNCHANGED <<chan, running, fault, asleep>>
<1>1. t \in Ready /\ t \notin Asleep /\ asleep # t
      BY CallerRuns, TwoLists DEF IsTaskList
<1>2. /\ task' = Unlink(ts, t) /\ asleep' = asleep
      /\ ready' = IF ready = t THEN ts[t].next ELSE ready
      /\ kind' = [kind EXCEPT ![t] = "free"] /\ UNCHANGED <<chan, running, fault>>
      BY <1>1 DEF FreeTask, HeadWithout
<1>3. IsTaskList(ts, Ready, ready) /\ IsTaskList(ts, Asleep, asleep)
      BY TwoLists, ListKept
<1>4. IsTaskList(task', Ready \ {t}, ready') /\ IsTaskList(task', Asleep, asleep')
      BY <1>1, <1>2, <1>3, TwoLists, ListUnlinked, OtherListKept
<1>5. task' \in [Page -> KernTask] /\ \A p \in Page : SameTask(task'[p], ts[p])
      BY <1>2, UnlinkLinks
<1> QED
    BY <1>2, <1>4, <1>5 DEF SameTask, SameMail

-----------------------------------------------------------------------------
(* The core's lists and its one running thread.                            *)

\* A call that writes no link of a started task leaves the lists alone.
LEMMA CoreKept ==
  ASSUME IInv, UNCHANGED <<cpu, os>>,
         \A p \in Page : thread[p] \in {"suspended", "runs", "yielded"} =>
            /\ task'[p].next = task[p].next /\ task'[p].prev = task[p].prev
            /\ kind'[p] = kind[p]
  PROVE  CoreExact'
<1>1. /\ ready' = ready /\ asleep' = asleep /\ running' = running
      /\ thread' = thread /\ event' = event
      BY DEF cpu, os
<1>2. Ready' = Ready /\ Asleep' = Asleep
      BY <1>1 DEF Ready, Asleep
<1>3. IsTaskList(task', Ready, ready) /\ IsTaskList(task', Asleep, asleep)
      BY TwoLists, ListKept DEF Ready, Asleep
<1>4. SchedulerListsExact'
      BY <1>1, <1>2, <1>3 DEF IInv, CoreExact, SchedulerListsExact
<1>5. OneThreadRuns'
      BY <1>1 DEF IInv, CoreExact, OneThreadRuns
<1> QED
    BY <1>4, <1>5 DEF CoreExact

\* The scheduler's part of the invariant, call by call: kern_pipe,
LEMMA PipeCore ==
  ASSUME IInv, NEW t \in Page, NEW fn \in BOOLEAN, Pipe(t, fn)
  PROVE  CoreExact'
<1>1. UNCHANGED <<cpu, os>>
      BY DEF Pipe
<1>2. Calls(t) /\ TypeOK
      BY DEF Pipe, IInv
<1>3. \A p \in Page : task'[p].next = task[p].next /\ task'[p].prev = task[p].prev
      BY <1>2, PipeWrites DEF OthersKept, Piped
<1>4. \A p \in Page : thread[p] \in {"suspended", "runs", "yielded"} => kind'[p] = kind[p]
      <2>1. PICK ch \in Page : kind[ch] = "free" /\ kind' = [kind EXCEPT ![ch] = "chan"]
            BY DEF Pipe
      <2>2. thread[ch] = "none"
            BY <1>2, <2>1, FreePage
      <2> QED
          BY <1>2, <2>1, <2>2 DEF TypeOK
<1> QED
    BY <1>1, <1>3, <1>4, CoreKept

\* a redirect,
LEMMA RedirectCore ==
  ASSUME IInv, NEW t \in Page, NEW r \in Slot, NEW fn \in BOOLEAN, Redirect(t, r, fn)
  PROVE  CoreExact'
<1>1. UNCHANGED <<cpu, os>> /\ kind' = kind
      BY DEF Redirect
<1>2. \A p \in Page : task'[p].next = task[p].next /\ task'[p].prev = task[p].prev
      BY RedirectWrites DEF OthersKept
<1> QED
    BY <1>1, <1>2, CoreKept

\* kern_send,
LEMMA SendCore ==
  ASSUME IInv, NEW t \in Page, NEW s \in Slot, Send(t, s)
  PROVE  CoreExact'
<1>1. UNCHANGED <<cpu, os>> /\ kind' = kind
      BY DEF Send
<1>2. \A p \in Page : task'[p].next = task[p].next /\ task'[p].prev = task[p].prev
      BY SendWrites DEF OthersKept, ReadyMaskWritten
<1> QED
    BY <1>1, <1>2, CoreKept

\* kern_recv of a message that is there,
LEMMA RecvCore ==
  ASSUME IInv, NEW t \in Page, NEW mask \in SUBSET Slot, Recv(t, mask)
  PROVE  CoreExact'
<1>1. UNCHANGED <<cpu, os>> /\ kind' = kind
      BY DEF Recv
<1>2. \A p \in Page : task'[p].next = task[p].next /\ task'[p].prev = task[p].prev
      BY RecvWrites DEF Received, OthersKept, ReadyMaskWritten
<1> QED
    BY <1>1, <1>2, CoreKept

\* kern_move,
LEMMA MoveCore ==
  ASSUME IInv, NEW t \in Page, NEW r \in Slot, MoveReceiver(t, r)
  PROVE  CoreExact'
<1>1. UNCHANGED <<cpu, os>> /\ kind' = kind
      BY DEF MoveReceiver
<1>2. PICK to \in Tasks, ch \in Chans, n \in Slot : Moved(t, r, to, ch, n)
      BY MoveWrites
<1>3. \A p \in Page : task'[p].next = task[p].next /\ task'[p].prev = task[p].prev
      BY <1>2 DEF Moved, LinksOf
<1> QED
    BY <1>1, <1>3, CoreKept

\* kern_fork,
LEMMA ForkCore ==
  ASSUME IInv, NEW t \in Page, Fork(t)
  PROVE  CoreExact'
<1>1. PICK nt \in Page : Forked(t, nt)
      BY ForkWrites
<1>2. \A p \in Page : thread[p] \in {"suspended", "runs", "yielded"} => p # nt /\ kind'[p] = kind[p]
      BY <1>1 DEF IInv, TypeOK, Forked
<1> QED
    BY <1>1, <1>2, CoreKept DEF Forked

\* kern_recv of one that is not,
LEMMA SleepCore ==
  ASSUME IInv, NEW t \in Page, NEW mask \in SUBSET Slot, Sleep(t, mask)
  PROVE  CoreExact'
<1>1. /\ thread[t] = "runs" /\ kind[t] = "task"
      /\ \A p \in Page : thread[p] \in {"runs", "zombie"} => p = t
      BY CallerRuns DEF Sleep, Tasks
<1>2. thread' = [thread EXCEPT ![t] = "yielded"] /\ event' = TRUE /\ kind' = kind
      BY CallerRuns DEF Sleep
<1>3. thread \in [Page -> {"none", "suspended", "runs", "yielded", "zombie"}]
      BY DEF IInv, TypeOK
<1>4. Ready' = Ready \ {t} /\ Asleep' = Asleep \cup {t}
      BY <1>2, <1>3 DEF Ready, Asleep
<1>5. IsTaskList(task', Ready', ready') /\ IsTaskList(task', Asleep', asleep')
      BY <1>4, SleepWrites
<1>6. SchedulerListsExact'
      BY <1>1, <1>2, <1>3, <1>5 DEF IInv, CoreExact, SchedulerListsExact
<1>7. OneThreadRuns'
      BY <1>1, <1>2, <1>3 DEF OneThreadRuns
<1> QED
    BY <1>6, <1>7 DEF CoreExact

\* kern_start,
LEMMA StartCore ==
  ASSUME IInv, NEW t \in Page, Start(t)
  PROVE  CoreExact'
<1>1. /\ thread[t] = "runs" /\ t = running /\ ~event
      /\ \A p \in Page : thread[p] \in {"runs", "zombie"} => p = t
      BY CallerRuns DEF Start
<1>2. PICK nt \in Tasks : Started(t, nt)
      BY StartWrites
<1>3. thread \in [Page -> {"none", "suspended", "runs", "yielded", "zombie"}] /\ nt \in Page
      BY DEF IInv, TypeOK, Tasks
<1>4. Ready' = Ready \cup {nt} /\ Asleep' = Asleep
      BY <1>2, <1>3 DEF Ready, Asleep, Started
<1>5. IsTaskList(task', Ready', ready') /\ IsTaskList(task', Asleep', asleep')
      BY <1>2, <1>4 DEF Started
<1>6. SchedulerListsExact'
      BY <1>2, <1>3, <1>5 DEF IInv, CoreExact, SchedulerListsExact, Tasks, Started
<1>7. OneThreadRuns'
      BY <1>1, <1>2, <1>3 DEF OneThreadRuns, Started
<1> QED
    BY <1>6, <1>7 DEF CoreExact

\* The end of a task, by its own return or by a cancel.
FreeStep(t) ==
  /\ Calls(t)
  /\ \/ Exit(t)
     \/ Cancel(t)

\* The end of a task changes no masks and no ends.
LEMMA FreeStepWrites ==
  ASSUME IInv, NEW t \in Page, FreeStep(t)
  PROVE  /\ task' \in [Page -> KernTask]
         /\ \A p \in Page : /\ SameMail(task'[p], task[p])
                            /\ task'[p].creating = IF p = t /\ Cancel(t) THEN None
                                                   ELSE task[p].creating
                            /\ task'[p].rxMask = task[p].rxMask
         /\ IsTaskList(task', Ready \ {t}, ready')
         /\ IsTaskList(task', Asleep, asleep')
         /\ kind' = [kind EXCEPT ![t] = "free"] /\ UNCHANGED <<chan, running, fault, asleep>>
         /\ \/ thread' = [thread EXCEPT ![t] = "none"] /\ event' = TRUE
            \/ thread' = [thread EXCEPT ![t] = "zombie"] /\ UNCHANGED event
<1>0. Calls(t) /\ task \in [Page -> KernTask]
      BY TwoLists DEF FreeStep
<1>1. CASE Exit(t) /\ ~Cancel(t)
      <2>1. FreeTask(task, t)
            BY <1>1 DEF Exit
      <2>2. \A p \in Page : SameMail(task[p], task[p])
            BY DEF SameMail
      <2>3. thread' = [thread EXCEPT ![t] = "none"] /\ event' = TRUE
            BY <1>1 DEF Exit, Signalled
      <2> QED
          BY <1>0, <1>1, <2>1, <2>2, <2>3, FreeTaskWrites
<1>2. CASE Cancel(t)
      <2> DEFINE ts == [task EXCEPT ![t].creating = None]
      <2>1. FreeTask(ts, t)
            BY <1>2 DEF Cancel
      <2>2. /\ ts \in [Page -> KernTask]
            /\ \A p \in Page : /\ ts[p].creating = IF p = t THEN None ELSE task[p].creating
                               /\ ts[p].next = task[p].next /\ ts[p].prev = task[p].prev
                               /\ ts[p].rxMask = task[p].rxMask
                               /\ SameMail(ts[p], task[p])
            BY <1>0, WriteCreating DEF Ptr
      <2>3. thread' = [thread EXCEPT ![t] = "zombie"] /\ UNCHANGED event
            BY <1>2 DEF Cancel
      <2> HIDE DEF ts
      <2> QED
          BY <1>0, <1>2, <2>1, <2>2, <2>3, FreeTaskWrites
<1> QED
    BY <1>1, <1>2 DEF FreeStep

\* the end of a task,
LEMMA FreeCore ==
  ASSUME IInv, NEW t \in Page, FreeStep(t)
  PROVE  CoreExact'
<1>1. /\ thread[t] = "runs" /\ t = running /\ ~event
      /\ \A p \in Page : thread[p] \in {"runs", "zombie"} => p = t
      BY CallerRuns DEF FreeStep
<1>2. PICK label \in {"none", "zombie"} :
        /\ thread' = [thread EXCEPT ![t] = label]
        /\ IF label = "none" THEN event' = TRUE ELSE event' = event
        /\ running' = running
        /\ kind' = [kind EXCEPT ![t] = "free"]
      BY FreeStepWrites
<1>3. /\ thread \in [Page -> {"none", "suspended", "runs", "yielded", "zombie"}]
      /\ kind \in [Page -> {"free", "task", "chan"}]
      BY DEF IInv, TypeOK
<1>4. Ready' = Ready \ {t} /\ Asleep' = Asleep
      BY <1>1, <1>2, <1>3 DEF Ready, Asleep
<1>5. IsTaskList(task', Ready', ready') /\ IsTaskList(task', Asleep', asleep')
      BY <1>4, FreeStepWrites
<1>6. SchedulerListsExact'
      BY <1>2, <1>3, <1>5 DEF IInv, CoreExact, SchedulerListsExact
<1>7. OneThreadRuns'
      BY <1>1, <1>2, <1>3 DEF OneThreadRuns
<1> QED
    BY <1>6, <1>7 DEF CoreExact

\* Between two threads nobody runs; the head of the ready list is new.
LEMMA NextThread ==
  ASSUME IInv, Schedule
  PROVE  /\ \A p \in Page : thread[p] \notin {"runs", "zombie"}
         /\ UNCHANGED <<kind, task, chan, ready, asleep, fault>> /\ event' = FALSE
         /\ ready = None => UNCHANGED <<running, thread>>
         /\ ready # None => /\ ready \in Page /\ thread[ready] = "suspended"
                            /\ running' = ready /\ thread' = [thread EXCEPT ![ready] = "runs"]
<1>1. \A p \in Page : thread[p] \notin {"runs", "zombie"}
      BY DEF Schedule, IInv, CoreExact, OneThreadRuns
<1>2. ready # None => ready \in Ready
      BY TwoLists DEF IsTaskList
<1> QED
    BY <1>1, <1>2 DEF Schedule, Elected, Ready

\* and the choice of the next one.
LEMMA ScheduleCore ==
  ASSUME IInv, Schedule
  PROVE  CoreExact'
<1>1. thread \in [Page -> {"none", "suspended", "runs", "yielded", "zombie"}]
      BY DEF IInv, TypeOK
<1>2. Ready' = Ready /\ Asleep' = Asleep
      BY <1>1, NextThread DEF Ready, Asleep
<1>3. SchedulerListsExact'
      BY <1>1, <1>2, NextThread DEF IInv, CoreExact, SchedulerListsExact
<1>4. OneThreadRuns'
      BY <1>1, NextThread DEF OneThreadRuns
<1> QED
    BY <1>3, <1>4 DEF CoreExact

\* A step that stops the kernel at a fault; it changes nothing else.
FaultStep ==
  UNCHANGED <<kind, task, chan, cpu, os>> /\ fault' \in {"valid", "core", "bounds"}

\* The steps, one by one.
LEMMA Steps ==
  ASSUME Next
  PROVE  \/ \E t \in Page, fn \in BOOLEAN : Pipe(t, fn)
         \/ \E t \in Page, r \in Slot, fn \in BOOLEAN : Redirect(t, r, fn)
         \/ \E t \in Page, s \in Slot : Send(t, s) \/ MoveReceiver(t, s)
         \/ \E t \in Page, mask \in SUBSET Slot : Recv(t, mask) \/ Sleep(t, mask)
         \/ \E t \in Page : Fork(t) \/ Start(t) \/ FreeStep(t)
         \/ Schedule
         \/ FaultStep
<1>1. SUFFICES ASSUME NEW t \in Page, Syscall(t) \/ Exit(t) \/ ZombieEnds(t)
               PROVE  \/ \E fn \in BOOLEAN : Pipe(t, fn)
                      \/ \E r \in Slot, fn \in BOOLEAN : Redirect(t, r, fn)
                      \/ \E s \in Slot : Send(t, s) \/ MoveReceiver(t, s)
                      \/ \E mask \in SUBSET Slot : Recv(t, mask) \/ Sleep(t, mask)
                      \/ Fork(t) \/ Start(t) \/ FreeStep(t)
                      \/ FaultStep
      BY DEF Next
<1>2. \A s \in Slot : SendPageToNew(t, s) => FaultStep
      BY DEF SendPageToNew, FaultStep
<1>3. MoveSender(t) => FaultStep
      BY DEF MoveSender, FaultStep
<1>4. ZombieEnds(t) => FaultStep
      BY DEF ZombieEnds, FaultStep
<1>5. Exit(t) \/ Cancel(t) => FreeStep(t)
      BY DEF FreeStep, Exit, Cancel
<1> QED
    BY <1>1, <1>2, <1>3, <1>4, <1>5 DEF Syscall

-----------------------------------------------------------------------------
(* Type correctness.                                                       *)

\* The head of a list is a task or NULL.
LEMMA ListHead ==
  ASSUME NEW ts, NEW S \in SUBSET Page, NEW h, IsTaskList(ts, S, h)
  PROVE  h \in Ptr
BY DEF IsTaskList, Ptr

\* The first task is laid out in its types.
LEMMA TypeInit == Init => TypeOK
<1> SUFFICES ASSUME Init PROVE TypeOK
    OBVIOUS
<1>1. ClearedTask \in KernTask
      BY DEF ClearedTask, KernTask, Ptr
<1>2. ClearedChan \in Channel
      BY KernelConstants DEF ClearedChan, Channel, Ptr
<1>3. PICK t \in Page :
        /\ kind = [p \in Page |-> IF p = t THEN "task" ELSE "free"]
        /\ thread = [p \in Page |-> IF p = t THEN "runs" ELSE "none"]
        /\ ready = t /\ running = t
      BY DEF Init
<1>4. /\ kind \in [Page -> {"free", "task", "chan"}]
      /\ thread \in [Page -> {"none", "suspended", "runs", "yielded", "zombie"}]
      /\ ready \in Ptr /\ running \in Page
      BY <1>3 DEF Ptr
<1>5. task \in [Page -> KernTask] /\ chan \in [Page -> Channel]
      BY <1>1, <1>2 DEF Init
<1>6. asleep \in Ptr /\ event \in BOOLEAN /\ fault \in {"none", "valid", "core", "bounds"}
      BY DEF Init, Ptr
<1> QED
    BY <1>4, <1>5, <1>6 DEF TypeOK

\* Every step keeps the types.
LEMMA TypeNext ==
  ASSUME IInv, Next
  PROVE  TypeOK'
<1>0. TypeOK
      BY DEF IInv
<1>1. ASSUME NEW t \in Page, NEW fn \in BOOLEAN, Pipe(t, fn)
      PROVE  TypeOK'
      <2>1. UNCHANGED <<cpu, os, fault>>
            BY <1>1 DEF Pipe
      <2>2. PICK ch \in Page, r \in Slot, s \in Slot : Piped(t, fn, ch, r, s)
            BY <1>0, <1>1, PipeWrites
      <2>3. [receiver |-> t, bit |-> r, fn |-> fn, queued |-> 0] \in Channel
            BY KernelConstants DEF Channel, Ptr
      <2> QED
          BY <1>0, <2>1, <2>2, <2>3 DEF TypeOK, cpu, os, Piped
<1>2. ASSUME NEW t \in Page, NEW r \in Slot, NEW fn \in BOOLEAN, Redirect(t, r, fn)
      PROVE  TypeOK'
      <2>1. UNCHANGED <<kind, cpu, os, fault>>
            BY <1>2 DEF Redirect
      <2> QED
          BY <1>0, <1>2, <2>1, RedirectWrites DEF TypeOK, cpu, os
<1>3. ASSUME NEW t \in Page, NEW s \in Slot, Send(t, s)
      PROVE  TypeOK'
      <2>1. UNCHANGED <<kind, cpu, os, fault>>
            BY <1>3 DEF Send
      <2>2. chan' \in [Page -> Channel] /\ task' \in [Page -> KernTask]
            BY <1>3, SendWrites DEF QueuedWritten, ReadyMaskWritten
      <2> QED
          BY <1>0, <2>1, <2>2 DEF TypeOK, cpu, os
<1>4. ASSUME NEW t \in Page, NEW mask \in SUBSET Slot, Recv(t, mask)
      PROVE  TypeOK'
      <2>1. UNCHANGED <<kind, cpu, os, fault>>
            BY <1>4 DEF Recv
      <2>2. chan' \in [Page -> Channel] /\ task' \in [Page -> KernTask]
            BY <1>4, RecvWrites DEF Received, QueuedWritten, ReadyMaskWritten
      <2> QED
          BY <1>0, <2>1, <2>2 DEF TypeOK, cpu, os
<1>5. ASSUME NEW t \in Page, NEW mask \in SUBSET Slot, Sleep(t, mask)
      PROVE  TypeOK'
      <2>1. /\ UNCHANGED <<kind, chan, running, fault>> /\ event' = TRUE /\ asleep' = t
            /\ thread' = [thread EXCEPT ![running] = "yielded"]
            BY <1>5 DEF Sleep
      <2>2. task' \in [Page -> KernTask] /\ IsTaskList(task', Ready \ {t}, ready')
            BY <1>5, SleepWrites
      <2>3. Ready \ {t} \in SUBSET Page
            BY TwoLists
      <2>4. ready' \in Ptr
            BY <2>2, <2>3, ListHead
      <2> QED
          BY <1>0, <2>1, <2>2, <2>4 DEF TypeOK, Ptr
<1>6. ASSUME NEW t \in Page, NEW r \in Slot, MoveReceiver(t, r)
      PROVE  TypeOK'
      <2>1. UNCHANGED <<kind, cpu, os, fault>>
            BY <1>6 DEF MoveReceiver
      <2>2. PICK to \in Tasks, ch \in Chans, n \in Slot : Moved(t, r, to, ch, n)
            BY <1>6, MoveWrites
      <2>3. chan' \in [Page -> Channel] /\ task' \in [Page -> KernTask]
            BY <2>2 DEF Moved
      <2> QED
          BY <1>0, <2>1, <2>3 DEF TypeOK, cpu, os
<1>7. ASSUME NEW t \in Page, Fork(t)
      PROVE  TypeOK'
      <2>1. PICK nt \in Page : Forked(t, nt)
            BY <1>7, ForkWrites
      <2> QED
          BY <1>0, <2>1 DEF TypeOK, Forked, cpu, os
<1>8. ASSUME NEW t \in Page, Start(t)
      PROVE  TypeOK'
      <2>1. PICK nt \in Tasks : Started(t, nt)
            BY <1>8, StartWrites
      <2>2. nt \in Page
            BY DEF Tasks
      <2> QED
          BY <1>0, <2>1, <2>2 DEF TypeOK, Ptr, Started
<1>9. ASSUME NEW t \in Page, FreeStep(t)
      PROVE  TypeOK'
      <2>1. /\ task' \in [Page -> KernTask] /\ IsTaskList(task', Ready \ {t}, ready')
            /\ kind' = [kind EXCEPT ![t] = "free"] /\ UNCHANGED <<chan, running, fault, asleep>>
            /\ \/ thread' = [thread EXCEPT ![t] = "none"] /\ event' = TRUE
               \/ thread' = [thread EXCEPT ![t] = "zombie"] /\ UNCHANGED event
            BY <1>9, FreeStepWrites
      <2>2. Ready \ {t} \in SUBSET Page
            BY TwoLists
      <2>3. ready' \in Ptr
            BY <2>1, <2>2, ListHead
      <2> QED
          BY <1>0, <2>1, <2>3 DEF TypeOK
<1>10. ASSUME Schedule
       PROVE  TypeOK'
       BY <1>0, <1>10, NextThread DEF TypeOK
<1>11. ASSUME FaultStep
       PROVE  TypeOK'
       BY <1>0, <1>11 DEF FaultStep, TypeOK, cpu, os
<1> QED
    BY <1>1, <1>2, <1>3, <1>4, <1>5, <1>6, <1>7, <1>8, <1>9, <1>10, <1>11, Steps

-----------------------------------------------------------------------------
(* The masks, the channel ends and who can send.                           *)

\* A step that leaves the mail of the remaining tasks alone.
LEMMA MailKept ==
  ASSUME IInv, UNCHANGED chan, Tasks' \subseteq Tasks, Chans' = Chans,
         \A p \in Page : SameMail(task'[p], task[p])
  PROVE  ReadyExact' /\ EndsExact' /\ DispatchExact'
<1>1. \A t \in Tasks' : t \in Tasks /\ SameMail(task'[t], task[t])
      BY DEF Tasks
<1>2. ReadyExact /\ EndsExact /\ DispatchExact
      BY DEF IInv, MailExact
<1>3. ReadyExact'
      BY <1>1, <1>2 DEF ReadyExact, SameMail
<1>4. DispatchExact'
      BY <1>1, <1>2 DEF DispatchExact, SameMail
<1>5. EndsExact'
      BY <1>1, <1>2 DEF EndsExact, SameMail
<1> QED
    BY <1>3, <1>4, <1>5

\* The running task sends; nobody else can.
LEMMA OnlyCallerSends ==
  ASSUME IInv, NEW t \in Page, Calls(t), NEW u \in Tasks, NEW s \in Slot,
         task[u].tx[s] # None, thread[u] \in {"runs", "suspended"}
  PROVE  u = t
BY CallerRuns DEF IInv, MailExact, SendEndsKept, Tasks

\* The part about messages, call by call: kern_recv that sleeps,
LEMMA SleepMail ==
  ASSUME IInv, NEW t \in Page, NEW mask \in SUBSET Slot, Sleep(t, mask)
  PROVE  MailExact'
<1>1. /\ Calls(t) /\ thread[t] = "runs" /\ t \in Tasks
      /\ thread' = [thread EXCEPT ![t] = "yielded"]
      /\ UNCHANGED <<kind, chan>> /\ task[t].readyMask \cap mask = {}
      BY CallerRuns DEF Sleep
<1>2. \A p \in Page : /\ SameMail(task'[p], task[p])
                      /\ task'[p].creating = task[p].creating
                      /\ task'[p].rxMask = IF p = t THEN mask ELSE task[p].rxMask
      BY SleepWrites
<1>3. Tasks' = Tasks /\ Chans' = Chans
      BY <1>1 DEF Tasks, Chans
<1>4. ReadyExact' /\ EndsExact' /\ DispatchExact'
      BY <1>1, <1>2, <1>3, MailKept
<1>5. /\ thread \in [Page -> {"none", "suspended", "runs", "yielded", "zombie"}]
      /\ MailExact
      BY DEF IInv, TypeOK
<1>6. CreatingExact'
      BY <1>1, <1>2, <1>3, <1>5 DEF CreatingExact, MailExact, Tasks
<1>7. SendEndsKept'
      BY <1>1, <1>2, <1>3, <1>5 DEF SendEndsKept, MailExact, Tasks, Chans, SameMail
<1>8. \A u \in Tasks', s \in Slot :
        task'[u].tx[s] # None => thread'[u] \notin {"runs", "suspended"}
      <2>1. \A u \in Tasks, s \in Slot :
              task[u].tx[s] # None /\ thread[u] \in {"runs", "suspended"} => u = t
            BY <1>1, OnlyCallerSends
      <2> QED
          BY <1>1, <1>2, <1>3, <1>5, <2>1 DEF SameMail, Tasks
<1>9. \A p \in Page : thread'[p] = "yielded" => task'[p].readyMask \cap task'[p].rxMask = {}
      BY <1>1, <1>2, <1>5 DEF SameMail, MailExact, SendersReachReceivers
<1>10. SendersReachReceivers'
       BY <1>8, <1>9 DEF SendersReachReceivers
<1> QED
    BY <1>4, <1>6, <1>7, <1>10 DEF MailExact

\* kern_start,
LEMMA StartMail ==
  ASSUME IInv, NEW t \in Page, Start(t)
  PROVE  MailExact'
<1>0. PICK nt \in Tasks : Started(t, nt)
      BY StartWrites
<1>1. /\ nt = task[t].creating /\ nt # None /\ nt # t /\ thread[nt] = "none"
      /\ thread' = [thread EXCEPT ![nt] = "suspended"]
      /\ UNCHANGED <<kind, chan>>
      /\ \A p \in Page : /\ SameMail(task'[p], task[p])
                         /\ task'[p].creating = IF p = t THEN None ELSE task[p].creating
                         /\ task'[p].rxMask = task[p].rxMask
      BY <1>0 DEF Started
<1>2. Calls(t) /\ thread[t] = "runs" /\ t \in Tasks
      BY CallerRuns DEF Start
<1>3. Tasks' = Tasks /\ Chans' = Chans /\ Tasks \in SUBSET Page
      BY <1>1 DEF Tasks, Chans
<1>4. ReadyExact' /\ EndsExact' /\ DispatchExact'
      BY <1>1, <1>3, MailKept
<1>5. /\ thread \in [Page -> {"none", "suspended", "runs", "yielded", "zombie"}]
      /\ MailExact
      BY DEF IInv, TypeOK
<1>6. \A p \in Page : thread'[p] = IF p = nt THEN "suspended" ELSE thread[p]
      BY <1>1, <1>5
<1>7. CreatingExact'
      BY <1>1, <1>2, <1>3, <1>5, <1>6 DEF CreatingExact, MailExact
<1>8. \A u \in Tasks, s \in Slot : task[u].tx[s] # None => u # nt
      BY <1>1, <1>5 DEF SendEndsKept, MailExact
<1>9. SendEndsKept'
      BY <1>1, <1>3, <1>5, <1>6, <1>8 DEF SendEndsKept, MailExact, Tasks, Chans, SameMail
<1>10. SendersReachReceivers'
       <2>1. SendersReachReceivers
             BY <1>5 DEF MailExact
       <2>2. \A p \in Page : /\ thread'[p] = "yielded" <=> thread[p] = "yielded"
                             /\ p # nt => thread'[p] = thread[p]
             BY <1>1, <1>6
       <2>3. \A u \in Tasks, s \in Slot :
               task'[u].tx[s] # None /\ thread'[u] \in {"runs", "suspended"} =>
                 LET ch == chan'[task'[u].tx[s]]
                 IN  /\ ch.receiver \in Tasks
                     /\ task'[ch.receiver].rx[ch.bit] = task'[u].tx[s]
                     /\ thread'[ch.receiver] # "yielded"
             <3> TAKE u \in Tasks, s \in Slot
             <3>1. HAVE task'[u].tx[s] # None /\ thread'[u] \in {"runs", "suspended"}
             <3>2. task'[u].tx[s] = task[u].tx[s] /\ u # nt /\ thread[u] \in {"runs", "suspended"}
                   BY <1>1, <1>3, <1>8, <2>2, <3>1 DEF SameMail
             <3> DEFINE ch == chan[task[u].tx[s]]
             <3>3. /\ ch.receiver \in Tasks /\ task[ch.receiver].rx[ch.bit] = task[u].tx[s]
                   /\ thread[ch.receiver] # "yielded"
                   BY <2>1, <3>1, <3>2 DEF SendersReachReceivers
             <3> HIDE DEF ch
             <3>4. task'[ch.receiver].rx = task[ch.receiver].rx /\ thread'[ch.receiver] # "yielded"
                   BY <1>1, <1>3, <2>2, <3>3 DEF SameMail
             <3> QED
                 BY <1>1, <3>2, <3>3, <3>4 DEF ch
       <2>4. \A p \in Page : thread'[p] = "yielded" => task'[p].readyMask \cap task'[p].rxMask = {}
             BY <1>1, <2>1, <2>2 DEF SendersReachReceivers, SameMail
       <2> QED
           BY <1>3, <2>3, <2>4 DEF SendersReachReceivers
<1> QED
    BY <1>4, <1>7, <1>9, <1>10 DEF MailExact

\* the end of a task,
LEMMA FreeMail ==
  ASSUME IInv, NEW t \in Page, FreeStep(t)
  PROVE  MailExact'
<1>1. PICK label \in {"none", "zombie"} : thread' = [thread EXCEPT ![t] = label]
      BY FreeStepWrites
<1>2. /\ kind' = [kind EXCEPT ![t] = "free"] /\ UNCHANGED chan
      /\ \A p \in Page : /\ SameMail(task'[p], task[p])
                         /\ p # t => task'[p].creating = task[p].creating
                         /\ task'[p].rxMask = task[p].rxMask
      BY FreeStepWrites
<1>3. Calls(t) /\ thread[t] = "runs" /\ t \in Tasks
      BY CallerRuns DEF FreeStep
<1>4. /\ thread \in [Page -> {"none", "suspended", "runs", "yielded", "zombie"}]
      /\ kind \in [Page -> {"free", "task", "chan"}]
      /\ MailExact
      BY DEF IInv, TypeOK
<1>5. Tasks' = Tasks \ {t} /\ Chans' = Chans /\ Tasks \in SUBSET Page
      BY <1>2, <1>3, <1>4 DEF Tasks, Chans
<1>6. ReadyExact' /\ EndsExact' /\ DispatchExact'
      BY <1>2, <1>5, MailKept
<1>7. \A p \in Page : thread'[p] = IF p = t THEN label ELSE thread[p]
      BY <1>1, <1>4
<1>8. CreatingExact'
      BY <1>2, <1>3, <1>4, <1>5, <1>7 DEF CreatingExact, MailExact
<1>9. t \notin Chans
      BY <1>3 DEF Tasks, Chans
<1>10. SendEndsKept'
       BY <1>2, <1>4, <1>5, <1>7, <1>9 DEF SendEndsKept, MailExact, Chans, SameMail
<1>11. SendersReachReceivers'
       <2>1. \A u \in Tasks', s \in Slot :
               task'[u].tx[s] # None => thread'[u] \notin {"runs", "suspended"}
             <3>1. \A u \in Tasks, s \in Slot :
                     task[u].tx[s] # None /\ thread[u] \in {"runs", "suspended"} => u = t
                   BY <1>3, OnlyCallerSends
             <3> QED
                 BY <1>2, <1>5, <1>7, <3>1 DEF SameMail
       <2>2. \A p \in Page : thread'[p] = "yielded" => task'[p].readyMask \cap task'[p].rxMask = {}
             BY <1>2, <1>4, <1>7 DEF SendersReachReceivers, MailExact, SameMail
       <2> QED
           BY <2>1, <2>2 DEF SendersReachReceivers
<1> QED
    BY <1>6, <1>8, <1>10, <1>11 DEF MailExact

\* the choice of the next one,
LEMMA ScheduleMail ==
  ASSUME IInv, Schedule
  PROVE  MailExact'
<1>1. UNCHANGED <<kind, task, chan>> /\ \A p \in Page : thread[p] \notin {"runs", "zombie"}
      BY NextThread
<1>2. \A p \in Page : thread'[p] = thread[p] \/ (thread[p] = "suspended" /\ thread'[p] = "runs")
      BY NextThread DEF IInv, TypeOK
<1>3. Tasks' = Tasks /\ Chans' = Chans
      BY <1>1 DEF Tasks, Chans
<1>4. \A p \in Page : SameMail(task'[p], task[p])
      BY <1>1 DEF SameMail
<1>5. ReadyExact' /\ EndsExact' /\ DispatchExact'
      BY <1>1, <1>3, <1>4, MailKept
<1>6. MailExact
      BY DEF IInv
<1>7. CreatingExact'
      BY <1>1, <1>2, <1>3, <1>6 DEF CreatingExact, MailExact, Tasks
<1>8. \A u \in Tasks, s \in Slot : task[u].tx[s] # None =>
        thread[u] \notin {"none", "suspended", "runs"}
      BY <1>1, <1>6 DEF SendEndsKept, MailExact, Tasks
<1>9. SendEndsKept'
      BY <1>1, <1>2, <1>3, <1>6, <1>8 DEF SendEndsKept, MailExact, Tasks, Chans
<1>10. SendersReachReceivers'
       <2>1. \A u \in Tasks', s \in Slot :
               task'[u].tx[s] # None => thread'[u] \notin {"runs", "suspended"}
             BY <1>1, <1>2, <1>3, <1>8 DEF Tasks
       <2>2. \A p \in Page : thread[p] = "yielded" => task[p].readyMask \cap task[p].rxMask = {}
             BY <1>6 DEF SendersReachReceivers, MailExact
       <2>3. \A p \in Page : thread'[p] = "yielded" => task'[p].readyMask \cap task'[p].rxMask = {}
             BY <1>1, <1>2, <2>2
       <2> QED
           BY <2>1, <2>3 DEF SendersReachReceivers
<1> QED
    BY <1>5, <1>7, <1>9, <1>10 DEF MailExact

\* A channel is in one receive slot of one task.
LEMMA OneHolder ==
  ASSUME IInv, NEW t \in Tasks, NEW u \in Tasks, NEW r \in Slot, NEW q \in Slot,
         task[t].rx[r] # None, task[u].rx[q] = task[t].rx[r]
  PROVE  t = u /\ r = q
BY HeldChannel

\* kern_pipe,
LEMMA PipeMail ==
  ASSUME IInv, NEW t \in Page, NEW fn \in BOOLEAN, Pipe(t, fn)
  PROVE  MailExact'
<1>1. TypeOK /\ MailExact /\ Calls(t) /\ t \in Tasks /\ None \notin Page
      BY CallerRuns, KernelConstants DEF IInv, Pipe
<1>2. PICK ch \in Page, r \in Slot, s \in Slot : Piped(t, fn, ch, r, s)
      BY <1>1, PipeWrites
<1>3. /\ kind \in [Page -> {"free", "task", "chan"}] /\ chan \in [Page -> Channel]
      /\ task \in [Page -> KernTask] /\ thread[t] = "runs"
      BY <1>1 DEF TypeOK, Calls
<1>4. /\ ch \notin Tasks /\ ch \notin Chans /\ thread[ch] = "none"
      /\ task[t].rx[r] = None /\ task[t].tx[s] = None
      BY <1>1, <1>2, FreePage DEF Piped
<1>5. Tasks' = Tasks /\ Chans' = Chans \cup {ch} /\ Tasks \in SUBSET Page
      BY <1>2, <1>3, <1>4 DEF Piped, Tasks, Chans
<1>6. thread' = thread
      BY DEF Pipe, os
<1>7. \A u \in Tasks, q \in Slot :
        /\ task'[u].rx[q] = IF u = t /\ q = r THEN ch ELSE task[u].rx[q]
        /\ task'[u].tx[q] = IF u = t /\ q = s THEN ch ELSE task[u].tx[q]
      BY <1>2, <1>3, <1>5 DEF Piped, OthersKept, KernTask
<1>8. \A u \in Page :
        /\ task'[u].readyMask = task[u].readyMask /\ task'[u].rxMask = task[u].rxMask
        /\ task'[u].creating = task[u].creating
        /\ task'[u].dispatchMask = IF u = t THEN SetDispatch(task[t].dispatchMask, r, fn)
                                            ELSE task[u].dispatchMask
      BY <1>2 DEF Piped, OthersKept
<1>9. /\ \A c \in Chans : chan'[c] = chan[c]
      /\ chan'[ch].receiver = t /\ chan'[ch].bit = r /\ chan'[ch].fn = fn /\ chan'[ch].queued = 0
      BY <1>2, <1>3, <1>4 DEF Piped, Chans
<1>10. \A u \in Tasks, q \in Slot :
         /\ task[u].rx[q] # None => task[u].rx[q] \in Chans
         /\ task[u].tx[q] # None => task[u].tx[q] \in Chans
       BY <1>1 DEF MailExact, EndsExact, SendEndsKept
<1>11. \A u \in Tasks : task[u].readyMask \in SUBSET Slot /\ task[u].dispatchMask \in SUBSET Slot
       BY <1>3, <1>5 DEF KernTask
<1>12. ReadyExact'
       <2> SUFFICES ASSUME NEW u \in Tasks
                    PROVE  task'[u].readyMask = {q \in Slot : /\ task'[u].rx[q] # None
                                                              /\ chan'[task'[u].rx[q]].queued > 0}
           BY <1>5 DEF ReadyExact
       <2>1. task[u].readyMask = {q \in Slot : /\ task[u].rx[q] # None
                                               /\ chan[task[u].rx[q]].queued > 0}
             BY <1>1 DEF MailExact, ReadyExact
       <2>2. \A q \in Slot :
               task'[u].rx[q] # None /\ chan'[task'[u].rx[q]].queued > 0 <=>
                 task[u].rx[q] # None /\ chan[task[u].rx[q]].queued > 0
             BY <1>1, <1>4, <1>7, <1>9, <1>10
       <2> QED
           BY <1>5, <1>8, <2>1, <2>2
<1>13. DispatchExact'
       <2> SUFFICES ASSUME NEW u \in Tasks
                    PROVE  task'[u].dispatchMask = {q \in Slot : /\ task'[u].rx[q] # None
                                                                 /\ chan'[task'[u].rx[q]].fn}
           BY <1>5 DEF DispatchExact
       <2>1. task[u].dispatchMask = {q \in Slot : task[u].rx[q] # None /\ chan[task[u].rx[q]].fn}
             BY <1>1 DEF MailExact, DispatchExact
       <2>2. \A q \in Slot : ~(u = t /\ q = r) =>
               (task'[u].rx[q] # None /\ chan'[task'[u].rx[q]].fn <=>
                 task[u].rx[q] # None /\ chan[task[u].rx[q]].fn)
             BY <1>1, <1>4, <1>7, <1>9, <1>10
       <2>3. u = t => (task'[u].rx[r] # None /\ chan'[task'[u].rx[r]].fn <=> fn)
             BY <1>1, <1>7, <1>9
       <2> QED
           BY <1>5, <1>8, <2>1, <2>2, <2>3 DEF SetDispatch
<1>14. EndsExact'
       <2>1. \A u \in Tasks, q \in Slot : task'[u].rx[q] # None =>
               /\ task'[u].rx[q] \in Chans \cup {ch}
               /\ chan'[task'[u].rx[q]].receiver = u /\ chan'[task'[u].rx[q]].bit = q
             BY <1>1, <1>7, <1>9, <1>10 DEF MailExact, EndsExact
       <2>2. \A u, v \in Tasks, p, q \in Slot :
               task'[u].tx[p] # None /\ task'[u].tx[p] = task'[v].tx[q] => u = v /\ p = q
             BY <1>1, <1>4, <1>7, <1>10 DEF MailExact, EndsExact
       <2> QED
           BY <1>5, <2>1, <2>2 DEF EndsExact
<1>15. CreatingExact'
       BY <1>1, <1>5, <1>6, <1>8 DEF CreatingExact, MailExact
<1>16. SendEndsKept'
       BY <1>1, <1>3, <1>4, <1>5, <1>6, <1>7, <1>9, <1>10 DEF SendEndsKept, MailExact
<1>17. SendersReachReceivers'
       <2>1. ASSUME NEW u \in Tasks, NEW q \in Slot, task'[u].tx[q] # None,
                    thread[u] \in {"runs", "suspended"}
             PROVE  LET c == chan'[task'[u].tx[q]]
                    IN  /\ c.receiver \in Tasks
                        /\ task'[c.receiver].rx[c.bit] = task'[u].tx[q]
                        /\ thread[c.receiver] # "yielded"
             <3>1. CASE u = t /\ q = s
                   <4>1. task'[u].tx[q] = ch /\ task'[t].rx[r] = ch
                         BY <1>1, <1>7, <3>1
                   <4>2. chan'[ch].receiver = t /\ chan'[ch].bit = r
                         BY <1>9
                   <4>3. t \in Tasks /\ thread[t] # "yielded"
                         BY <1>1, <1>3
                   <4> QED
                       BY <4>1, <4>2, <4>3
             <3>2. CASE ~(u = t /\ q = s)
                   <4>1. task'[u].tx[q] = task[u].tx[q] /\ task[u].tx[q] \in Chans
                         BY <1>7, <1>10, <2>1, <3>2
                   <4> DEFINE c == chan[task[u].tx[q]]
                   <4>2. /\ c.receiver \in Tasks /\ task[c.receiver].rx[c.bit] = task[u].tx[q]
                         /\ thread[c.receiver] # "yielded"
                         BY <1>1, <2>1, <4>1 DEF MailExact, SendersReachReceivers
                   <4>5. c.bit \in Slot
                         BY <1>1, <4>1 DEF MailExact, SendEndsKept
                   <4>3. chan'[task'[u].tx[q]] = c
                         BY <1>9, <4>1
                   <4> HIDE DEF c
                   <4>4. task'[c.receiver].rx[c.bit] = task[u].tx[q]
                         BY <1>4, <1>7, <2>1, <4>1, <4>2, <4>5
                   <4> QED
                       BY <4>1, <4>2, <4>3, <4>4
             <3> QED
                 BY <3>1, <3>2
       <2>2. \A p \in Page : thread[p] = "yielded" => task'[p].readyMask \cap task'[p].rxMask = {}
             BY <1>1, <1>8 DEF MailExact, SendersReachReceivers
       <2> QED
           BY <1>5, <1>6, <2>1, <2>2 DEF SendersReachReceivers
<1> QED
    BY <1>12, <1>13, <1>14, <1>15, <1>16, <1>17 DEF MailExact

\* A step that moves no end of a channel, and starts and ends nobody.
LEMMA EndsKept ==
  ASSUME IInv, UNCHANGED <<kind, cpu, os>>,
         \A p \in Page : /\ task'[p].rx = task[p].rx /\ task'[p].tx = task[p].tx
                         /\ task'[p].creating = task[p].creating,
         \A c \in Page : chan'[c].receiver = chan[c].receiver /\ chan'[c].bit = chan[c].bit
  PROVE  /\ EndsExact' /\ CreatingExact' /\ SendEndsKept' /\ Tasks' = Tasks
         /\ (\A p \in Page : thread[p] = "yielded" => task'[p].readyMask \cap task'[p].rxMask = {})
              => SendersReachReceivers'
<1>1. Tasks' = Tasks /\ Chans' = Chans /\ thread' = thread
      BY DEF Tasks, Chans, os
<1>2. Tasks \in SUBSET Page /\ Chans \in SUBSET Page
      BY DEF Tasks, Chans
<1>3. MailExact
      BY DEF IInv
<1>4. EndsExact'
      BY <1>1, <1>2, <1>3 DEF MailExact, EndsExact
<1>5. CreatingExact'
      BY <1>1, <1>2, <1>3 DEF MailExact, CreatingExact
<1>6. SendEndsKept'
      BY <1>1, <1>2, <1>3 DEF MailExact, SendEndsKept
<1>7. ASSUME NEW u \in Tasks, NEW q \in Slot, task'[u].tx[q] # None,
             thread[u] \in {"runs", "suspended"}
      PROVE  LET c == chan'[task'[u].tx[q]]
             IN  /\ c.receiver \in Tasks
                 /\ task'[c.receiver].rx[c.bit] = task'[u].tx[q]
                 /\ thread[c.receiver] # "yielded"
      <2>1. task'[u].tx[q] = task[u].tx[q] /\ task[u].tx[q] \in Page
            BY <1>2, <1>3, <1>7 DEF MailExact, SendEndsKept
      <2> DEFINE c == chan[task[u].tx[q]]
      <2>2. /\ c.receiver \in Tasks /\ task[c.receiver].rx[c.bit] = task[u].tx[q]
            /\ thread[c.receiver] # "yielded"
            BY <1>3, <1>7, <2>1 DEF MailExact, SendersReachReceivers
      <2>3. chan'[task'[u].tx[q]].receiver = c.receiver /\ chan'[task'[u].tx[q]].bit = c.bit
            BY <2>1
      <2> HIDE DEF c
      <2>4. task'[c.receiver].rx = task[c.receiver].rx
            BY <1>2, <2>2
      <2> QED
          BY <2>1, <2>2, <2>3, <2>4
<1>8. (\A p \in Page : thread[p] = "yielded" => task'[p].readyMask \cap task'[p].rxMask = {})
        => SendersReachReceivers'
      BY <1>1, <1>7 DEF SendersReachReceivers
<1> QED
    BY <1>1, <1>4, <1>5, <1>6, <1>8

\* a redirect,
LEMMA RedirectMail ==
  ASSUME IInv, NEW t \in Page, NEW r \in Slot, NEW fn \in BOOLEAN, Redirect(t, r, fn)
  PROVE  MailExact'
<1> DEFINE ch == task[t].rx[r]
<1>1. MailExact /\ t \in Tasks /\ Calls(t) /\ UNCHANGED <<kind, cpu, os>> /\ ch # None
      BY CallerRuns DEF IInv, Redirect
<1>2. /\ ch \in Page
      /\ OtherChansKept(ch)
      /\ chan'[ch].fn = fn /\ chan'[ch].queued = chan[ch].queued
      /\ chan'[ch].receiver = chan[ch].receiver /\ chan'[ch].bit = chan[ch].bit
      BY RedirectWrites
<1>3. /\ OthersKept(t)
      /\ task'[t].dispatchMask = SetDispatch(task[t].dispatchMask, r, fn)
      /\ task'[t].rx = task[t].rx /\ task'[t].tx = task[t].tx
      /\ task'[t].readyMask = task[t].readyMask /\ task'[t].rxMask = task[t].rxMask
      /\ task'[t].creating = task[t].creating
      BY RedirectWrites
<1>4. \A p \in Page : /\ task'[p].rx = task[p].rx /\ task'[p].tx = task[p].tx
                      /\ task'[p].readyMask = task[p].readyMask
                      /\ task'[p].rxMask = task[p].rxMask
                      /\ task'[p].creating = task[p].creating
                      /\ task'[p].dispatchMask = IF p = t THEN SetDispatch(task[t].dispatchMask, r, fn)
                                                          ELSE task[p].dispatchMask
      BY <1>3 DEF OthersKept
<1>5. \A c \in Page : /\ chan'[c].receiver = chan[c].receiver /\ chan'[c].bit = chan[c].bit
                      /\ chan'[c].queued = chan[c].queued
                      /\ chan'[c].fn = IF c = ch THEN fn ELSE chan[c].fn
      BY <1>2 DEF OtherChansKept
<1>6. \A u \in Tasks, q \in Slot :
        /\ u \in Page
        /\ task[u].rx[q] # None => task[u].rx[q] \in Page
        /\ task[u].rx[q] = ch <=> u = t /\ q = r
      BY <1>1, HeldChannel, OneHolder DEF Tasks
<1> HIDE DEF ch
<1>7. \A p \in Page : thread[p] = "yielded" => task'[p].readyMask \cap task'[p].rxMask = {}
      BY <1>1, <1>4 DEF MailExact, SendersReachReceivers
<1>8. EndsExact' /\ CreatingExact' /\ SendEndsKept' /\ Tasks' = Tasks /\ SendersReachReceivers'
      BY <1>1, <1>4, <1>5, <1>7, EndsKept
<1>9. ReadyExact'
      <2> SUFFICES ASSUME NEW u \in Tasks
                   PROVE  task'[u].readyMask = {q \in Slot : /\ task'[u].rx[q] # None
                                                             /\ chan'[task'[u].rx[q]].queued > 0}
          BY <1>8 DEF ReadyExact
      <2> QED
          BY <1>1, <1>4, <1>5, <1>6 DEF MailExact, ReadyExact
<1>10. DispatchExact'
       <2> SUFFICES ASSUME NEW u \in Tasks
                    PROVE  task'[u].dispatchMask = {q \in Slot : /\ task'[u].rx[q] # None
                                                                 /\ chan'[task'[u].rx[q]].fn}
           BY <1>8 DEF DispatchExact
       <2>1. task[u].dispatchMask = {q \in Slot : task[u].rx[q] # None /\ chan[task[u].rx[q]].fn}
             BY <1>1 DEF MailExact, DispatchExact
       <2>2. \A q \in Slot : task'[u].rx[q] # None /\ chan'[task'[u].rx[q]].fn <=>
               IF u = t /\ q = r THEN fn ELSE task[u].rx[q] # None /\ chan[task[u].rx[q]].fn
             BY <1>1, <1>4, <1>5, <1>6
       <2> QED
           BY <1>4, <1>6, <2>1, <2>2 DEF SetDispatch
<1> QED
    BY <1>8, <1>9, <1>10 DEF MailExact

\* kern_send and kern_recv: channel ch in slot r of task t gets n messages.
LEMMA CountMail ==
  ASSUME IInv, UNCHANGED <<kind, cpu, os>>,
         NEW t \in Tasks, NEW r \in Slot, NEW ch \in Chans, task[t].rx[r] = ch,
         NEW n \in Nat, QueuedWritten(ch, n),
         NEW mask, ReadyMaskWritten(t, mask),
         mask = IF n > 0 THEN task[t].readyMask \cup {r} ELSE task[t].readyMask \ {r},
         thread[t] # "yielded"
  PROVE  MailExact'
<1>1. MailExact /\ ch # None /\ ch \in Page /\ t \in Page
      BY KernelConstants DEF IInv, Chans, Tasks
<1>2. \A p \in Page : /\ task'[p].rx = task[p].rx /\ task'[p].tx = task[p].tx
                      /\ task'[p].dispatchMask = task[p].dispatchMask
                      /\ task'[p].rxMask = task[p].rxMask
                      /\ task'[p].creating = task[p].creating
                      /\ task'[p].readyMask = IF p = t THEN mask ELSE task[p].readyMask
      BY DEF ReadyMaskWritten, OthersKept
<1>3. \A c \in Page : /\ chan'[c].receiver = chan[c].receiver /\ chan'[c].bit = chan[c].bit
                      /\ chan'[c].fn = chan[c].fn
                      /\ chan'[c].queued = IF c = ch THEN n ELSE chan[c].queued
      BY DEF QueuedWritten, OtherChansKept
<1>4. \A u \in Tasks, q \in Slot :
        /\ u \in Page
        /\ task[u].rx[q] # None => task[u].rx[q] \in Page
        /\ task[u].rx[q] = ch <=> u = t /\ q = r
      BY <1>1, HeldChannel, OneHolder DEF Tasks
<1>5. \A p \in Page : thread[p] = "yielded" => task'[p].readyMask \cap task'[p].rxMask = {}
      BY <1>1, <1>2 DEF MailExact, SendersReachReceivers
<1>6. EndsExact' /\ CreatingExact' /\ SendEndsKept' /\ Tasks' = Tasks /\ SendersReachReceivers'
      BY <1>2, <1>3, <1>5, EndsKept
<1>7. ReadyExact'
      <2> SUFFICES ASSUME NEW u \in Tasks
                   PROVE  task'[u].readyMask = {q \in Slot : /\ task'[u].rx[q] # None
                                                             /\ chan'[task'[u].rx[q]].queued > 0}
          BY <1>6 DEF ReadyExact
      <2>1. task[u].readyMask = {q \in Slot : task[u].rx[q] # None /\ chan[task[u].rx[q]].queued > 0}
            BY <1>1 DEF MailExact, ReadyExact
      <2>2. \A q \in Slot : task'[u].rx[q] # None /\ chan'[task'[u].rx[q]].queued > 0 <=>
              IF u = t /\ q = r THEN n > 0 ELSE task[u].rx[q] # None /\ chan[task[u].rx[q]].queued > 0
            BY <1>1, <1>2, <1>3, <1>4
      <2> QED
          BY <1>2, <1>4, <2>1, <2>2
<1>8. DispatchExact'
      <2> SUFFICES ASSUME NEW u \in Tasks
                   PROVE  task'[u].dispatchMask = {q \in Slot : /\ task'[u].rx[q] # None
                                                                /\ chan'[task'[u].rx[q]].fn}
          BY <1>6 DEF DispatchExact
      <2> QED
          BY <1>1, <1>2, <1>3, <1>4 DEF MailExact, DispatchExact
<1> QED
    BY <1>6, <1>7, <1>8 DEF MailExact

\* kern_send,
LEMMA SendMail ==
  ASSUME IInv, NEW t \in Page, NEW s \in Slot, Send(t, s)
  PROVE  MailExact'
<1>1. PICK ch \in Chans, to \in Tasks, r \in Slot :
        /\ task[to].rx[r] = ch /\ thread[to] # "yielded"
        /\ chan[ch].queued \in Nat
        /\ QueuedWritten(ch, chan[ch].queued + 1)
        /\ ReadyMaskWritten(to, task[to].readyMask \cup {r})
      BY SendWrites
<1>2. chan[ch].queued + 1 \in Nat /\ chan[ch].queued + 1 > 0
      BY <1>1
<1>3. UNCHANGED <<kind, cpu, os>>
      BY DEF Send
<1> QED
    BY <1>1, <1>2, <1>3, CountMail

\* kern_recv of a message,
LEMMA RecvMail ==
  ASSUME IInv, NEW t \in Page, NEW mask \in SUBSET Slot, Recv(t, mask)
  PROVE  MailExact'
<1>0. PICK r \in Slot, ch \in Chans : Received(t, r, ch)
      BY RecvWrites
<1>1. /\ ch = task[t].rx[r] /\ ch # None
      /\ chan[ch].queued \in Nat /\ chan[ch].queued > 0
      /\ QueuedWritten(ch, chan[ch].queued - 1)
      /\ ReadyMaskWritten(t, IF chan[ch].queued = 1 THEN task[t].readyMask \ {r}
                                                    ELSE task[t].readyMask)
      BY <1>0 DEF Received
<1>2. t \in Tasks /\ thread[t] # "yielded" /\ UNCHANGED <<kind, cpu, os>>
      BY CallerRuns DEF Recv
<1>3. r \in task[t].readyMask
      BY <1>1, <1>2 DEF IInv, MailExact, ReadyExact
<1> DEFINE n == chan[ch].queued - 1
           left == IF n > 0 THEN task[t].readyMask \cup {r} ELSE task[t].readyMask \ {r}
<1>4. n \in Nat /\ (chan[ch].queued = 1 <=> ~(n > 0))
      BY <1>1
<1>5. ReadyMaskWritten(t, left)
      <2>1. left = IF chan[ch].queued = 1 THEN task[t].readyMask \ {r} ELSE task[t].readyMask
            BY <1>3, <1>4
      <2> QED
          BY <1>1, <2>1
<1> HIDE DEF n
<1>6. QueuedWritten(ch, n) /\ left = IF n > 0 THEN task[t].readyMask \cup {r} ELSE task[t].readyMask \ {r}
      BY <1>1 DEF n
<1> HIDE DEF left
<1> QED
    BY <1>1, <1>2, <1>4, <1>5, <1>6, CountMail

\* kern_move,
LEMMA MoveMail ==
  ASSUME IInv, NEW t \in Page, NEW r \in Slot, MoveReceiver(t, r)
  PROVE  MailExact'
<1>0. PICK to \in Tasks, ch \in Chans, n \in Slot : Moved(t, r, to, ch, n)
      BY MoveWrites
<1>1. /\ MailExact /\ Calls(t) /\ t \in Tasks /\ thread[t] = "runs" /\ None \notin Page
      /\ task \in [Page -> KernTask] /\ Tasks \in SUBSET Page /\ Chans \in SUBSET Page
      BY CallerRuns, KernelConstants DEF IInv, TypeOK, MoveReceiver, Tasks, Chans
<1>2. UNCHANGED <<kind, cpu, os>>
      BY DEF MoveReceiver
<1>3. Tasks' = Tasks /\ Chans' = Chans /\ thread' = thread
      BY <1>2 DEF Tasks, Chans, os
<1>4. /\ to # t /\ thread[to] = "none"
      /\ ch = task[t].rx[r] /\ ch # None /\ task[to].rx[n] = None
      BY <1>0 DEF Moved
<1>5. \A u \in Tasks, q \in Slot :
        task'[u].rx[q] = IF u = t /\ q = r THEN None
                         ELSE IF u = to /\ q = n THEN ch ELSE task[u].rx[q]
      <2>1. task[t].rx \in [Slot -> Ptr] /\ task[to].rx \in [Slot -> Ptr]
            BY <1>1 DEF KernTask
      <2>2. /\ task'[t].rx = [task[t].rx EXCEPT ![r] = None]
            /\ task'[to].rx = [task[to].rx EXCEPT ![n] = ch]
            /\ \A p \in Page : p \notin {t, to} => task'[p].rx = task[p].rx
            BY <1>0 DEF Moved
      <2> QED
          BY <1>1, <1>4, <2>1, <2>2
<1>6. \A u \in Tasks :
        /\ task'[u].tx = task[u].tx /\ task'[u].creating = task[u].creating
        /\ task'[u].rxMask = task[u].rxMask
        /\ u \notin {t, to} => task'[u].readyMask = task[u].readyMask
        /\ u # t => task'[u].dispatchMask = task[u].dispatchMask
      BY <1>0, <1>1 DEF Moved
<1>7. /\ task'[t].readyMask = task[t].readyMask \ {r}
      /\ task'[t].dispatchMask = task[t].dispatchMask \ {r}
      /\ task'[to].readyMask = IF chan[ch].queued > 0 THEN task[to].readyMask \cup {n}
                                                      ELSE task[to].readyMask
      BY <1>0 DEF Moved, ReadyAfterMove
<1>8. /\ \A c \in Chans : c # ch => chan'[c] = chan[c]
      /\ chan'[ch].receiver = to /\ chan'[ch].bit = n /\ chan'[ch].fn = FALSE
      /\ chan'[ch].queued = chan[ch].queued
      BY <1>0, <1>1 DEF Moved, OtherChansKept
<1>9. \A u \in Tasks, q \in Slot :
        /\ task[u].rx[q] # None => task[u].rx[q] \in Chans
        /\ task[u].rx[q] = ch <=> u = t /\ q = r
      BY <1>1, <1>4, HeldChannel, OneHolder
<1>10. ReadyExact'
       <2> SUFFICES ASSUME NEW u \in Tasks
                    PROVE  task'[u].readyMask = {q \in Slot : /\ task'[u].rx[q] # None
                                                              /\ chan'[task'[u].rx[q]].queued > 0}
           BY <1>3 DEF ReadyExact
       <2>1. task[u].readyMask = {q \in Slot : task[u].rx[q] # None /\ chan[task[u].rx[q]].queued > 0}
             BY <1>1 DEF MailExact, ReadyExact
       <2>2. \A q \in Slot : task'[u].rx[q] # None /\ chan'[task'[u].rx[q]].queued > 0 <=>
               IF u = t /\ q = r THEN FALSE
               ELSE IF u = to /\ q = n THEN chan[ch].queued > 0
               ELSE task[u].rx[q] # None /\ chan[task[u].rx[q]].queued > 0
             BY <1>4, <1>5, <1>8, <1>9
       <2>3. CASE u = t
             BY <1>4, <1>7, <2>1, <2>2, <2>3
       <2>4. CASE u = to
             BY <1>4, <1>7, <2>1, <2>2, <2>4
       <2>5. CASE u \notin {t, to}
             BY <1>6, <2>1, <2>2, <2>5
       <2> QED
           BY <2>3, <2>4, <2>5
<1>11. DispatchExact'
       <2> SUFFICES ASSUME NEW u \in Tasks
                    PROVE  task'[u].dispatchMask = {q \in Slot : /\ task'[u].rx[q] # None
                                                                 /\ chan'[task'[u].rx[q]].fn}
           BY <1>3 DEF DispatchExact
       <2>1. task[u].dispatchMask = {q \in Slot : task[u].rx[q] # None /\ chan[task[u].rx[q]].fn}
             BY <1>1 DEF MailExact, DispatchExact
       <2>2. \A q \in Slot : task'[u].rx[q] # None /\ chan'[task'[u].rx[q]].fn <=>
               IF (u = t /\ q = r) \/ (u = to /\ q = n) THEN FALSE
               ELSE task[u].rx[q] # None /\ chan[task[u].rx[q]].fn
             BY <1>4, <1>5, <1>8, <1>9
       <2>3. CASE u = t
             BY <1>4, <1>7, <2>1, <2>2, <2>3
       <2>4. CASE u # t
             BY <1>4, <1>6, <2>1, <2>2, <2>4
       <2> QED
           BY <2>3, <2>4
<1>12. EndsExact'
       <2>1. \A u \in Tasks, q \in Slot : task'[u].rx[q] # None =>
               /\ task'[u].rx[q] \in Chans
               /\ chan'[task'[u].rx[q]].receiver = u /\ chan'[task'[u].rx[q]].bit = q
             BY <1>1, <1>4, <1>5, <1>8, <1>9 DEF MailExact, EndsExact
       <2>2. \A u, v \in Tasks, p, q \in Slot :
               task'[u].tx[p] # None /\ task'[u].tx[p] = task'[v].tx[q] => u = v /\ p = q
             BY <1>1, <1>6 DEF MailExact, EndsExact
       <2> QED
           BY <1>3, <2>1, <2>2 DEF EndsExact
<1>13. CreatingExact'
       BY <1>1, <1>3, <1>6 DEF MailExact, CreatingExact
<1>14. SendEndsKept'
       BY <1>1, <1>3, <1>6, <1>8 DEF MailExact, SendEndsKept
<1>15. SendersReachReceivers'
       <2>1. ASSUME NEW u \in Tasks, NEW q \in Slot, task'[u].tx[q] # None,
                    thread[u] \in {"runs", "suspended"}
             PROVE  LET c == chan'[task'[u].tx[q]]
                    IN  /\ c.receiver \in Tasks
                        /\ task'[c.receiver].rx[c.bit] = task'[u].tx[q]
                        /\ thread[c.receiver] # "yielded"
             <3>1. CASE task[u].tx[q] = ch
                   <4>1. task'[u].tx[q] = ch
                         BY <1>6, <3>1
                   <4>2. chan'[ch].receiver = to /\ chan'[ch].bit = n
                         BY <1>8
                   <4>3. task'[to].rx[n] = ch
                         BY <1>4, <1>5
                   <4>4. to \in Tasks /\ thread[to] # "yielded"
                         BY <1>4
                   <4> QED
                       BY <4>1, <4>2, <4>3, <4>4
             <3>2. CASE task[u].tx[q] # ch
                   <4>1. task'[u].tx[q] = task[u].tx[q] /\ task[u].tx[q] \in Chans
                         BY <1>1, <1>6, <2>1 DEF MailExact, SendEndsKept
                   <4> DEFINE c == chan[task[u].tx[q]]
                   <4>2. /\ c.receiver \in Tasks /\ task[c.receiver].rx[c.bit] = task[u].tx[q]
                         /\ thread[c.receiver] # "yielded"
                         BY <1>1, <2>1, <4>1 DEF MailExact, SendersReachReceivers
                   <4>3. c.bit \in Slot
                         BY <1>1, <4>1 DEF MailExact, SendEndsKept
                   <4>4. chan'[task'[u].tx[q]] = c
                         BY <1>8, <3>2, <4>1
                   <4> HIDE DEF c
                   <4>5. task'[c.receiver].rx[c.bit] = task[u].tx[q]
                         BY <1>4, <1>5, <2>1, <3>2, <4>1, <4>2, <4>3
                   <4> QED
                       BY <4>1, <4>2, <4>4, <4>5
             <3> QED
                 BY <3>1, <3>2
       <2>2. \A p \in Page : thread[p] = "yielded" =>
               p \in Tasks /\ task'[p].readyMask \cap task'[p].rxMask = {}
             <3>1. \A p \in Page : thread[p] = "yielded" => p \in Tasks /\ p \notin {t, to}
                   BY <1>1, <1>4 DEF IInv, CoreExact, SchedulerListsExact, Tasks
             <3> QED
                 BY <1>1, <1>6, <3>1 DEF MailExact, SendersReachReceivers
       <2> QED
           BY <1>3, <2>1, <2>2 DEF SendersReachReceivers
<1> QED
    BY <1>10, <1>11, <1>12, <1>13, <1>14, <1>15 DEF MailExact

\* and kern_fork.
LEMMA ForkMail ==
  ASSUME IInv, NEW t \in Page, Fork(t)
  PROVE  MailExact'
<1>0. PICK nt \in Page : Forked(t, nt)
      BY ForkWrites
<1>1. /\ MailExact /\ Calls(t) /\ t \in Tasks /\ thread[t] = "runs" /\ None \notin Page
      /\ kind \in [Page -> {"free", "task", "chan"}]
      BY CallerRuns, KernelConstants DEF IInv, TypeOK, Fork
<1>2. nt \notin Tasks /\ nt \notin Chans /\ thread[nt] = "none" /\ thread' = thread /\ chan' = chan
      BY <1>0, <1>1, FreePage DEF Forked, os
<1>3. Tasks' = Tasks \cup {nt} /\ Chans' = Chans /\ Tasks \in SUBSET Page
      BY <1>0, <1>1, <1>2 DEF Forked, Tasks, Chans
<1>4. \A u \in Tasks : /\ SameMail(task'[u], task[u]) /\ task'[u].rxMask = task[u].rxMask
                       /\ task'[u].creating = IF u = t THEN nt ELSE task[u].creating
      BY <1>0, <1>2, <1>3 DEF Forked
<1>5. /\ \A q \in Slot : task'[nt].rx[q] = None /\ task'[nt].tx[q] = None
      /\ task'[nt].readyMask = {} /\ task'[nt].dispatchMask = {} /\ task'[nt].creating = None
      BY <1>0 DEF Forked, ClearedTask
<1>6. ReadyExact'
      BY <1>1, <1>2, <1>3, <1>4, <1>5 DEF MailExact, ReadyExact, SameMail
<1>7. DispatchExact'
      BY <1>1, <1>2, <1>3, <1>4, <1>5 DEF MailExact, DispatchExact, SameMail
<1>8. EndsExact'
      <2>1. \A u \in Tasks', q \in Slot : task'[u].rx[q] # None =>
              /\ task'[u].rx[q] \in Chans
              /\ chan'[task'[u].rx[q]].receiver = u /\ chan'[task'[u].rx[q]].bit = q
            BY <1>1, <1>2, <1>3, <1>4, <1>5 DEF MailExact, EndsExact, SameMail
      <2>2. \A u, v \in Tasks', p, q \in Slot :
              task'[u].tx[p] # None /\ task'[u].tx[p] = task'[v].tx[q] => u = v /\ p = q
            BY <1>1, <1>3, <1>4, <1>5 DEF MailExact, EndsExact, SameMail
      <2> QED
          BY <1>3, <2>1, <2>2 DEF EndsExact
<1>9. CreatingExact'
      <2>1. \A u \in Tasks : task[u].creating # None =>
              task[u].creating \in Tasks /\ thread[task[u].creating] = "none"
            BY <1>1 DEF MailExact, CreatingExact
      <2>2. \A u, v \in Tasks :
              task[u].creating # None /\ task[u].creating = task[v].creating => u = v
            BY <1>1 DEF MailExact, CreatingExact
      <2> QED
          BY <1>1, <1>2, <1>3, <1>4, <1>5, <2>1, <2>2 DEF CreatingExact
<1>10. SendEndsKept'
       BY <1>1, <1>2, <1>3, <1>4, <1>5 DEF MailExact, SendEndsKept, SameMail
<1>11. SendersReachReceivers'
       <2>1. ASSUME NEW u \in Tasks', NEW q \in Slot, task'[u].tx[q] # None,
                    thread[u] \in {"runs", "suspended"}
             PROVE  LET c == chan[task'[u].tx[q]]
                    IN  /\ c.receiver \in Tasks
                        /\ task'[c.receiver].rx[c.bit] = task'[u].tx[q]
                        /\ thread[c.receiver] # "yielded"
             <3>1. u \in Tasks /\ task'[u].tx[q] = task[u].tx[q]
                   BY <1>3, <1>4, <1>5, <2>1 DEF SameMail
             <3> DEFINE c == chan[task[u].tx[q]]
             <3>2. /\ c.receiver \in Tasks /\ task[c.receiver].rx[c.bit] = task[u].tx[q]
                   /\ thread[c.receiver] # "yielded"
                   BY <1>1, <2>1, <3>1 DEF MailExact, SendersReachReceivers
             <3> HIDE DEF c
             <3>3. task'[c.receiver].rx = task[c.receiver].rx
                   BY <1>4, <3>2 DEF SameMail
             <3> QED
                 BY <3>1, <3>2, <3>3 DEF c
       <2>2. \A p \in Page : thread[p] = "yielded" => task'[p].readyMask \cap task'[p].rxMask = {}
             <3>1. \A p \in Page : thread[p] = "yielded" => p \in Tasks
                   BY DEF IInv, CoreExact, SchedulerListsExact, Tasks
             <3> QED
                 BY <1>1, <1>4, <3>1 DEF MailExact, SendersReachReceivers, SameMail
       <2> QED
           BY <1>2, <1>3, <2>1, <2>2 DEF SendersReachReceivers
<1> QED
    BY <1>6, <1>7, <1>8, <1>9, <1>10, <1>11 DEF MailExact

-----------------------------------------------------------------------------
(* Every behaviour.                                                        *)

\* The first task alone satisfies the invariant.
LEMMA InvInit == Init => IInv
<1> SUFFICES ASSUME Init PROVE IInv
    OBVIOUS
<1>1. PICK t \in Page :
        /\ kind = [p \in Page |-> IF p = t THEN "task" ELSE "free"]
        /\ task = [p \in Page |-> ClearedTask]
        /\ ready = t /\ asleep = None /\ running = t
        /\ thread = [p \in Page |-> IF p = t THEN "runs" ELSE "none"]
        /\ event = FALSE
      BY DEF Init
<1>2. \A p \in Page : /\ task[p].next = None /\ task[p].prev = None /\ task[p].creating = None
                      /\ task[p].readyMask = {} /\ task[p].dispatchMask = {}
                      /\ \A q \in Slot : task[p].rx[q] = None /\ task[p].tx[q] = None
      BY <1>1 DEF ClearedTask
<1>3. Tasks = {t} /\ Chans = {} /\ Ready = {t} /\ Asleep = {} /\ None \notin Page
      BY <1>1, KernelConstants DEF Tasks, Chans, Ready, Asleep
<1>4. MailExact
      <2>1. ReadyExact /\ DispatchExact /\ EndsExact
            BY <1>2, <1>3 DEF ReadyExact, DispatchExact, EndsExact
      <2>2. CreatingExact /\ SendEndsKept
            BY <1>2, <1>3 DEF CreatingExact, SendEndsKept
      <2>3. SendersReachReceivers
            BY <1>1, <1>2, <1>3 DEF SendersReachReceivers
      <2> QED
          BY <2>1, <2>2, <2>3 DEF MailExact
<1>5. CoreExact
      <2>1. IsTaskList(task, Ready, ready) /\ IsTaskList(task, Asleep, asleep)
            BY <1>1, <1>2, <1>3 DEF IsTaskList
      <2>2. SchedulerListsExact
            BY <1>1, <2>1 DEF SchedulerListsExact
      <2>3. OneThreadRuns
            BY <1>1 DEF OneThreadRuns
      <2> QED
          BY <2>2, <2>3 DEF CoreExact
<1> QED
    BY <1>4, <1>5, TypeInit DEF IInv

\* A step that changes nothing but the fault.
LEMMA InvKept ==
  ASSUME IInv, UNCHANGED <<kind, task, chan, cpu, os>>
  PROVE  MailExact' /\ CoreExact'
<1>1. CoreExact'
      BY CoreKept
<1>2. Tasks' = Tasks /\ Chans' = Chans /\ \A p \in Page : SameMail(task'[p], task[p])
      BY DEF Tasks, Chans, SameMail
<1>3. ReadyExact' /\ EndsExact' /\ DispatchExact'
      BY <1>2, MailKept
<1>4. \A p \in Page : thread[p] = "yielded" => task'[p].readyMask \cap task'[p].rxMask = {}
      BY DEF IInv, MailExact, SendersReachReceivers
<1>5. CreatingExact' /\ SendEndsKept' /\ SendersReachReceivers'
      BY <1>4, EndsKept
<1> QED
    BY <1>1, <1>3, <1>5 DEF MailExact

\* Every step keeps it.
LEMMA InvNext ==
  ASSUME IInv, [Next]_vars
  PROVE  IInv'
<1>1. CASE Next
      <2>1. CoreExact'
            <3>1. FaultStep => CoreExact'
                  BY InvKept DEF FaultStep
            <3> QED
                BY <1>1, <3>1, Steps, PipeCore, RedirectCore, SendCore, RecvCore, MoveCore, ForkCore,
                   SleepCore, StartCore, FreeCore, ScheduleCore
      <2>2. MailExact'
            <3>1. FaultStep => MailExact'
                  BY InvKept DEF FaultStep
            <3> QED
                BY <1>1, <3>1, Steps, PipeMail, RedirectMail, SendMail, RecvMail, MoveMail, ForkMail,
                   SleepMail, StartMail, FreeMail, ScheduleMail
      <2> QED
          BY <1>1, <2>1, <2>2, TypeNext DEF IInv
<1>2. CASE UNCHANGED vars
      <2>1. MailExact' /\ CoreExact'
            BY <1>2, InvKept DEF vars
      <2>2. TypeOK'
            BY <1>2 DEF IInv, TypeOK, vars, cpu, os
      <2> QED
          BY <2>1, <2>2 DEF IInv
<1> QED
    BY <1>1, <1>2

\* Every reachable state satisfies the invariant.
THEOREM Invariant == Spec => []IInv
BY InvInit, InvNext, PTL DEF Spec

\* Pointers are NULL or pages of the kernel pool, masks name slots, and no
\* channel has more than NUM_MSGS messages.
THEOREM TypeCorrect == Spec => []TypeOK
BY Invariant, PTL DEF IInv

\* kern_recv can trust the ready mask: no bit without a message and no message
\* without its bit, so no task sleeps on one.
THEOREM ReadyExactHolds == Spec => []ReadyExact
<1>1. IInv => ReadyExact
      BY DEF IInv, MailExact
<1> QED
    BY <1>1, Invariant, PTL

\* A channel has one receive end and one send end, through every kern_move.
THEOREM EndsExactHolds == Spec => []EndsExact
<1>1. IInv => EndsExact
      BY DEF IInv, MailExact
<1> QED
    BY <1>1, Invariant, PTL

\* The dispatch mask is what kern_pipe and kern_move left in the channels.
THEOREM DispatchExactHolds == Spec => []DispatchExact
<1>1. IInv => DispatchExact
      BY DEF IInv, MailExact
<1> QED
    BY <1>1, Invariant, PTL

\* kern_send never sets a bit in a page that is no task any more, and leaves no
\* sleeper with a message it waits for.
THEOREM SendersReachReceiversHolds == Spec => []SendersReachReceivers
<1>1. IInv => SendersReachReceivers
      BY DEF IInv, MailExact
<1> QED
    BY <1>1, Invariant, PTL

\* The ready and the asleep list are well linked and hold the started tasks.
THEOREM SchedulerListsExactHolds == Spec => []SchedulerListsExact
<1>1. IInv => SchedulerListsExact
      BY DEF IInv, CoreExact
<1> QED
    BY <1>1, Invariant, PTL

\* One thread runs at a time, and none only when no task is ready.
THEOREM OneThreadRunsHolds == Spec => []OneThreadRuns
<1>1. IInv => OneThreadRuns
      BY DEF IInv, CoreExact
<1> QED
    BY <1>1, Invariant, PTL

==============================================================================
