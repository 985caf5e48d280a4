-------------------------------- MODULE Kernel --------------------------------
(***************************************************************************)
(* Tasks, channel ends and the scheduler of one NeedleOS core, under the   *)
(* Windows host: kernel/task.c, kernel/channel.c, kernel/scheduler.c and   *)
(* the threads and events of kernel/hosted/win32.c.                        *)
(*                                                                         *)
(* Tasks and channels are pages of one kernel pool.  A system call runs    *)
(* under the core lock and is one step; only the thread of c->running runs *)
(* until its task sleeps in kern_recv or ends, which signals the main      *)
(* loop to schedule the next.  A call that fails changes nothing and is a  *)
(* stuttering step.                                                        *)
(*                                                                         *)
(* The message slots of a channel are in module Channel, which shows that  *)
(* they are a queue of at most NumMsgs messages: here a channel has just   *)
(* their number.  The page lists of tasks are in PageAlloc, the pages sent *)
(* along with messages in PageTransfer, the kernel pool (the same code as  *)
(* the user pool) in PageAlloc.                                            *)
(***************************************************************************)
EXTENDS Integers, FiniteSets

CONSTANTS
  Page,     \* the kernel pages that may hold a kern_task or a chan
  MaxSlot,  \* the last slot find_chan_slot looks at (31)
  NumMsgs,  \* NUM_MSGS
  None      \* a NULL pointer

ASSUME KernelConstants ==
  /\ MaxSlot \in Nat
  /\ NumMsgs \in Nat \ {0}
  /\ None \notin Page

Slot == 1 .. MaxSlot   \* slot 0 of rx and tx is never used
Ptr  == Page \cup {None}

VARIABLES
  kind,     \* what each kernel page holds
  task,     \* the page as a struct kern_task
  chan,     \* the page as a struct chan
  ready,    \* kern_cpu.ready
  asleep,   \* kern_cpu.asleep
  running,  \* kern_cpu.running
  thread,   \* the Windows thread of the task on each page
  event,    \* the schedule event of the core is set
  fault     \* what stopped the kernel: an assertion, "valid" or "core", that
            \* failed, or "bounds", an array that was left

cpu  == <<ready, asleep, running>>
os   == <<thread, event>>
vars == <<kind, task, chan, cpu, os, fault>>

\* A kern_task after memset, and a chan.  Bit masks are sets of slots.
ClearedTask ==
  [next |-> None, prev |-> None, creating |-> None,
   rx |-> [s \in Slot |-> None], tx |-> [s \in Slot |-> None],
   rxMask |-> {}, readyMask |-> {}, dispatchMask |-> {}]

ClearedChan == [receiver |-> None, bit |-> 0, fn |-> FALSE, queued |-> 0]

KernTask ==
  [next : Ptr, prev : Ptr, creating : Ptr, rx : [Slot -> Ptr], tx : [Slot -> Ptr],
   rxMask : SUBSET Slot, readyMask : SUBSET Slot, dispatchMask : SUBSET Slot]

Channel ==
  [receiver : Ptr, bit : Slot \cup {0}, fn : BOOLEAN, queued : 0 .. NumMsgs]

TypeOK ==
  /\ kind \in [Page -> {"free", "task", "chan"}]
  /\ task \in [Page -> KernTask]
  /\ chan \in [Page -> Channel]
  /\ ready \in Ptr
  /\ asleep \in Ptr
  /\ running \in Page
  /\ thread \in [Page -> {"none", "suspended", "runs", "yielded", "zombie"}]
  /\ event \in BOOLEAN
  /\ fault \in {"none", "valid", "core", "bounds"}

\* main: one task, ready and running.
Init ==
  \E t \in Page :
    /\ kind = [p \in Page |-> IF p = t THEN "task" ELSE "free"]
    /\ task = [p \in Page |-> ClearedTask]
    /\ chan = [p \in Page |-> ClearedChan]
    /\ ready = t
    /\ asleep = None
    /\ running = t
    /\ thread = [p \in Page |-> IF p = t THEN "runs" ELSE "none"]
    /\ event = FALSE
    /\ fault = "none"

-----------------------------------------------------------------------------
(* What the calls share.                                                   *)

\* kern_current_task: the thread that makes the call belongs to task t.
Calls(t) == fault = "none" /\ thread[t] = "runs"

FreeSlots(ends) == {s \in Slot : ends[s] = None}
FindSlot(ends) == CHOOSE s \in FreeSlots(ends) : \A r \in FreeSlots(ends) : s <= r

\* t leaves whatever list it is in: t->next->prev = t->prev, and so on.
UnlinkForwardOnly(ts, t) ==   \* a mistaken Unlink
  IF ts[t].prev = None THEN ts ELSE [ts EXCEPT ![ts[t].prev].next = ts[t].next]
Unlink(ts, t) ==
  LET ahead == IF ts[t].next = None THEN ts
                 ELSE [ts EXCEPT ![ts[t].next].prev = ts[t].prev]
  IN  IF ts[t].prev = None THEN ahead
        ELSE [ahead EXCEPT ![ts[t].prev].next = ts[t].next]

\* t joins the list that starts at h, in front.
PushFront(ts, t, h) ==
  LET front == [ts EXCEPT ![t].next = h, ![t].prev = None]
  IN  IF h = None THEN front ELSE [front EXCEPT ![h].prev = t]

-----------------------------------------------------------------------------
(* kernel/channel.c                                                        *)

\* The dispatch mask follows the channel's function.
DispatchKept(mask, bit, fn) == IF fn THEN mask \cup {bit} ELSE mask   \* mistaken
SetDispatch(mask, bit, fn) == IF fn THEN mask \cup {bit} ELSE mask \ {bit}

\* kern_pipe without a channel: a new one, both ends with the caller.
Pipe(t, fn) ==
  LET r == FindSlot(task[t].rx)
      s == FindSlot(task[t].tx)
  IN  /\ Calls(t)
      /\ FreeSlots(task[t].rx) # {}
      /\ FreeSlots(task[t].tx) # {}
      /\ \E ch \in Page :
           /\ kind[ch] = "free"
           /\ kind' = [kind EXCEPT ![ch] = "chan"]
           /\ chan' = [chan EXCEPT ![ch] =
                         [receiver |-> t, bit |-> r, fn |-> fn, queued |-> 0]]
           /\ task' = [task EXCEPT ![t].rx[r] = ch, ![t].tx[s] = ch,
                         ![t].dispatchMask = SetDispatch(@, r, fn)]
      /\ UNCHANGED <<cpu, os, fault>>

\* kern_pipe with a channel: a new dispatch function.
Redirect(t, r, fn) ==
  LET ch == task[t].rx[r]
  IN  /\ Calls(t)
      /\ ch # None
      /\ chan' = [chan EXCEPT ![ch].fn = fn]
      /\ task' = [task EXCEPT ![t].dispatchMask = SetDispatch(@, chan[ch].bit, fn)]
      /\ UNCHANGED <<kind, cpu, os, fault>>

RoomForOneMore(ch) == chan[ch].queued <= NumMsgs   \* a mistaken HasRoom
HasRoom(ch) == chan[ch].queued < NumMsgs

\* kern_send.  The ready bit is set in the page of the receiver, whatever that
\* page holds by now.
Send(t, s) ==
  LET ch == task[t].tx[s]
      to == chan[ch].receiver
  IN  /\ Calls(t)
      /\ ch # None
      /\ HasRoom(ch)
      /\ chan' = [chan EXCEPT ![ch].queued = @ + 1]
      /\ task' = [task EXCEPT ![to].readyMask = @ \cup {chan[ch].bit}]
      /\ UNCHANGED <<kind, cpu, os, fault>>

\* kern_send of a message with a page of t, to a task that has no core yet:
\* the assertion in transfer_page fails, with the slot already taken.
SendPageToNew(t, s) ==
  LET ch == task[t].tx[s]
      to == chan[ch].receiver
  IN  /\ Calls(t)
      /\ ch # None
      /\ HasRoom(ch)
      /\ to # t
      /\ kind[to] = "task" /\ thread[to] = "none"
      /\ fault' = "core"
      /\ UNCHANGED <<kind, task, chan, cpu, os>>

\* The ready mask of t once its slot r has a message less.
ReadyKept(t, r) == task[t].readyMask   \* a mistaken ReadyAfterRecv
ReadyAfterRecv(t, r) ==
  IF chan[task[t].rx[r]].queued = 1 THEN task[t].readyMask \ {r} ELSE task[t].readyMask

\* kern_recv takes a message from the lowest ready slot of its mask; that it
\* holds a channel, with a message, is ReadyExact.
Recv(t, mask) ==
  LET r == CHOOSE i \in task[t].readyMask \cap mask :
             \A j \in task[t].readyMask \cap mask : i <= j
      ch == task[t].rx[r]
  IN  /\ Calls(t)
      /\ task[t].readyMask \cap mask # {}
      /\ chan' = [chan EXCEPT ![ch].queued = @ - 1]
      /\ task' = [task EXCEPT ![t].readyMask = ReadyAfterRecv(t, r)]
      /\ UNCHANGED <<kind, cpu, os, fault>>

\* The head of the ready list once t is out of it.
HeadKept(t) == ready   \* a mistaken HeadWithout
HeadWithout(t) == IF ready = t THEN task[t].next ELSE ready

\* kern_recv finds no message: the task goes from the ready list to the
\* asleep list, and os_yield stops the thread of c->running, which is its own.
Sleep(t, mask) ==
  LET gone == Unlink([task EXCEPT ![t].rxMask = mask], t)
  IN  /\ Calls(t)
      /\ task[t].readyMask \cap mask = {}
      /\ ready' = HeadWithout(t)
      /\ task' = PushFront(gone, t, asleep)
      /\ asleep' = t
      /\ thread' = [thread EXCEPT ![running] = "yielded"]
      /\ event' = TRUE
      /\ UNCHANGED <<kind, chan, running, fault>>

\* The ready mask of the task that is given channel ch in slot r.
ReadyLeftBehind(mask, ch, r) == mask   \* a mistaken ReadyAfterMove
ReadyAfterMove(mask, ch, r) == IF chan[ch].queued > 0 THEN mask \cup {r} ELSE mask

\* The channel's own bit once its receive end is in slot new.
BitKept(ch, new) == chan[ch].bit   \* a mistaken BitAfterMove
BitAfterMove(ch, new) == new

\* kern_move of a receive end to the task under creation.
MoveReceiver(t, r) ==
  LET ch == task[t].rx[r]
      to == task[t].creating
      new == FindSlot(task[to].rx)
  IN  /\ Calls(t)
      /\ to # None
      /\ ch # None
      /\ FreeSlots(task[to].rx) # {}
      /\ task' = [task EXCEPT ![t].readyMask = @ \ {chan[ch].bit},
                              ![t].dispatchMask = @ \ {chan[ch].bit},
                              ![t].rx[r] = None,
                              ![to].rx[new] = ch,
                              ![to].readyMask = ReadyAfterMove(@, ch, new)]
      /\ chan' = [chan EXCEPT ![ch].receiver = to, ![ch].bit = BitAfterMove(ch, new),
                              ![ch].fn = FALSE]
      /\ UNCHANGED <<kind, cpu, os, fault>>

\* kern_move of a send end: NDL_OBJ_TX leaves the slot shifted by five bits,
\* so every slot but 0 is read and written beyond the array tx.
MoveSender(t) ==
  /\ Calls(t)
  /\ task[t].creating # None
  /\ \E s \in Slot : task[t].tx[s] # None
  /\ fault' = "bounds"
  /\ UNCHANGED <<kind, task, chan, cpu, os>>

-----------------------------------------------------------------------------
(* kernel/task.c                                                           *)

Fork(t) ==
  /\ Calls(t)
  /\ task[t].creating = None
  /\ \E nt \in Page :
       /\ kind[nt] = "free"
       /\ kind' = [kind EXCEPT ![nt] = "task"]
       /\ task' = [task EXCEPT ![nt] = ClearedTask, ![t].creating = nt]
  /\ UNCHANGED <<chan, cpu, os, fault>>

\* kern_start with a function; os_setup_task makes a suspended thread.
Start(t) ==
  LET nt == task[t].creating
  IN  /\ Calls(t)
      /\ nt # None
      /\ task' = PushFront([task EXCEPT ![t].creating = None], nt, ready)
      /\ ready' = nt
      /\ thread' = [thread EXCEPT ![nt] = "suspended"]
      /\ UNCHANGED <<kind, chan, asleep, running, event, fault>>

\* free_task as far as the core's lists and the page go.
FreeTask(ts, t) ==
  /\ task' = Unlink(ts, t)
  /\ ready' = HeadWithout(t)
  /\ asleep' = IF asleep = t THEN ts[t].next ELSE asleep
  /\ kind' = [kind EXCEPT ![t] = "free"]
  /\ UNCHANGED <<chan, running, fault>>

\* The task's function has returned: free_task, then SetEvent.
EventForgotten == event   \* a mistaken Signalled
Signalled == TRUE

Exit(t) ==
  /\ Calls(t)
  /\ FreeTask(task, t)
  /\ thread' = [thread EXCEPT ![t] = "none"]
  /\ event' = Signalled

\* kern_start without a function frees the caller, whose thread runs on.
Cancel(t) ==
  /\ Calls(t)
  /\ task[t].creating # None
  /\ FreeTask([task EXCEPT ![t].creating = None], t)
  /\ thread' = [thread EXCEPT ![t] = "zombie"]
  /\ UNCHANGED event

\* When that thread's function returns, os_close_task asserts that the task
\* is valid.  What else the thread may call on its freed page is left out.
ZombieEnds(t) ==
  /\ fault = "none"
  /\ thread[t] = "zombie"
  /\ fault' = "valid"
  /\ UNCHANGED <<kind, task, chan, cpu, os>>

-----------------------------------------------------------------------------
(* kernel/scheduler.c and the loop of main                                 *)

RunningKept == running   \* a mistaken Elected
Elected == ready

Schedule ==
  /\ fault = "none"
  /\ event
  /\ event' = FALSE
  /\ IF ready # None
       THEN running' = Elected /\ thread' = [thread EXCEPT ![ready] = "runs"]
       ELSE UNCHANGED <<running, thread>>
  /\ UNCHANGED <<kind, task, chan, ready, asleep, fault>>

-----------------------------------------------------------------------------
Syscall(t) ==
  \/ \E fn \in BOOLEAN : Pipe(t, fn) \/ \E r \in Slot : Redirect(t, r, fn)
  \/ \E s \in Slot : Send(t, s) \/ SendPageToNew(t, s) \/ MoveReceiver(t, s)
  \/ MoveSender(t)
  \/ \E mask \in SUBSET Slot : Recv(t, mask) \/ Sleep(t, mask)
  \/ Fork(t) \/ Start(t) \/ Cancel(t)

Next ==
  \/ \E t \in Page : Syscall(t) \/ Exit(t) \/ ZombieEnds(t)
  \/ Schedule

Spec == Init /\ [][Next]_vars

-----------------------------------------------------------------------------
(* Properties                                                              *)

Tasks == {p \in Page : kind[p] = "task"}
Chans == {p \in Page : kind[p] = "chan"}

(***************************************************************************)
(* The ready mask is what kern_recv trusts (assert(ch), assert(msg)) and   *)
(* all it looks at before it sleeps: a bit is set exactly while the task   *)
(* holds, in that slot, a channel with a message waiting.                  *)
(***************************************************************************)
ReadyExact ==
  \A t \in Tasks :
    task[t].readyMask = {r \in Slot : /\ task[t].rx[r] # None
                                      /\ chan[task[t].rx[r]].queued > 0}

(***************************************************************************)
(* A channel has one receive end and one send end: what a task holds in a  *)
(* receive slot is a channel that names this task and this slot, and no    *)
(* two send slots hold the same channel, through every kern_move.          *)
(***************************************************************************)
EndsExact ==
  /\ \A t \in Tasks, r \in Slot : task[t].rx[r] # None =>
       /\ task[t].rx[r] \in Chans
       /\ chan[task[t].rx[r]].receiver = t
       /\ chan[task[t].rx[r]].bit = r
  /\ \A t, u \in Tasks, r, s \in Slot :
       task[t].tx[r] # None /\ task[t].tx[r] = task[u].tx[s] => t = u /\ r = s

(***************************************************************************)
(* kern_send follows the channel's receiver, which nothing resets when the *)
(* receiver ends (there is no kern_close), and wakes nobody.  Both stay    *)
(* harmless: whoever can still send does so to a task that holds the       *)
(* receive end and has not slept, so no ready bit is set in a page that    *)
(* was freed and no sleeper is left with a message it waits for.  It is so *)
(* because the sender is the channel's maker, in its first and only run.   *)
(***************************************************************************)
SendersReachReceivers ==
  /\ \A t \in Tasks, s \in Slot :
       task[t].tx[s] # None /\ thread[t] \in {"runs", "suspended"} =>
         LET ch == chan[task[t].tx[s]]
         IN  /\ ch.receiver \in Tasks
             /\ task[ch.receiver].rx[ch.bit] = task[t].tx[s]
             /\ thread[ch.receiver] # "yielded"
  /\ \A t \in Page : thread[t] = "yielded" => task[t].readyMask \cap task[t].rxMask = {}

\* The dispatch mask names the slots whose channel has a dispatch function.
DispatchExact ==
  \A t \in Tasks :
    task[t].dispatchMask = {r \in Slot : task[t].rx[r] # None /\ chan[task[t].rx[r]].fn}

\* The tasks linked from h, both ways and without a cycle, are those of S.
IsTaskList(ts, S, h) ==
  /\ IF S = {} THEN h = None ELSE h \in S
  /\ \A t \in S :
       /\ ts[t].next # None => ts[t].next \in S /\ ts[ts[t].next].prev = t
       /\ IF t = h THEN ts[t].prev = None
                   ELSE ts[t].prev \in S /\ ts[ts[t].prev].next = t
  /\ \A C \in SUBSET S : C # {} => \E t \in C : ts[t].prev \notin C

Ready  == {t \in Page : thread[t] \in {"suspended", "runs"}}
Asleep == {t \in Page : thread[t] = "yielded"}

(***************************************************************************)
(* The core's two lists hold the started tasks: ready the one that runs    *)
(* and those that have yet to, asleep those that yielded in kern_recv.  No *)
(* freed page stays linked, whatever the tasks do.                         *)
(***************************************************************************)
SchedulerListsExact ==
  /\ IsTaskList(task, Ready, ready)
  /\ IsTaskList(task, Asleep, asleep)
  /\ \A t \in Page : thread[t] \in {"suspended", "runs", "yielded"} => kind[t] = "task"

(***************************************************************************)
(* os_yield stops the thread of c->running and not the calling thread:     *)
(* they are the same.  One thread runs at a time, with no event pending,   *)
(* and none runs and none is about to only when no task is ready.          *)
(***************************************************************************)
OneThreadRuns ==
  /\ \A t \in Page : thread[t] \in {"runs", "zombie"} => t = running /\ ~event
  /\ ready # None => event \/ \E t \in Page : thread[t] \in {"runs", "zombie"}

(***************************************************************************)
(* A task that ends is valid until then: assert(wt->valid) in              *)
(* os_close_task (win32.c:167).  Does not hold: kern_start without a       *)
(* function frees the caller and not the new task, and the caller is freed *)
(* again when its function returns.                                        *)
(***************************************************************************)
FreedOnce == fault # "valid"

(***************************************************************************)
(* A page goes from a task to a task of the same core: the assertion of    *)
(* transfer_page (alloc.c:127).  Does not hold: kern_move may give the     *)
(* receive end of a channel to a task that kern_start has not put on a     *)
(* core yet, and the sender does not wait for that.                        *)
(***************************************************************************)
ReceiverHasCore == fault # "core"

(***************************************************************************)
(* kern_move verifies its inputs (channel.c:207) before it uses them as    *)
(* slots of tx.  Does not hold: it takes them out of the handle without    *)
(* the shift that kern_send makes, so the very test reads beyond tx.       *)
(***************************************************************************)
InsideArrays == fault # "bounds"

==============================================================================
