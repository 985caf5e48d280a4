---------------------------- MODULE PageTransfer ----------------------------
(***************************************************************************)
(* The page allocator together with transfer_page (alloc.c:123), which     *)
(* kern_send calls for the page a message carries once verify_page has     *)
(* found that the sender owns it.  The receiver is any other task on the   *)
(* sender's core (the assertion at alloc.c:127).                           *)
(***************************************************************************)
EXTENDS PageAlloc

TransferPage(from, to, d) ==
  /\ Calls(from)
  /\ to # from
  /\ state[to] = "live"
  /\ core[to] = core[from]
  /\ owner[d] = from
  \* remove from the source page list, then add to the target page list
  /\ LET prv == Store(prev, next[d], prev[d])
     IN  prev' = Store([prv EXCEPT ![d] = Null], memFirst[to], d)
  /\ next' = [Store(next, prev[d], next[d]) EXCEPT ![d] = memFirst[to]]
  /\ owner' = [owner EXCEPT ![d] = to]
  /\ memFirst' = IF memFirst[from] = d THEN [memFirst EXCEPT ![from] = next[d]] ELSE memFirst
  /\ memCount' = [memCount EXCEPT ![from] = Decrement(@), ![to] = @ + 1]
  /\ UNCHANGED <<pool, cores, tasks, call, fault, cache>>

TransferNext ==
  \/ Next
  \/ \E from, to \in Task, d \in Desc : TransferPage(from, to, d)

TransferSpec == Init /\ [][TransferNext]_vars

-----------------------------------------------------------------------------
(***************************************************************************)
(* verify_page is to "check that the argument is an actual page pointer"   *)
(* (alloc.c:73) and so never follows a NULL pointer, and transfer_page to  *)
(* "add to the target page list" (141): weaker than each, one of the two   *)
(* is always so.  Does not hold: a task that has sent a page goes on to    *)
(* fork, and frees a page (see FreePageWhileCreating).                     *)
(***************************************************************************)
SomePagePromiseKept == NoFault \/ ListsMatchOwners

==============================================================================
