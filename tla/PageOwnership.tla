---------------------------- MODULE PageOwnership ----------------------------
(***************************************************************************)
(* What the user-page allocator of NeedleOS promises, with no list in it:  *)
(* a page belongs to at most one task, a page is granted only when nobody  *)
(* owns it and only while its new owner is below its quota, and it leaves  *)
(* its owner only by going back to being nobody's.                         *)
(***************************************************************************)
EXTENDS Integers

CONSTANTS
  Page,    \* user pages
  Task,    \* tasks that may own pages
  Quota,   \* most pages a task may own
  None,    \* the owner of a page that is nobody's
  Size(_)  \* how many elements a finite set has

VARIABLE owner

PagesOf(t) == {p \in Page : owner[p] = t}

Init == owner = [p \in Page |-> None]

Grant(p, t) ==
  /\ owner[p] = None
  /\ Size(PagesOf(t)) < Quota
  /\ owner' = [owner EXCEPT ![p] = t]

Release(p) ==
  /\ owner[p] # None
  /\ owner' = [owner EXCEPT ![p] = None]

Next ==
  \/ \E p \in Page, t \in Task : Grant(p, t)
  \/ \E p \in Page : Release(p)

Spec == Init /\ [][Next]_owner

==============================================================================
