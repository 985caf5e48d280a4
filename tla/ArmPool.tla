-------------------------------- MODULE ArmPool --------------------------------
(***************************************************************************)
(* The descriptor pool on ARM, where cores share it without a lock:        *)
(* kern_alloc (arm/global-alloc.S) and release_global (arm/release-        *)
(* global.S), one step per access to memory, on a pool laid out by         *)
(* arm/start.S.  Cores interleave freely; an interrupt changes nothing     *)
(* (irq_exception returns at once).                                        *)
(*                                                                         *)
(* LDREX sets the core's reservation to the word it loads.  STREX stores   *)
(* only under that reservation, and then ends every core's reservation of  *)
(* the word; it may also fail for no reason, as the architecture allows.   *)
(* Both routines use one register for the value and the status of STREX,   *)
(* which the architecture leaves open; here the value is stored first.     *)
(*                                                                         *)
(* What kern_alloc does with a non-empty free list is left out: the list   *)
(* is empty at the start, and release_global stores back the head it has   *)
(* loaded, so it stays empty (first part of TopExact).                     *)
(***************************************************************************)
EXTENDS Integers, FiniteSets

CONSTANTS
  Cpu,      \* cores
  NumDesc,  \* descriptors of the pool, 1..NumDesc in address order
  Retries,  \* LOOP_COUNT, 10 in the code
  None      \* no core, no word

ASSUME ArmPoolConstants ==
  /\ NumDesc \in Nat
  /\ Retries \in Nat
  /\ None \notin Cpu \cup {"free", "top"}

Desc == 1 .. NumDesc
Null == 0
Ptr  == Desc \cup {Null}
Word == {"free", "top"}

VARIABLES
  free, top,  \* the pool's two shared words
  next,       \* the link of each descriptor
  reserved,   \* the word each core has a reservation of
  pc,         \* the label each core has come to
  reg,        \* RESULT in kern_alloc, the list's end in release_global
  temp,       \* r4 in release_global
  loop,       \* LOOP_COUNT
  holder,     \* history: the core that was given each descriptor
  back        \* history: the descriptors release_global has returned for

pool == <<free, top, next>>
regs == <<reserved, reg, temp, loop>>
hist == <<holder, back>>
vars == <<pool, regs, pc, hist>>

AllocLabel   == {"ag_start", "ag_new_resource", "ag_strex", "ag_again"}
ReleaseLabel == {"release_global", "rg_str", "rg_strex"}

TypeOK ==
  /\ free \in Ptr
  /\ top \in 1 .. NumDesc + 1
  /\ next \in [Desc -> Ptr]
  /\ reserved \in [Cpu -> Word \cup {None}]
  /\ pc \in [Cpu -> {"idle"} \cup AllocLabel \cup ReleaseLabel]
  /\ reg \in [Cpu -> Ptr]
  /\ temp \in [Cpu -> Ptr]
  /\ loop \in [Cpu -> 0 .. Retries]
  /\ holder \in [Desc -> Cpu \cup {None}]
  /\ back \in SUBSET Desc
  /\ \A c \in Cpu : pc[c] \in ReleaseLabel => reg[c] # Null

Init ==
  /\ free = Null
  /\ top = 1
  /\ next = [d \in Desc |-> Null]
  /\ reserved = [c \in Cpu |-> None]
  /\ pc = [c \in Cpu |-> "idle"]
  /\ reg = [c \in Cpu |-> Null]
  /\ temp = [c \in Cpu |-> Null]
  /\ loop = [c \in Cpu |-> Retries]
  /\ holder = [d \in Desc |-> None]
  /\ back = {}

-----------------------------------------------------------------------------
At(c, label)   == pc[c] = label
Goto(c, label) == pc' = [pc EXCEPT ![c] = label]

Reserve(c, w) == reserved' = [reserved EXCEPT ![c] = w]

\* A store to w that succeeds leaves no core a reservation of it.
EndKept(c, w) == [reserved EXCEPT ![c] = None]   \* a mistaken End
End(c, w) == [b \in Cpu |-> IF reserved[b] = w THEN None ELSE reserved[b]]

\* A STREX to w by core c stores, or does not.
Stores(c, w) == reserved[c] = w /\ reserved' = End(c, w)
Fails(c)     == reserved' = [reserved EXCEPT ![c] = None]

-----------------------------------------------------------------------------
(* kern_alloc                                                              *)

Call(c) ==
  /\ At(c, "idle")
  /\ loop' = [loop EXCEPT ![c] = Retries]
  /\ Goto(c, "ag_start")
  /\ UNCHANGED <<pool, reserved, reg, temp, hist>>

\* ldrex RESULT, [free]; cbz: nothing in the free list.
LoadFree(c) ==
  /\ At(c, "ag_start")
  /\ free = Null
  /\ Reserve(c, "free")
  /\ reg' = [reg EXCEPT ![c] = free]
  /\ Goto(c, "ag_new_resource")
  /\ UNCHANGED <<pool, temp, loop, hist>>

\* ldrex RESULT, [top]; bhs: no fresh descriptor is left, the answer is NULL.
PastEnd(d) == d > NumDesc + 1   \* a mistaken NoneLeft
NoneLeft(d) == d > NumDesc

LoadTop(c) ==
  /\ At(c, "ag_new_resource")
  /\ Reserve(c, "top")
  /\ reg' = [reg EXCEPT ![c] = IF NoneLeft(top) THEN Null ELSE top]
  /\ Goto(c, IF NoneLeft(top) THEN "idle" ELSE "ag_strex")
  /\ UNCHANGED <<pool, temp, loop, hist>>

\* strex [top]: the descriptor is the core's.
StoreTop(c) ==
  /\ At(c, "ag_strex")
  /\ Stores(c, "top")
  /\ top' = reg[c] + 1
  /\ holder' = [holder EXCEPT ![reg[c]] = c]
  /\ Goto(c, "idle")
  /\ UNCHANGED <<free, next, reg, temp, loop, back>>

StoreTopFails(c) ==
  /\ At(c, "ag_strex")
  /\ Fails(c)
  /\ Goto(c, "ag_again")
  /\ UNCHANGED <<pool, reg, temp, loop, hist>>

\* subs; blo: once more, or no memory after all.
Uncounted(c) == loop[c]   \* a mistaken Counted
Counted(c) == loop[c] - 1

Again(c) ==
  /\ At(c, "ag_again")
  /\ \/ /\ loop[c] = 0
        /\ reg' = [reg EXCEPT ![c] = Null]
        /\ Goto(c, "idle")
        /\ UNCHANGED loop
     \/ /\ loop[c] # 0
        /\ loop' = [loop EXCEPT ![c] = Counted(c)]
        /\ Goto(c, "ag_start")
        /\ UNCHANGED reg
  /\ UNCHANGED <<pool, reserved, temp, hist>>

-----------------------------------------------------------------------------
(* release_global, of a list with one descriptor                           *)

Release(c, d) ==
  /\ At(c, "idle")
  /\ holder[d] = c
  /\ reg' = [reg EXCEPT ![c] = d]
  /\ Goto(c, "release_global")
  /\ UNCHANGED <<pool, reserved, temp, loop, hist>>

\* ldrex r4, [free]
LoadHead(c) ==
  /\ At(c, "release_global")
  /\ Reserve(c, "free")
  /\ temp' = [temp EXCEPT ![c] = free]
  /\ Goto(c, "rg_str")
  /\ UNCHANGED <<pool, reg, loop, hist>>

\* str r4, [r3]
LinkEnd(c) ==
  /\ At(c, "rg_str")
  /\ next' = [next EXCEPT ![reg[c]] = temp[c]]
  /\ Goto(c, "rg_strex")
  /\ UNCHANGED <<free, top, regs, hist>>

\* strex r4, r4, [free]: what is stored is r4.
StoreHead(c) ==
  /\ At(c, "rg_strex")
  /\ Stores(c, "free")
  /\ free' = temp[c]
  /\ holder' = [holder EXCEPT ![reg[c]] = None]
  /\ back' = back \cup {reg[c]}
  /\ Goto(c, "idle")
  /\ UNCHANGED <<top, next, reg, temp, loop>>

StoreHeadFails(c) ==
  /\ At(c, "rg_strex")
  /\ Fails(c)
  /\ Goto(c, "release_global")
  /\ UNCHANGED <<pool, reg, temp, loop, hist>>

-----------------------------------------------------------------------------
AllocStep(c) ==
  LoadFree(c) \/ LoadTop(c) \/ StoreTop(c) \/ StoreTopFails(c) \/ Again(c)

ReleaseStep(c) ==
  LoadHead(c) \/ LinkEnd(c) \/ StoreHead(c) \/ StoreHeadFails(c)

Next ==
  \E c \in Cpu :
    Call(c) \/ AllocStep(c) \/ ReleaseStep(c) \/ \E d \in Desc : Release(c, d)

Spec == Init /\ [][Next]_vars

\* A core inside kern_alloc runs on.
PoolFairness == \A c \in Cpu : WF_vars(AllocStep(c))

-----------------------------------------------------------------------------
(* Properties                                                              *)

\* Nothing is on the free list, nor about to be.
ListEmpty ==
  /\ free = Null
  /\ \A c \in Cpu : pc[c] \in {"rg_str", "rg_strex"} => temp[c] = Null

\* What is below top has been given to a core.
BelowTop == \A d \in Desc : d < top <=> holder[d] # None \/ d \in back

\* A reservation of top that still stands means top has not moved.
ReservedTop == \A c \in Cpu : At(c, "ag_strex") /\ reserved[c] = "top" => reg[c] = top

\* A descriptor belongs to the core that releases it until that is done.
ReleaserHolds ==
  /\ \A c \in Cpu : pc[c] \in ReleaseLabel => holder[reg[c]] = c
  /\ \A d \in back : holder[d] = None

(***************************************************************************)
(* However the cores' exclusive accesses fall, top never gives one         *)
(* descriptor to two cores and skips none.                                 *)
(***************************************************************************)
TopExact == ListEmpty /\ BelowTop /\ ReservedTop /\ ReleaserHolds

(***************************************************************************)
(* A descriptor is given to a core only while no core has it.              *)
(***************************************************************************)
Ownership == INSTANCE PageOwnership
  WITH Page <- Desc, Task <- Cpu, Quota <- NumDesc + 1, owner <- holder,
       Size <- Cardinality

DescriptorsOwned == Ownership!Spec

(***************************************************************************)
(* kern_alloc ends, with a descriptor or without, however often the other  *)
(* cores get in between: this is what LOOP_COUNT is for.                   *)
(***************************************************************************)
AllocEnds == \A c \in Cpu : pc[c] \in AllocLabel ~> At(c, "idle")

(***************************************************************************)
(* "function to release a list of resources to a global free list"         *)
(* (release-global.S:7): what is released is the new head of it.  Does not *)
(* hold: see StoreHead.                                                    *)
(***************************************************************************)
ReleaseLinks == \A d \in Desc : holder[d] # None /\ holder'[d] = None => free' = d
ReleasedIsFree == [][ReleaseLinks]_vars

==============================================================================
