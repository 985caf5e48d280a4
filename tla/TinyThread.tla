------------------------------ MODULE TinyThread ------------------------------
(***************************************************************************)
(* The threads of kernel/tinycthread.c for Windows: thrd_create, the       *)
(* wrapper that runs the thread's function, thrd_exit, thrd_join, and the  *)
(* values a thread keeps under keys (tss_create, tss_delete, tss_set),     *)
(* with the list of nodes each thread frees when it ends.  A program that  *)
(* does anything the C11 interface allows drives them.  Memory is never    *)
(* reused: a freed node that is read is seen.                              *)
(***************************************************************************)
EXTENDS Naturals

CONSTANTS
  Child,     \* the threads thrd_create may create
  Key,       \* the indices TlsAlloc hands out, the lowest free one first
  DtorKey,   \* those created with a destructor
  MaxNode,   \* bound: nodes one thread allocates
  Rounds,    \* TSS_DTOR_ITERATIONS
  NoNode     \* the NULL pointer

Node == Child \X (1 .. MaxNode)

ASSUME TinyThreadConstants == /\ Key \subseteq Nat /\ Key # {}
                              /\ MaxNode \in Nat /\ Rounds \in Nat /\ NoNode \notin Node

VARIABLES
  childAt,  \* where the creation or the run of each thread is
  info,     \* its start information: "none", "live" or "freed"
  keys,     \* the indices in use, which are those _tinycthread_tss_dtors may have entries for
  slot,     \* the TLS cell of each thread and key
  head,     \* _tinycthread_tss_head of each thread
  tail,     \* _tinycthread_tss_tail
  node,     \* the nodes: key, value (not NULL), next, live
  made,     \* how many nodes a thread has allocated
  visit,    \* _tinycthread_tss_cleanup: data
  round,    \*   iteration
  again,    \*   again
  meddled,  \* history: a key was deleted by the main thread
  marks     \* history: "third" node, "delete" of a key, "fail" of TlsSetValue, of each thread

tssVars == <<head, tail, node, made, marks>>
cleanVars == <<visit, round, again>>
threadVars == <<childAt, info, keys, slot, meddled, tssVars, cleanVars>>

Place == {"none", "create", "failed", "start", "run", "round", "visit", "call", "dtor",
          "free", "detach", "ended", "joined", "badList", "badCall"}

ThreadTypeOK ==
  /\ childAt \in [Child -> Place]
  /\ info \in [Child -> {"none", "live", "freed"}]
  /\ keys \in [Key -> BOOLEAN]
  /\ slot \in [Child -> [Key -> Node \cup {NoNode}]]
  /\ head \in [Child -> Node \cup {NoNode}] /\ tail \in [Child -> Node \cup {NoNode}]
  /\ node \in [Node -> [key : Key, value : BOOLEAN, next : Node \cup {NoNode}, live : BOOLEAN]]
  /\ made \in [Child -> 0 .. MaxNode]
  /\ visit \in [Child -> Node \cup {NoNode}]
  /\ round \in [Child -> 0 .. Rounds] /\ again \in [Child -> BOOLEAN]
  /\ marks \in [Child -> SUBSET {"delete", "fail", "third"}] /\ meddled \in BOOLEAN
  /\ \A c \in Child : info[c] = "live" <=> childAt[c] \in {"create", "start"}
  /\ \A c \in Child : childAt[c] \in {"call", "dtor"} => visit[c] # NoNode

Freed == [key |-> CHOOSE k \in Key : TRUE, value |-> FALSE, next |-> NoNode, live |-> FALSE]

ThreadInit ==
  /\ childAt = [c \in Child |-> "none"]
  /\ info = [c \in Child |-> "none"]
  /\ keys = [k \in Key |-> FALSE]
  /\ slot = [c \in Child |-> [k \in Key |-> NoNode]]
  /\ head = [c \in Child |-> NoNode] /\ tail = [c \in Child |-> NoNode]
  /\ node = [n \in Node |-> Freed]
  /\ made = [c \in Child |-> 0]
  /\ visit = [c \in Child |-> NoNode]
  /\ round = [c \in Child |-> 0] /\ again = [c \in Child |-> FALSE]
  /\ marks = [c \in Child |-> {}]
  /\ meddled = FALSE

ThreadGo(c, from, to) == childAt[c] = from /\ childAt' = [childAt EXCEPT ![c] = to]

-----------------------------------------------------------------------------
(* Creating and joining a thread.                                          *)

Create(c) ==
  /\ ThreadGo(c, "none", "create")
  /\ info' = [info EXCEPT ![c] = "live"]
  /\ UNCHANGED <<keys, slot, tssVars, cleanVars>>

CreateThread(c) ==
  /\ ThreadGo(c, "create", "start")
  /\ UNCHANGED <<info, keys, slot, tssVars, cleanVars>>

CreateThreadFails(c) ==
  /\ ThreadGo(c, "create", "failed")
  /\ info' = [info EXCEPT ![c] = "freed"]
  /\ UNCHANGED <<keys, slot, tssVars, cleanVars>>

InfoKept == "live"   \* a mistaken InfoTaken
InfoTaken == "freed"

\* _thrd_wrapper_function up to the call of the thread's function.
Start(c) ==
  /\ ThreadGo(c, "start", "run")
  /\ info' = [info EXCEPT ![c] = InfoTaken]
  /\ UNCHANGED <<keys, slot, tssVars, cleanVars>>

\* Of a thread that has not been detached; its handle is signalled at its end.
Join(c) ==
  /\ ThreadGo(c, "ended", "joined")
  /\ UNCHANGED <<info, keys, slot, tssVars, cleanVars>>

-----------------------------------------------------------------------------
(* Keys and values.                                                        *)

\* _tinycthread_tss_dtors[k] is not NULL.
HasDtor(k) == keys[k] /\ k \in DtorKey

TssCreate(k) ==
  /\ ~keys[k] /\ \A l \in Key : l < k => keys[l]
  /\ keys' = [keys EXCEPT ![k] = TRUE]
  /\ UNCHANGED meddled
  /\ UNCHANGED <<childAt, info, slot, tssVars, cleanVars>>

\* The nodes a walk from n meets.
From(n) ==
  LET step[i \in 0 .. MaxNode] ==
        IF i = 0 THEN n ELSE IF step[i - 1] = NoNode THEN NoNode ELSE node[step[i - 1]].next
  IN  {step[i] : i \in 0 .. MaxNode} \ {NoNode}

\* The walk that looks for a node's predecessor reads only nodes of the
\* list that are still allocated, and finds it.
Found(c, n) ==
  head[c] \notin {n, NoNode} =>
    n \in From(head[c]) /\ \A p \in From(head[c]) : n \in From(p) => node[p].live

Before(c, n) ==
  IF head[c] \in {n, NoNode} THEN NoNode ELSE CHOOSE p \in From(head[c]) : node[p].next = n

\* What TlsFree does to the cells of every thread, and the destructor's entry.
KeyGone(k) ==
  /\ keys' = [keys EXCEPT ![k] = FALSE]
  /\ slot' = [x \in Child |-> [slot[x] EXCEPT ![k] = NoNode]]

\* The node is freed, its predecessor keeps pointing at it.
Unlink(c, n) ==
  /\ head' = [head EXCEPT ![c] = IF @ = n THEN node[n].next ELSE @]
  /\ tail' = [tail EXCEPT ![c] = IF @ = n THEN Before(c, n) ELSE @]
  /\ node' = [node EXCEPT ![n] = Freed]

\* A thread without a node for the key: the one that created the others.
MainDelete(k) ==
  /\ keys[k] /\ KeyGone(k)
  /\ meddled' = TRUE
  /\ UNCHANGED <<childAt, info, tssVars, cleanVars>>

TssDelete(c, k) ==
  LET n == slot[c][k]
  IN  /\ childAt[c] = "run" /\ keys[k]
      /\ \/ n = NoNode /\ KeyGone(k) /\ UNCHANGED <<childAt, head, tail, node>>
         \/ n # NoNode /\ Found(c, n) /\ KeyGone(k) /\ Unlink(c, n) /\ UNCHANGED childAt
         \/ /\ n # NoNode /\ ~Found(c, n)
            /\ childAt' = [childAt EXCEPT ![c] = "badList"]
            /\ UNCHANGED <<keys, slot, head, tail, node>>
      /\ marks' = [marks EXCEPT ![c] = @ \cup {"delete"}]
      /\ UNCHANGED <<info, made, cleanVars>>

\* The new node follows the tail, which stays where it is if there is one.
AppendNode(c, n, k, value, live) ==
  /\ node' = [x \in Node |->
       IF x = n THEN IF live THEN [key |-> k, value |-> value, next |-> NoNode, live |-> TRUE]
                     ELSE Freed
       ELSE IF x = tail[c] THEN [node[x] EXCEPT !.next = n]
       ELSE node[x]]
  /\ tail' = [tail EXCEPT ![c] = IF @ = NoNode THEN n ELSE @]
  /\ head' = [head EXCEPT ![c] = IF @ = NoNode THEN n ELSE @]
  /\ made' = [made EXCEPT ![c] = @ + 1]

TailLive(c) == tail[c] # NoNode => node[tail[c]].live

\* tss_set of a key the thread has no node for; TlsSetValue succeeds, or it
\* fails and the linked node is freed.
TssSetNew(c, k, value) ==
  LET n == <<c, made[c] + 1>>
  IN  /\ slot[c][k] = NoNode /\ made[c] < MaxNode /\ TailLive(c)
      /\ \/ /\ AppendNode(c, n, k, value, TRUE)
            /\ slot' = [slot EXCEPT ![c][k] = n]
            /\ marks' = IF made[c] < 2 THEN marks ELSE [marks EXCEPT ![c] = @ \cup {"third"}]
         \/ /\ AppendNode(c, n, k, FALSE, FALSE)
            /\ marks' = [marks EXCEPT ![c] = @ \cup {"fail"}]
            /\ UNCHANGED slot
      /\ UNCHANGED childAt

TssSetOld(c, k, value) ==
  /\ slot[c][k] # NoNode
  /\ node' = [node EXCEPT ![slot[c][k]].value = value]
  /\ UNCHANGED <<childAt, slot, head, tail, made, marks>>

TssSetFaults(c, k) ==
  /\ slot[c][k] = NoNode /\ made[c] < MaxNode /\ ~TailLive(c)
  /\ childAt' = [childAt EXCEPT ![c] = "badList"]
  /\ UNCHANGED <<slot, tssVars>>

\* A thread's function and the destructors call it.
TssSet(c, k) ==
  /\ childAt[c] \in {"run", "dtor"} /\ keys[k]
  /\ \/ \E value \in BOOLEAN : TssSetOld(c, k, value) \/ TssSetNew(c, k, value)
     \/ TssSetFaults(c, k)
  /\ UNCHANGED <<info, keys, cleanVars>>

-----------------------------------------------------------------------------
(* The end of a thread: _tinycthread_tss_cleanup and its two callers.      *)

\* The thread's function returns or calls thrd_exit.
\* _tinycthread_tss_callback makes the same test once more.
Cleanup(c, from, otherwise) ==
  /\ ThreadGo(c, from, IF head[c] # NoNode THEN "round" ELSE otherwise)
  /\ round' = [round EXCEPT ![c] = 0]
  /\ again' = [again EXCEPT ![c] = TRUE]
  /\ UNCHANGED <<info, keys, tssVars, visit>>

Return(c) == Cleanup(c, "run", "detach") /\ UNCHANGED slot
\* The cells of a thread end with it.
Callback(c) ==
  /\ Cleanup(c, "detach", "ended")
  /\ slot' = [slot EXCEPT ![c] = [k \in Key |-> NoNode]]

OnceMore(c) == again[c]   \* a mistaken MoreRounds
MoreRounds(c) == round[c] < Rounds /\ again[c]

Round(c) ==
  /\ ThreadGo(c, "round", IF MoreRounds(c) THEN "visit" ELSE "free")
  /\ IF MoreRounds(c)
     THEN /\ round' = [round EXCEPT ![c] = IF @ < Rounds THEN @ + 1 ELSE @]   \* no more are told apart
          /\ again' = [again EXCEPT ![c] = FALSE]
          /\ visit' = [visit EXCEPT ![c] = head[c]]
     ELSE UNCHANGED cleanVars
  /\ UNCHANGED <<info, keys, slot, tssVars>>

\* The body of the inner loop up to the test of the destructor.
Visit(c) ==
  LET n == visit[c]
      calls == n # NoNode /\ node[n].live /\ node[n].value /\ HasDtor(node[n].key)
  IN  /\ ThreadGo(c, "visit", IF n = NoNode THEN "round" ELSE IF ~node[n].live THEN "badList"
                              ELSE IF calls THEN "call" ELSE "visit")
      /\ node' = IF n = NoNode THEN node ELSE [node EXCEPT ![n].value = FALSE]
      /\ visit' = IF n = NoNode \/ calls THEN visit ELSE [visit EXCEPT ![c] = node[n].next]
      /\ again' = [again EXCEPT ![c] = @ \/ calls]
      /\ UNCHANGED <<info, keys, slot, head, tail, made, marks, round>>

\* The second read of _tinycthread_tss_dtors.
Call(c) ==
  /\ ThreadGo(c, "call", IF HasDtor(node[visit[c]].key) THEN "dtor" ELSE "badCall")
  /\ UNCHANGED <<info, keys, slot, tssVars, cleanVars>>

DtorReturns(c) ==
  /\ ThreadGo(c, "dtor", "visit")
  /\ visit' = [visit EXCEPT ![c] = node[visit[c]].next]
  /\ UNCHANGED <<info, keys, slot, tssVars, round, again>>

FreedHead(c) == {head[c]}   \* a mistaken FreedList
FreedList(c) == From(head[c])

HeadKept(c) == head[c]   \* a mistaken HeadAfterFree
HeadAfterFree(c) == NoNode

\* The last loop; no other thread can see the list.
Free(c) ==
  /\ childAt[c] = "free"
  /\ IF \A n \in From(head[c]) : node[n].live
     THEN /\ childAt' = [childAt EXCEPT ![c] = "detach"]
          /\ node' = [n \in Node |-> IF n \in FreedList(c) THEN Freed ELSE node[n]]
          /\ head' = [head EXCEPT ![c] = HeadAfterFree(c)]
          /\ tail' = [tail EXCEPT ![c] = NoNode]
     ELSE childAt' = [childAt EXCEPT ![c] = "badList"] /\ UNCHANGED <<node, head, tail>>
  /\ UNCHANGED <<info, keys, slot, made, marks, cleanVars>>

-----------------------------------------------------------------------------
\* Nothing is claimed of what happens after freed memory was read, or NULL
\* called.
Crashed == \E c \in Child : childAt[c] \in {"badList", "badCall"}

Ending(c) ==
  /\ \/ Return(c) \/ Callback(c) \/ Round(c) \/ Visit(c) \/ Call(c) \/ DtorReturns(c) \/ Free(c)
  /\ UNCHANGED meddled

ThreadNext ==
  /\ ~Crashed
  /\ \/ \E k \in Key : MainDelete(k) \/ TssCreate(k)
     \/ \E c \in Child :
          \/ Ending(c)
          \/ /\ \/ Create(c) \/ CreateThread(c) \/ CreateThreadFails(c) \/ Start(c) \/ Join(c)
                \/ \E k \in Key : TssDelete(c, k) \/ TssSet(c, k)
             /\ UNCHANGED meddled

\* A thread that has come to its end runs on, its destructors return.
ThreadFairness == \A c \in Child : WF_threadVars(~Crashed /\ Ending(c))
ThreadSpec == ThreadInit /\ [][ThreadNext]_threadVars /\ ThreadFairness

-----------------------------------------------------------------------------
(* Properties                                                              *)

\* A thread that has set at most two keys, deleted none and met no failure.
Simple(c) == marks[c] = {}

\* The keys under which a thread has a value that a destructor waits for.
Owed(c) == {k \in Key : HasDtor(k) /\ slot[c][k] # NoNode /\ node[slot[c][k]].value}

(***************************************************************************)
(* Whatever its destructors set anew and the main thread deletes, such a   *)
(* thread has given every value to its destructor before the nodes are     *)
(* freed, or gone all its rounds; and who joins it finds no node left.     *)
(* With a third key this is no longer so: see AppendNode.                  *)
(***************************************************************************)
JoinSeesClean ==
  \A c \in Child : Simple(c) =>
    /\ childAt[c] = "free" => Owed(c) = {} \/ round[c] = Rounds
    /\ childAt[c] = "joined" => \A n \in Node : n[1] = c => ~node[n].live

(***************************************************************************)
(* Freed nodes are read only by a thread that has itself deleted a key, or *)
(* for which TlsSetValue failed; NULL is called as a destructor only if    *)
(* another thread has deleted a key, between the test and the call.        *)
(***************************************************************************)
CrashesExplained ==
  \A c \in Child :
    /\ childAt[c] = "badList" => marks[c] \cap {"delete", "fail"} # {}
    /\ childAt[c] = "badCall" => meddled \/ \E d \in Child \ {c} : "delete" \in marks[d]

(***************************************************************************)
(* tss_delete "releases any resources used by the given thread-specific    *)
(* storage" (tinycthread.h:431-432), and what is released is not read      *)
(* again: here of a thread with two nodes, for which TlsSetValue never     *)
(* failed.  Does not hold: the predecessor keeps its pointer, see Unlink.  *)
(***************************************************************************)
DeletedNotRead ==
  \A c \in Child : childAt[c] = "badList" => marks[c] \cap {"fail", "third"} # {}

(***************************************************************************)
(* "Destructor function. This can be NULL." (tinycthread.h:419): the one   *)
(* that is called is not.  Does not hold: tss_delete in another thread     *)
(* clears the entry between the test and the call, see Call.               *)
(***************************************************************************)
NullNotCalled == \A c \in Child : childAt[c] # "badCall"

(***************************************************************************)
(* A thread ends, even if its destructors go on setting values: this is    *)
(* what TSS_DTOR_ITERATIONS is for.                                        *)
(***************************************************************************)
ThreadsEnd ==
  <>[](\A c \in Child : childAt[c] \notin {"round", "visit", "call", "dtor", "free"} \/ Crashed)

(***************************************************************************)
(* "the dtor will definitely be called when appropriate for threads        *)
(* created with thrd_create" (tinycthread.h:422-423), here of a thread     *)
(* that has deleted no key, met no failure and has rounds left.  Does not  *)
(* hold: the third node replaces the second, see AppendNode.               *)
(***************************************************************************)
DtorsCalled ==
  \A c \in Child :
    childAt[c] = "free" /\ marks[c] \subseteq {"third"} /\ round[c] < Rounds => Owed(c) = {}
=============================================================================
