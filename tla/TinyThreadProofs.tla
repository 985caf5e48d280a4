---------------------------- MODULE TinyThreadProofs ----------------------------
(***************************************************************************)
(* Proofs about TinyThread, for any numbers of threads, keys, nodes and    *)
(* rounds: who joins a thread finds its list freed and its values given to *)
(* the destructors, and freed memory is read only for a known reason.      *)
(* ThreadIInv is the inductive invariant.                                  *)
(***************************************************************************)
EXTENDS TinyThread, TLAPS, FiniteSetTheorems

-----------------------------------------------------------------------------
(* The inductive invariant.                                                *)

\* The nodes a thread has allocated, and the pointers it may have to them.
Made(c) == {n \in Node : n[1] = c /\ n[2] <= made[c]}
Ptr(c)  == Made(c) \cup {NoNode}

\* The nodes are a thread's own.  Those it has not allocated are not live, and
\* it allocates none before it runs.
OwnNodes(c) ==
  /\ head[c] \in Ptr(c) /\ tail[c] \in Ptr(c) /\ visit[c] \in Ptr(c)
  /\ \A k \in Key : slot[c][k] \in Ptr(c)
  /\ \A n \in Made(c) : node[n].next \in Ptr(c)
  /\ \A n \in Node : n[1] = c /\ n \notin Made(c) => ~node[n].live
  /\ childAt[c] \in {"none", "create", "failed", "start"} => made[c] = 0

\* From _tinycthread_tss_cleanup on a thread has no list.
NoList(c) == childAt[c] \in {"detach", "ended", "joined"}
ListGone(c) == NoList(c) => head[c] = NoNode

\* A thread that has deleted no key and met no failure reads only nodes that are
\* live: its list begins and, as the tail is never moved, ends with the first.
Clean(c) == marks[c] \cap {"delete", "fail"} = {}
Listed(c) == ~NoList(c) /\ childAt[c] \notin {"badList", "badCall"}
First(c) == IF made[c] = 0 THEN NoNode ELSE <<c, 1>>
CleanList(c) ==
  Clean(c) =>
    /\ childAt[c] # "badList"
    /\ Listed(c) => /\ head[c] = First(c) /\ tail[c] = First(c)
                    /\ \A n \in Made(c) : node[n].live

\* The list of a thread with at most two nodes is complete, and gone in the end;
\* those passed in a round in which no destructor was called have no value.
SimpleList(c) ==
  Simple(c) =>
    /\ made[c] <= 2
    /\ Listed(c) => /\ made[c] = 1 => node[<<c, 1>>].next = NoNode
                    /\ made[c] = 2 => /\ node[<<c, 1>>].next = <<c, 2>>
                                      /\ node[<<c, 2>>].next = NoNode
    /\ NoList(c) => \A n \in Made(c) : ~node[n].live

\* The visited part of the list.
Passed(c, n) ==
  \/ childAt[c] \in {"round", "free"}
  \/ childAt[c] = "visit" /\ (visit[c] # NoNode => n[2] < visit[c][2])
ValuesGiven(c) ==
  Simple(c) =>
    /\ childAt[c] \in {"call", "dtor"} => again[c]
    /\ ~again[c] => \A n \in Made(c) : Passed(c, n) => ~node[n].value
    /\ childAt[c] = "free" => ~again[c] \/ round[c] = Rounds

\* Who found a destructor is about to call it, unless another thread deleted the
\* key.
Meddled(c) == meddled \/ \E d \in Child \ {c} : "delete" \in marks[d]
CallExplained(c) ==
  /\ childAt[c] = "call" => HasDtor(node[visit[c]].key) \/ Meddled(c)
  /\ childAt[c] = "badCall" => Meddled(c)

ThreadInv(c) ==
  OwnNodes(c) /\ ListGone(c) /\ CleanList(c) /\ SimpleList(c) /\ ValuesGiven(c)

ThreadIInv ==
  /\ ThreadTypeOK
  /\ \A c \in Child : ThreadInv(c) /\ CallExplained(c)

-----------------------------------------------------------------------------
(* A walk along a list.                                                    *)

\* A set of numbers that has zero and with a number the next one has them all:
\* else those up to a missing one could be counted as one fewer.
LEMMA Induction ==
  ASSUME NEW S \in SUBSET Nat, 0 \in S, \A i \in S : i + 1 \in S
  PROVE  S = Nat
<1> SUFFICES ASSUME NEW m \in Nat, m \notin S PROVE FALSE
    OBVIOUS
<1> DEFINE A == S \cap (0 .. m)
           B == A \ {0}
           up == [x \in A |-> x + 1]
<1>1. IsFiniteSet(A) /\ IsFiniteSet(B)
      <2>1. IsFiniteSet(0 .. m)
            BY FS_Interval
      <2> QED
          BY <2>1, FS_Subset
<1>2. \A x \in A : x + 1 \in B
      OBVIOUS
<1>3. 0 \in A /\ A \in SUBSET Nat
      OBVIOUS
<1>4. Cardinality(B) = Cardinality(A) - 1 /\ Cardinality(A) \in Nat
      <2>1. Cardinality(A) \in Nat
            BY <1>1, FS_CardinalityType
      <2>2. Cardinality(A \ {0}) = Cardinality(A) - 1
            BY <1>1, <1>3, FS_RemoveElement
      <2> QED
          BY <2>1, <2>2
<1> HIDE DEF B, A
<1>5. up \in Injection(A, B)
      BY <1>2, <1>3 DEF Injection, IsInjective
<1>6. Cardinality(A) <= Cardinality(B)
      BY <1>1, <1>5, FS_Injection
<1> QED
    BY <1>4, <1>6

\* The next node of a walk, and the steps of one from n.
After(p) == IF p = NoNode THEN NoNode ELSE node[p].next
Walks(f, n, m) ==
  /\ f = [i \in 0 .. m |-> f[i]]
  /\ f[0] = n /\ \A i \in 1 .. m : f[i] = After(f[i - 1])
IsWalk(f, n) ==
  f = [i \in 0 .. MaxNode |-> IF i = 0 THEN n
                              ELSE IF f[i - 1] = NoNode THEN NoNode ELSE node[f[i - 1]].next]

\* From any node there is a walk of MaxNode steps: From means what it says.
LEMMA WalkExists ==
  ASSUME NEW n
  PROVE  \E f : IsWalk(f, n)
<1> DEFINE S == {m \in Nat : \E f : Walks(f, n, m)}
<1>1. 0 \in S
      <2> DEFINE g == [i \in 0 .. 0 |-> n]
      <2>1. Walks(g, n, 0)
            BY DEF Walks
      <2> QED
          BY <2>1
<1>2. ASSUME NEW m \in S PROVE m + 1 \in S
      <2>1. PICK f : Walks(f, n, m)
            OBVIOUS
      <2> DEFINE g == [i \in 0 .. m + 1 |-> IF i <= m THEN f[i] ELSE After(f[m])]
      <2>2. m \in Nat
            OBVIOUS
      <2>3. g = [i \in 0 .. m + 1 |-> g[i]] /\ g[0] = n
            BY <2>1, <2>2 DEF Walks
      <2>4. ASSUME NEW i \in 1 .. m + 1 PROVE g[i] = After(g[i - 1])
            <3>1. CASE i <= m
                  <4>1. i \in 1 .. m /\ i - 1 <= m /\ i - 1 \in 0 .. m + 1
                        BY <2>2, <3>1
                  <4>2. g[i] = f[i] /\ g[i - 1] = f[i - 1]
                        BY <2>2, <3>1, <4>1
                  <4> QED
                      BY <2>1, <4>1, <4>2 DEF Walks
            <3>2. CASE i = m + 1
                  BY <2>2, <3>2
            <3> QED
                BY <2>2, <3>1, <3>2
      <2> HIDE DEF g
      <2>5. Walks(g, n, m + 1)
            BY <2>3, <2>4 DEF Walks
      <2> QED
          BY <2>2, <2>5
<1> HIDE DEF S
<1>3. S = Nat
      BY <1>1, <1>2, Induction DEF S
<1>4. PICK f : Walks(f, n, MaxNode)
      BY <1>3, TinyThreadConstants DEF S
<1>5. \A i \in 0 .. MaxNode :
        f[i] = IF i = 0 THEN n ELSE IF f[i - 1] = NoNode THEN NoNode ELSE node[f[i - 1]].next
      <2> TAKE i \in 0 .. MaxNode
      <2>1. i = 0 \/ (i # 0 /\ i \in 1 .. MaxNode)
            BY TinyThreadConstants
      <2>2. f[0] = n /\ \A j \in 1 .. MaxNode : f[j] = After(f[j - 1])
            BY <1>4 DEF Walks
      <2> QED
          BY <2>1, <2>2 DEF After
<1>6. IsWalk(f, n)
      BY <1>4, <1>5 DEF IsWalk, Walks
<1> QED
    BY <1>6

\* From(n) is what a walk meets.
LEMMA FromWalk ==
  ASSUME NEW n
  PROVE  \E f : IsWalk(f, n) /\ From(n) = {f[i] : i \in 0 .. MaxNode} \ {NoNode}
<1> DEFINE step == CHOOSE f : IsWalk(f, n)
<1>1. IsWalk(step, n)
      BY WalkExists
<1>2. From(n) = {step[i] : i \in 0 .. MaxNode} \ {NoNode}
      BY DEF From, IsWalk
<1> QED
    BY <1>1, <1>2

\* A walk stays in any set that its start is in and its steps do not leave.
LEMMA WalkStays ==
  ASSUME NEW n, NEW f, IsWalk(f, n), NEW S, n \in S, \A p \in S : After(p) \in S
  PROVE  \A i \in 0 .. MaxNode : f[i] \in S
<1> DEFINE I == {i \in Nat : i <= MaxNode => f[i] \in S}
<1>1. MaxNode \in Nat
      BY TinyThreadConstants
<1>2. \A i \in 0 .. MaxNode : f[i] = IF i = 0 THEN n ELSE After(f[i - 1])
      BY DEF IsWalk, After
<1>3. 0 \in I
      BY <1>1, <1>2
<1>4. ASSUME NEW i \in I PROVE i + 1 \in I
      <2> SUFFICES ASSUME i + 1 <= MaxNode PROVE f[i + 1] \in S
          OBVIOUS
      <2>1. i \in Nat /\ f[i] \in S /\ i + 1 \in 0 .. MaxNode /\ (i + 1) - 1 = i /\ i + 1 # 0
            BY <1>1
      <2> QED
          BY <1>2, <2>1
<1>5. I = Nat
      <2> HIDE DEF I
      <2>1. I \in SUBSET Nat
            BY DEF I
      <2> QED
          BY <1>3, <1>4, <2>1, Induction
<1> QED
    BY <1>1, <1>5

\* What a walk meets, in a list whose nodes are all of one set.
LEMMA FromFacts ==
  ASSUME NEW n
  PROVE  /\ n # NoNode => n \in From(n)
         /\ \A S : n \in S /\ (\A p \in S : After(p) \in S) => From(n) \subseteq S
         /\ NoNode \notin From(n)
         /\ \A p \in From(n) : p # n => \E q \in From(n) : node[q].next = p
         /\ n # NoNode /\ 1 <= MaxNode /\ node[n].next # NoNode => node[n].next \in From(n)
<1>1. PICK f : IsWalk(f, n) /\ From(n) = {f[i] : i \in 0 .. MaxNode} \ {NoNode}
      BY FromWalk
<1>2. MaxNode \in Nat
      BY TinyThreadConstants
<1>3. \A i \in 0 .. MaxNode : f[i] = IF i = 0 THEN n ELSE After(f[i - 1])
      BY <1>1 DEF IsWalk, After
<1>4. f[0] = n
      BY <1>2, <1>3
<1>5. n # NoNode => n \in From(n)
      BY <1>1, <1>2, <1>4
<1>6. ASSUME NEW S, n \in S, \A p \in S : After(p) \in S PROVE From(n) \subseteq S
      BY <1>1, <1>6, WalkStays
<1>7. ASSUME NEW p \in From(n), p # n PROVE \E q \in From(n) : node[q].next = p
      <2>1. PICK i \in 0 .. MaxNode : f[i] = p /\ p # NoNode
            BY <1>1
      <2>2. i # 0
            BY <1>4, <1>7, <2>1
      <2>3. i - 1 \in 0 .. MaxNode /\ p = After(f[i - 1])
            BY <1>2, <1>3, <2>1, <2>2
      <2>4. f[i - 1] # NoNode /\ node[f[i - 1]].next = p
            BY <2>1, <2>3 DEF After
      <2> QED
          BY <1>1, <2>3, <2>4
<1>8. ASSUME n # NoNode, 1 <= MaxNode, node[n].next # NoNode PROVE node[n].next \in From(n)
      <2>1. 1 \in 0 .. MaxNode /\ f[1] = After(f[0])
            BY <1>2, <1>3, <1>8
      <2>2. f[1] = node[n].next
            BY <1>4, <1>8, <2>1 DEF After
      <2> QED
          BY <1>1, <1>8, <2>1, <2>2
<1> QED
    BY <1>1, <1>5, <1>6, <1>7, <1>8
-----------------------------------------------------------------------------
(* Threads and their nodes.                                                *)

\* The constants and the nodes, with a freed node among the values.
LEMMA NodeFacts ==
  /\ MaxNode \in Nat /\ Rounds \in Nat /\ NoNode \notin Node /\ Key \in SUBSET Nat
  /\ \A n \in Node : n[1] \in Child /\ n[2] \in 1 .. MaxNode /\ n = <<n[1], n[2]>>
  /\ \A c \in Child : \A i \in 1 .. MaxNode : <<c, i>> \in Node
  /\ Freed.key \in Key /\ Freed.value = FALSE /\ Freed.next = NoNode /\ Freed.live = FALSE
  /\ Freed \in [key : Key, value : BOOLEAN, next : Node \cup {NoNode}, live : BOOLEAN]
<1>1. (CHOOSE k \in Key : TRUE) \in Key
      BY TinyThreadConstants
<1> QED
    BY <1>1, TinyThreadConstants DEF Node, Freed

\* The variables one by one.
LEMMA TypeFacts ==
  ASSUME ThreadTypeOK, NEW c \in Child
  PROVE  /\ childAt[c] \in Place /\ info[c] \in {"none", "live", "freed"}
         /\ head[c] \in Node \cup {NoNode} /\ tail[c] \in Node \cup {NoNode}
         /\ visit[c] \in Node \cup {NoNode} /\ made[c] \in 0 .. MaxNode /\ made[c] \in Nat
         /\ \A k \in Key : slot[c][k] \in Node \cup {NoNode}
         /\ round[c] \in 0 .. Rounds /\ again[c] \in BOOLEAN
         /\ marks[c] \in SUBSET {"delete", "fail", "third"} /\ meddled \in BOOLEAN
         /\ childAt[c] \in {"call", "dtor"} => visit[c] # NoNode
BY NodeFacts DEF ThreadTypeOK

\* The fields of a node.
LEMMA NodeTypes ==
  ASSUME ThreadTypeOK, NEW n \in Node
  PROVE  /\ node[n].key \in Key /\ node[n].value \in BOOLEAN
         /\ node[n].next \in Node \cup {NoNode} /\ node[n].live \in BOOLEAN
BY DEF ThreadTypeOK

\* The nodes a thread has made.
LEMMA MadeFacts ==
  ASSUME NEW c \in Child
  PROVE  /\ Made(c) \in SUBSET Node /\ NoNode \notin Made(c)
         /\ \A n \in Node : n \in Made(c) <=> n[1] = c /\ n[2] <= made[c]
         /\ made[c] = 0 => Made(c) = {}
         /\ made[c] = 1 => Made(c) \subseteq {<<c, 1>>}
         /\ made[c] = 2 => Made(c) \subseteq {<<c, 1>>, <<c, 2>>}
BY NodeFacts DEF Made

\* A thread goes on to its next place, no other moves.
LEMMA ThreadGoes ==
  ASSUME ThreadTypeOK, NEW c \in Child, NEW from, NEW to \in Place, ThreadGo(c, from, to)
  PROVE  /\ childAt[c] = from /\ childAt'[c] = to
         /\ \A d \in Child : d # c => childAt'[d] = childAt[d]
         /\ childAt' \in [Child -> Place]
BY DEF ThreadTypeOK, ThreadGo

\* The types without the two facts that tie variables together.
Types ==
  /\ childAt \in [Child -> Place]
  /\ info \in [Child -> {"none", "live", "freed"}]
  /\ keys \in [Key -> BOOLEAN]
  /\ slot \in [Child -> [Key -> Node \cup {NoNode}]]
  /\ head \in [Child -> Node \cup {NoNode}] /\ tail \in [Child -> Node \cup {NoNode}]
  /\ node \in [Node -> [key : Key, value : BOOLEAN, next : Node \cup {NoNode}, live : BOOLEAN]]
  /\ made \in [Child -> 0 .. MaxNode]
  /\ visit \in [Child -> Node \cup {NoNode}]
  /\ round \in [Child -> 0 .. Rounds] /\ again \in [Child -> BOOLEAN]
  /\ marks \in [Child -> SUBSET {"delete", "fail", "third"}] /\ meddled \in BOOLEAN

InfoExact(c) == info[c] = "live" <=> childAt[c] \in {"create", "start"}
VisitExact(c) == childAt[c] \in {"call", "dtor"} => visit[c] # NoNode

\* The type invariant is the types and, for each thread, those two facts.
LEMMA TypeParts == ThreadTypeOK <=> Types /\ \A c \in Child : InfoExact(c) /\ VisitExact(c)
BY DEF ThreadTypeOK, Types, InfoExact, VisitExact

\* The same after a step.
LEMMA TypePartsNext == (ThreadTypeOK <=> Types /\ \A c \in Child : InfoExact(c) /\ VisitExact(c))'
BY DEF ThreadTypeOK, Types, InfoExact, VisitExact

-----------------------------------------------------------------------------
(* What a step leaves alone.                                               *)

\* A step of another thread: it may delete a key.
Keeps(d) ==
  /\ childAt'[d] = childAt[d] /\ info'[d] = info[d]
  /\ head'[d] = head[d] /\ tail'[d] = tail[d] /\ made'[d] = made[d] /\ marks'[d] = marks[d]
  /\ visit'[d] = visit[d] /\ round'[d] = round[d] /\ again'[d] = again[d]
  /\ \A n \in Node : n[1] = d => node'[n] = node[n]
  /\ \A k \in Key : slot'[d][k] \in {slot[d][k], NoNode}

\* A step that keeps a thread's state keeps what is known of the thread.
LEMMA Kept ==
  ASSUME ThreadTypeOK, NEW d \in Child, ThreadInv(d), Keeps(d)
  PROVE  ThreadInv(d)' /\ InfoExact(d)' /\ VisitExact(d)'
<1>1. /\ childAt'[d] = childAt[d] /\ info'[d] = info[d]
      /\ head'[d] = head[d] /\ tail'[d] = tail[d] /\ made'[d] = made[d] /\ marks'[d] = marks[d]
      /\ visit'[d] = visit[d] /\ round'[d] = round[d] /\ again'[d] = again[d]
      /\ \A n \in Node : n[1] = d => node'[n] = node[n]
      /\ \A k \in Key : slot'[d][k] \in {slot[d][k], NoNode}
      BY DEF Keeps
<1>2. /\ Made(d)' = Made(d) /\ Ptr(d)' = Ptr(d) /\ NoNode \in Ptr(d)
      /\ First(d)' = First(d) /\ (Simple(d)' <=> Simple(d)) /\ (Clean(d)' <=> Clean(d))
      /\ (NoList(d)' <=> NoList(d)) /\ (Listed(d)' <=> Listed(d))
      BY <1>1 DEF Made, Ptr, First, Simple, Clean, NoList, Listed
<1>3. \A n \in Made(d) : node'[n] = node[n] /\ (Passed(d, n)' <=> Passed(d, n))
      BY <1>1 DEF Made, Passed
<1>4. OwnNodes(d)'
      BY <1>1, <1>2, <1>3 DEF ThreadInv, OwnNodes
<1>5. ListGone(d)' /\ CleanList(d)'
      BY <1>1, <1>2, <1>3 DEF ThreadInv, ListGone, CleanList
<1>6. SimpleList(d)'
      <2>1. Simple(d) => (made[d] >= 1 => <<d, 1>> \in Made(d)) /\ (made[d] = 2 => <<d, 2>> \in Made(d))
            BY NodeFacts, TypeFacts, MadeFacts DEF Made
      <2> QED
          BY <1>1, <1>2, <1>3, <2>1 DEF ThreadInv, SimpleList
<1>7. ValuesGiven(d)'
      BY <1>1, <1>2, <1>3 DEF ThreadInv, ValuesGiven
<1> QED
    BY <1>1, <1>4, <1>5, <1>6, <1>7, TypeParts DEF ThreadInv, InfoExact, VisitExact

\* No new call of a destructor, and no key deleted.
LEMMA CallKept ==
  ASSUME ThreadTypeOK, NEW d \in Child, CallExplained(d), ThreadInv(d),
         childAt'[d] \in {"call", "badCall"} =>
           childAt'[d] = childAt[d] /\ visit'[d] = visit[d] /\ node'[visit[d]].key = node[visit[d]].key,
         Meddled(d) => Meddled(d)',
         \A k \in Key : (keys[k] => keys'[k]) \/ Meddled(d)'
  PROVE  CallExplained(d)'
<1>1. CASE childAt'[d] = "call"
      <2>1. /\ childAt[d] = "call" /\ visit'[d] = visit[d]
            /\ node'[visit[d]].key = node[visit[d]].key
            BY <1>1
      <2>2. visit[d] \in Node /\ node[visit[d]].key \in Key
            BY <2>1, TypeFacts, NodeTypes
      <2> QED
          BY <1>1, <2>1, <2>2 DEF CallExplained, HasDtor
<1>2. CASE childAt'[d] = "badCall"
      BY <1>2 DEF CallExplained
<1> QED
    BY <1>1, <1>2 DEF CallExplained

\* That somebody else has deleted a key stays true.
LEMMA MeddledKept ==
  ASSUME ThreadTypeOK, NEW d \in Child, Meddled(d), meddled => meddled',
         \A e \in Child : marks[e] \subseteq marks'[e]
  PROVE  Meddled(d)'
BY DEF Meddled

-----------------------------------------------------------------------------
(* Each step.                                                              *)

\* A step of thread c: what it must show.
LEMMA StepOf ==
  ASSUME ThreadIInv, NEW c \in Child, Types', InfoExact(c)', VisitExact(c)', ThreadInv(c)',
         \A d \in Child : d # c => Keeps(d),
         \A d \in Child : CallExplained(d)'
  PROVE  ThreadIInv'
<1>1. \A d \in Child : ThreadInv(d)' /\ InfoExact(d)' /\ VisitExact(d)'
      BY Kept DEF ThreadIInv
<1> QED
    BY <1>1, TypePartsNext DEF ThreadIInv

\* What is known before a step of thread c.
LEMMA StepFacts ==
  ASSUME ThreadIInv, NEW c \in Child
  PROVE  /\ ThreadTypeOK /\ Types /\ ThreadInv(c) /\ CallExplained(c)
         /\ InfoExact(c) /\ VisitExact(c)
         /\ OwnNodes(c) /\ ListGone(c) /\ CleanList(c) /\ SimpleList(c) /\ ValuesGiven(c)
BY TypeParts DEF ThreadIInv, ThreadInv

\* The thread is created, starts, ends, is joined; its nodes stay as they are.
\* The places and the start information such a step leaves and comes to.
MoveStep(c, from, to, i) ==
  /\ <<from, to, i>> \in {<<"none", "create", "live">>, <<"create", "start", "live">>,
                         <<"create", "failed", "freed">>, <<"start", "run", "freed">>,
                         <<"ended", "joined", "none">>, <<"ended", "joined", "freed">>}
  /\ ThreadGo(c, from, to) /\ info' = [info EXCEPT ![c] = i]
  /\ UNCHANGED <<keys, slot, tssVars, cleanVars>>

LEMMA MovesKept ==
  ASSUME ThreadIInv, NEW c \in Child, NEW from, NEW to, NEW i, MoveStep(c, from, to, i),
         UNCHANGED meddled
  PROVE  ThreadIInv'
<1>0. /\ \/ from = "none" /\ to = "create"
         \/ from = "create" /\ to \in {"start", "failed"}
         \/ from = "start" /\ to = "run"
         \/ from = "ended" /\ to = "joined"
      /\ i \in {"none", "live", "freed"} /\ ((i = "live") <=> (to \in {"create", "start"}))
      BY DEF MoveStep
<1> /\ ThreadGo(c, from, to) /\ info' = [info EXCEPT ![c] = i]
    /\ UNCHANGED <<keys, slot, tssVars, cleanVars>>
    BY DEF MoveStep
<1>1. ThreadTypeOK /\ Types
      BY StepFacts
<1>2. to \in Place
      BY <1>0 DEF Place
<1>3. /\ childAt[c] = from /\ childAt'[c] = to
      /\ \A d \in Child : d # c => childAt'[d] = childAt[d]
      /\ childAt' \in [Child -> Place]
      BY <1>1, <1>2, <1>0, ThreadGoes
<1>4. UNCHANGED <<keys, slot, head, tail, node, made, marks, visit, round, again, meddled>>
      BY DEF tssVars, cleanVars
<1>5. /\ info' \in [Child -> {"none", "live", "freed"}] /\ info'[c] = i
      /\ \A d \in Child : d # c => info'[d] = info[d]
      BY <1>0, <1>1 DEF Types
<1>6. Types' /\ InfoExact(c)' /\ VisitExact(c)'
      BY <1>0, <1>1, <1>3, <1>4, <1>5 DEF Types, InfoExact, VisitExact
<1>7. \A d \in Child : d # c => Keeps(d)
      BY <1>3, <1>4, <1>5 DEF Keeps
<1>8. \A d \in Child : CallExplained(d)'
      <2> TAKE d \in Child
      <2>1. Meddled(d) => Meddled(d)'
            BY <1>4 DEF Meddled
      <2> QED
          BY <1>0, <1>1, <1>3, <1>4, <2>1, CallKept DEF ThreadIInv
<1>9. ThreadInv(c)'
      <2>1. /\ Made(c)' = Made(c) /\ Ptr(c)' = Ptr(c) /\ First(c)' = First(c)
            /\ (NoList(c)' <=> NoList(c)) /\ (Listed(c)' <=> Listed(c))
            BY <1>0, <1>3, <1>4 DEF Made, Ptr, First, NoList, Listed
      <2>2. OwnNodes(c)'
            BY <1>0, <1>3, <1>4, <2>1, StepFacts DEF OwnNodes
      <2>3. ListGone(c)' /\ CleanList(c)' /\ SimpleList(c)'
            BY <1>0, <1>3, <1>4, <2>1, StepFacts DEF ListGone, CleanList, SimpleList, Clean, Simple
      <2>4. ValuesGiven(c)'
            BY <1>0, <1>3, <1>4, <2>1 DEF ValuesGiven, Passed
      <2> QED
          BY <2>2, <2>3, <2>4 DEF ThreadInv
<1> QED
    BY <1>6, <1>7, <1>8, <1>9, StepOf

\* Keys come and go at the main thread.
LEMMA MainKept ==
  ASSUME ThreadIInv, NEW k \in Key, MainDelete(k) \/ TssCreate(k)
  PROVE  ThreadIInv'
<1>1. ThreadTypeOK /\ Types
      BY TypeParts DEF ThreadIInv
<1>2. /\ UNCHANGED <<childAt, info, head, tail, node, made, marks, visit, round, again>>
      /\ \A d \in Child : \A l \in Key : slot'[d][l] \in {slot[d][l], NoNode}
      /\ slot' \in [Child -> [Key -> Node \cup {NoNode}]]
      <2>1. CASE MainDelete(k)
            BY <1>1, <2>1 DEF MainDelete, KeyGone, Types, tssVars, cleanVars
      <2>2. CASE TssCreate(k)
            BY <1>1, <2>2 DEF TssCreate, Types, tssVars, cleanVars
      <2> QED
          BY <2>1, <2>2
<1>3. /\ keys' \in [Key -> BOOLEAN] /\ meddled' \in BOOLEAN /\ (meddled => meddled')
      /\ meddled' \/ \A l \in Key : keys[l] => keys'[l]
      <2>1. CASE MainDelete(k)
            BY <1>1, <2>1 DEF MainDelete, KeyGone, Types
      <2>2. CASE TssCreate(k)
            BY <1>1, <2>2 DEF TssCreate, Types
      <2> QED
          BY <2>1, <2>2
<1>4. Types'
      BY <1>1, <1>2, <1>3 DEF Types
<1>5. \A d \in Child : ThreadInv(d)' /\ InfoExact(d)' /\ VisitExact(d)'
      <2> TAKE d \in Child
      <2>1. Keeps(d)
            BY <1>2 DEF Keeps
      <2> QED
          BY <2>1, Kept DEF ThreadIInv
<1>6. \A d \in Child : CallExplained(d)'
      <2> TAKE d \in Child
      <2>1. (Meddled(d) => Meddled(d)') /\ (meddled' => Meddled(d)')
            BY <1>2, <1>3 DEF Meddled
      <2> QED
          BY <1>1, <1>2, <1>3, <2>1, CallKept DEF ThreadIInv
<1> QED
    BY <1>4, <1>5, <1>6, TypePartsNext DEF ThreadIInv

\* A step of thread c changes no call of another.
LEMMA OtherCalls ==
  ASSUME ThreadIInv, NEW c \in Child, \A d \in Child : d # c => Keeps(d),
         UNCHANGED meddled, \A e \in Child : marks[e] \subseteq marks'[e],
         UNCHANGED keys \/ "delete" \in marks'[c]
  PROVE  \A d \in Child : d # c => CallExplained(d)'
<1> SUFFICES ASSUME NEW d \in Child, d # c PROVE CallExplained(d)'
    OBVIOUS
<1>1. ThreadTypeOK /\ ThreadInv(d) /\ CallExplained(d) /\ OwnNodes(d)
      BY StepFacts
<1>2. Keeps(d)
      OBVIOUS
<1>3. childAt'[d] = childAt[d] /\ visit'[d] = visit[d] /\ \A n \in Node : n[1] = d => node'[n] = node[n]
      BY <1>2 DEF Keeps
<1>4. childAt[d] = "call" => node'[visit[d]] = node[visit[d]]
      <2>1. childAt[d] = "call" => visit[d] \in Made(d)
            BY <1>1, TypeFacts DEF OwnNodes, Ptr
      <2> QED
          BY <1>3, <2>1, MadeFacts
<1>5. Meddled(d) => Meddled(d)'
      BY <1>1, MeddledKept
<1>6. UNCHANGED keys \/ Meddled(d)'
      BY DEF Meddled
<1>7. CASE childAt[d] = "call"
      BY <1>1, <1>3, <1>4, <1>5, <1>6, <1>7, CallKept
<1>8. CASE childAt[d] # "call"
      BY <1>3, <1>5, <1>8, <1>1 DEF CallExplained
<1> QED
    BY <1>7, <1>8

\* Of a thread that has deleted a key or met a failure only its nodes matter.
LEMMA NotClean ==
  ASSUME NEW c \in Child, ~Clean(c)', OwnNodes(c)', ListGone(c)'
  PROVE  ThreadInv(c)'
BY DEF ThreadInv, CleanList, SimpleList, ValuesGiven, Simple, Clean

\* The node for a deleted key leaves the list.
Unlinked(c, n) ==
  \/ /\ head' = [head EXCEPT ![c] = IF @ = n THEN node[n].next ELSE @]
     /\ tail' = [tail EXCEPT ![c] = IF @ = n THEN Before(c, n) ELSE @]
     /\ node' = [node EXCEPT ![n] = Freed]
     /\ n \in Made(c) /\ Found(c, n)
  \/ UNCHANGED <<head, tail, node>>

\* A thread's walk meets only nodes it has made.
LEMMA WalkOwn ==
  ASSUME ThreadIInv, NEW c \in Child
  PROVE  From(head[c]) \subseteq Made(c)
<1>1. OwnNodes(c)
      BY StepFacts
<1>2. \A p \in Ptr(c) : After(p) \in Ptr(c)
      BY <1>1 DEF OwnNodes, Ptr, After
<1>3. From(head[c]) \subseteq Ptr(c)
      BY <1>1, <1>2, FromFacts DEF OwnNodes
<1>4. NoNode \notin From(head[c])
      BY FromFacts
<1> QED
    BY <1>3, <1>4 DEF Ptr

\* tss_delete by a thread, with or without a node, found or not.
LEMMA DeleteKept ==
  ASSUME ThreadIInv, NEW c \in Child, NEW k \in Key, TssDelete(c, k), UNCHANGED meddled
  PROVE  ThreadIInv'
<1> DEFINE n == slot[c][k]
<1>1. ThreadTypeOK /\ Types /\ OwnNodes(c) /\ InfoExact(c)
      BY StepFacts
<1>2. n \in Ptr(c)
      BY <1>1 DEF OwnNodes
<1>3. /\ childAt[c] = "run" /\ UNCHANGED <<info, made, visit, round, again>>
      /\ marks' = [marks EXCEPT ![c] = @ \cup {"delete"}]
      BY DEF TssDelete, cleanVars
<1>4. \/ UNCHANGED childAt /\ KeyGone(k)
      \/ childAt' = [childAt EXCEPT ![c] = "badList"] /\ UNCHANGED <<keys, slot>>
      BY DEF TssDelete
<1>5. Unlinked(c, n)
      BY <1>2 DEF TssDelete, Unlink, Unlinked, Ptr
<1> HIDE DEF n
<1>6. /\ childAt' \in [Child -> Place] /\ childAt'[c] \in {"run", "badList"}
      /\ \A d \in Child : d # c => childAt'[d] = childAt[d]
      BY <1>1, <1>3, <1>4 DEF Types, Place
<1>7. /\ slot' \in [Child -> [Key -> Node \cup {NoNode}]]
      /\ \A d \in Child : \A l \in Key : slot'[d][l] \in {slot[d][l], NoNode}
      <2>1. CASE KeyGone(k)
            BY <1>1, <2>1 DEF KeyGone, Types
      <2>2. CASE UNCHANGED slot
            BY <1>1, <2>2 DEF Types
      <2> QED
          BY <1>4, <2>1, <2>2
<1>8. keys' \in [Key -> BOOLEAN]
      BY <1>1, <1>4 DEF KeyGone, Types
<1>9. /\ marks' \in [Child -> SUBSET {"delete", "fail", "third"}]
      /\ "delete" \in marks'[c] /\ \A d \in Child : d # c => marks'[d] = marks[d]
      BY <1>1, <1>3 DEF Types
<1>10. /\ head' \in [Child -> Node \cup {NoNode}] /\ head'[c] \in Ptr(c)
       /\ tail' \in [Child -> Node \cup {NoNode}] /\ tail'[c] \in Ptr(c)
       /\ \A d \in Child : d # c => head'[d] = head[d] /\ tail'[d] = tail[d]
       <2>1. Ptr(c) \subseteq Node \cup {NoNode} /\ NoNode \in Ptr(c)
             BY MadeFacts DEF Ptr
       <2>2. CASE UNCHANGED <<head, tail>>
             BY <1>1, <2>2 DEF Types, OwnNodes
       <2>3. CASE ~UNCHANGED <<head, tail>>
             <3>1. /\ head' = [head EXCEPT ![c] = IF @ = n THEN node[n].next ELSE @]
                   /\ tail' = [tail EXCEPT ![c] = IF @ = n THEN Before(c, n) ELSE @]
                   /\ n \in Made(c) /\ Found(c, n)
                   BY <1>5, <2>3 DEF Unlinked
             <3>2. node[n].next \in Ptr(c) /\ head[c] \in Ptr(c) /\ tail[c] \in Ptr(c)
                   BY <1>1, <3>1 DEF OwnNodes
             <3>3. Before(c, n) \in Ptr(c)
                   <4>1. CASE head[c] \in {n, NoNode}
                         BY <2>1, <4>1 DEF Before
                   <4>2. CASE head[c] \notin {n, NoNode}
                         <5>1. \E p \in From(head[c]) : node[p].next = n
                               BY <3>1, <4>2, FromFacts DEF Found
                         <5>2. Before(c, n) \in From(head[c])
                               BY <4>2, <5>1 DEF Before
                         <5> QED
                             BY <5>2, WalkOwn DEF Ptr
                   <4> QED
                       BY <4>1, <4>2
             <3> QED
                 BY <1>1, <2>1, <3>1, <3>2, <3>3 DEF Types
       <2> QED
           BY <2>2, <2>3
<1>11. /\ node' \in [Node -> [key : Key, value : BOOLEAN, next : Node \cup {NoNode}, live : BOOLEAN]]
       /\ \A x \in Node : node'[x] = node[x] \/ (x \in Made(c) /\ node'[x] = Freed)
       <2>1. CASE UNCHANGED node
             BY <1>1, <2>1 DEF Types
       <2>2. CASE node' = [node EXCEPT ![n] = Freed] /\ n \in Made(c)
             BY <1>1, <2>2, NodeFacts, MadeFacts DEF Types
       <2> QED
           BY <1>5, <2>1, <2>2 DEF Unlinked
<1>12. Types'
       BY <1>1, <1>3, <1>6, <1>7, <1>8, <1>9, <1>10, <1>11 DEF Types
<1>13. InfoExact(c)' /\ VisitExact(c)'
       BY <1>1, <1>3, <1>6 DEF InfoExact, VisitExact
<1>14. \A d \in Child : d # c => Keeps(d)
       BY <1>3, <1>6, <1>7, <1>9, <1>10, <1>11, MadeFacts DEF Keeps
<1>15. ThreadInv(c)'
       <2>1. Made(c)' = Made(c) /\ Ptr(c)' = Ptr(c) /\ NoNode \in Ptr(c)
             BY <1>3 DEF Made, Ptr
       <2>2. OwnNodes(c)'
             <3>1. \A x \in Made(c) : node'[x].next \in Ptr(c)
                   BY <1>1, <1>11, <2>1, NodeFacts, MadeFacts DEF OwnNodes
             <3>2. \A x \in Node : x[1] = c /\ x \notin Made(c) => ~node'[x].live
                   BY <1>1, <1>11 DEF OwnNodes
             <3>3. \A l \in Key : slot'[c][l] \in Ptr(c)
                   BY <1>1, <1>7, <2>1 DEF OwnNodes
             <3> QED
                 BY <1>1, <1>3, <1>6, <1>10, <2>1, <3>1, <3>2, <3>3 DEF OwnNodes
       <2>3. ListGone(c)' /\ ~Clean(c)'
             BY <1>6, <1>9 DEF ListGone, NoList, Clean
       <2> QED
           BY <2>2, <2>3, NotClean
<1>16. \A d \in Child : CallExplained(d)'
       <2>1. \A e \in Child : marks[e] \subseteq marks'[e]
             BY <1>1, <1>3 DEF Types
       <2>2. CallExplained(c)'
             BY <1>6 DEF CallExplained
       <2> QED
           BY <1>9, <1>14, <2>1, <2>2, OtherCalls
<1> QED
    BY <1>12, <1>13, <1>14, <1>15, <1>16, StepOf

\* A new node becomes the tail's next, or the list's first; it may be freed again
\* where it is.
Appended(c, n, live) ==
  /\ node' \in [Node -> [key : Key, value : BOOLEAN, next : Node \cup {NoNode}, live : BOOLEAN]]
  /\ node'[n].next = NoNode /\ node'[n].live = live
  /\ \A x \in Node \ {n} :
       /\ node'[x].key = node[x].key /\ node'[x].value = node[x].value
       /\ node'[x].live = node[x].live
       /\ node'[x].next = IF x = tail[c] THEN n ELSE node[x].next
       /\ x[1] # c => node'[x] = node[x]
  /\ tail' = [tail EXCEPT ![c] = IF @ = NoNode THEN n ELSE @]
  /\ head' = [head EXCEPT ![c] = IF @ = NoNode THEN n ELSE @]
  /\ made' = [made EXCEPT ![c] = @ + 1]

\* AppendNode appends.
LEMMA AppendAppends ==
  ASSUME ThreadTypeOK, NEW c \in Child, OwnNodes(c), NEW n \in Node, NEW k \in Key,
         NEW value \in BOOLEAN, NEW live \in BOOLEAN, AppendNode(c, n, k, value, live)
  PROVE  Appended(c, n, live)
<1>1. tail[c] # NoNode => tail[c][1] = c
      BY MadeFacts DEF OwnNodes, Ptr
<1>2. node \in [Node -> [key : Key, value : BOOLEAN, next : Node \cup {NoNode}, live : BOOLEAN]]
      BY DEF ThreadTypeOK
<1>3. node' = [x \in Node |->
         IF x = n THEN IF live THEN [key |-> k, value |-> value, next |-> NoNode, live |-> TRUE]
                       ELSE Freed
         ELSE IF x = tail[c] THEN [node[x] EXCEPT !.next = n]
         ELSE node[x]]
      BY DEF AppendNode
<1>4. node'[n] = IF live THEN [key |-> k, value |-> value, next |-> NoNode, live |-> TRUE]
                 ELSE Freed
      BY <1>3
<1>5. \A x \in Node \ {n} : node'[x] = IF x = tail[c] THEN [node[x] EXCEPT !.next = n] ELSE node[x]
      BY <1>3
<1>6. node'[n].next = NoNode /\ node'[n].live = live
      <2>1. CASE live
            BY <1>4, <2>1
      <2>2. CASE ~live
            BY <1>4, <2>2, NodeFacts
      <2> QED
          BY <2>1, <2>2
<1>7. ASSUME NEW x \in Node \ {n}
      PROVE  /\ node'[x].key = node[x].key /\ node'[x].value = node[x].value
             /\ node'[x].live = node[x].live
             /\ node'[x].next = IF x = tail[c] THEN n ELSE node[x].next
             /\ x[1] # c => node'[x] = node[x]
      <2>1. CASE x = tail[c]
            BY <1>1, <1>2, <1>5, <2>1, NodeFacts
      <2>2. CASE x # tail[c]
            BY <1>5, <2>2
      <2> QED
          BY <2>1, <2>2
<1>8. \A x \in Node : node'[x] \in [key : Key, value : BOOLEAN, next : Node \cup {NoNode}, live : BOOLEAN]
      <2> TAKE x \in Node
      <2>1. CASE x = n
            <3>1. [key |-> k, value |-> value, next |-> NoNode, live |-> TRUE]
                    \in [key : Key, value : BOOLEAN, next : Node \cup {NoNode}, live : BOOLEAN]
                  OBVIOUS
            <3> QED
                BY <1>4, <2>1, <3>1, NodeFacts
      <2>2. CASE x # n /\ x = tail[c]
            BY <1>2, <1>5, <2>2
      <2>3. CASE x # n /\ x # tail[c]
            BY <1>2, <1>5, <2>3
      <2> QED
          BY <2>1, <2>2, <2>3
<1>9. node' \in [Node -> [key : Key, value : BOOLEAN, next : Node \cup {NoNode}, live : BOOLEAN]]
      BY <1>3, <1>8
<1> QED
    BY <1>6, <1>7, <1>9 DEF AppendNode, Appended

\* tss_set of a key that has no node yet; TlsSetValue may fail.
LEMMA SetNewKept ==
  ASSUME ThreadIInv, NEW c \in Child, childAt[c] \in {"run", "dtor"}, NEW k \in Key,
         NEW value \in BOOLEAN, TssSetNew(c, k, value), UNCHANGED <<info, keys, cleanVars, meddled>>
  PROVE  ThreadIInv'
<1> DEFINE n == <<c, made[c] + 1>>
<1>1. /\ ThreadTypeOK /\ Types /\ OwnNodes(c) /\ InfoExact(c) /\ VisitExact(c)
      /\ CleanList(c) /\ SimpleList(c) /\ ValuesGiven(c)
      BY StepFacts
<1>2. /\ made[c] < MaxNode /\ made[c] \in Nat /\ n \in Node /\ n \notin Made(c)
      /\ n[1] = c /\ n[2] = made[c] + 1
      BY <1>1, TypeFacts, NodeFacts, MadeFacts DEF TssSetNew
<1>3. /\ UNCHANGED <<childAt, info, keys, visit, round, again, meddled>>
      BY DEF TssSetNew, cleanVars
<1>4. PICK live \in BOOLEAN :
        /\ Appended(c, n, live)
        /\ live => /\ slot' = [slot EXCEPT ![c][k] = n]
                   /\ marks' = IF made[c] < 2 THEN marks ELSE [marks EXCEPT ![c] = @ \cup {"third"}]
        /\ ~live => /\ slot' = slot
                    /\ marks' = [marks EXCEPT ![c] = @ \cup {"fail"}]
      <2>1. CASE /\ AppendNode(c, n, k, value, TRUE)
                 /\ slot' = [slot EXCEPT ![c][k] = n]
                 /\ marks' = IF made[c] < 2 THEN marks ELSE [marks EXCEPT ![c] = @ \cup {"third"}]
            BY <1>1, <1>2, <2>1, AppendAppends
      <2>2. CASE /\ AppendNode(c, n, k, FALSE, FALSE)
                 /\ marks' = [marks EXCEPT ![c] = @ \cup {"fail"}]
                 /\ slot' = slot
            BY <1>1, <1>2, <2>2, AppendAppends
      <2> QED
          BY <2>1, <2>2 DEF TssSetNew
<1> HIDE DEF n
<1>5. /\ tail' \in [Child -> Node \cup {NoNode}] /\ head' \in [Child -> Node \cup {NoNode}]
      /\ made' \in [Child -> 0 .. MaxNode]
      /\ tail'[c] = IF tail[c] = NoNode THEN n ELSE tail[c]
      /\ head'[c] = IF head[c] = NoNode THEN n ELSE head[c]
      /\ made'[c] = made[c] + 1
      /\ \A d \in Child : d # c => tail'[d] = tail[d] /\ head'[d] = head[d] /\ made'[d] = made[d]
      <2>1. /\ tail' = [tail EXCEPT ![c] = IF @ = NoNode THEN n ELSE @]
            /\ head' = [head EXCEPT ![c] = IF @ = NoNode THEN n ELSE @]
            /\ made' = [made EXCEPT ![c] = @ + 1]
            BY <1>4 DEF Appended
      <2>2. made[c] + 1 \in 0 .. MaxNode
            BY <1>2, NodeFacts
      <2> QED
          BY <1>1, <1>2, <2>1, <2>2 DEF Types
<1>6. /\ marks' \in [Child -> SUBSET {"delete", "fail", "third"}]
      /\ \A d \in Child : d # c => marks'[d] = marks[d]
      /\ marks[c] \subseteq marks'[c]
      /\ marks'[c] = {} => made[c] < 2
      /\ ~live => "fail" \in marks'[c]
      <2>1. CASE marks' = marks /\ live /\ made[c] < 2
            BY <1>1, <2>1 DEF Types
      <2>2. CASE marks' = [marks EXCEPT ![c] = @ \cup {"third"}] /\ live
            BY <1>1, <2>2 DEF Types
      <2>3. CASE marks' = [marks EXCEPT ![c] = @ \cup {"fail"}]
            BY <1>1, <2>3 DEF Types
      <2> QED
          BY <1>4, <2>1, <2>2, <2>3
<1>7. /\ slot' \in [Child -> [Key -> Node \cup {NoNode}]]
      /\ \A d \in Child : d # c => slot'[d] = slot[d]
      /\ \A l \in Key : slot'[c][l] \in {slot[c][l], n}
      <2>1. CASE slot' = slot
            BY <1>1, <2>1 DEF Types
      <2>2. CASE slot' = [slot EXCEPT ![c][k] = n]
            BY <1>1, <1>2, <2>2 DEF Types
      <2> QED
          BY <1>4, <2>1, <2>2
<1>8. /\ node' \in [Node -> [key : Key, value : BOOLEAN, next : Node \cup {NoNode}, live : BOOLEAN]]
      /\ node'[n].next = NoNode /\ node'[n].live = live
      /\ \A x \in Node \ {n} :
            /\ node'[x].key = node[x].key /\ node'[x].live = node[x].live
            /\ node'[x].next = IF x = tail[c] THEN n ELSE node[x].next
            /\ x[1] # c => node'[x] = node[x]
      BY <1>4 DEF Appended
<1>9. Types'
      BY <1>1, <1>3, <1>5, <1>6, <1>7, <1>8 DEF Types
<1>10. InfoExact(c)' /\ VisitExact(c)'
       BY <1>1, <1>3 DEF InfoExact, VisitExact
<1>11. \A d \in Child : d # c => Keeps(d)
       BY <1>2, <1>3, <1>5, <1>6, <1>7, <1>8 DEF Keeps
<1>12. \A d \in Child : CallExplained(d)'
       <2>1. CallExplained(c)'
             BY <1>3 DEF CallExplained
       <2>2. \A e \in Child : marks[e] \subseteq marks'[e]
             BY <1>6
       <2> QED
           BY <1>3, <1>11, <2>1, <2>2, OtherCalls
<1>13. /\ Made(c)' = Made(c) \cup {n} /\ Ptr(c)' = Ptr(c) \cup {n}
       /\ \A x \in Node : x[1] = c => (x \in Made(c)' <=> x \in Made(c) \/ x = n)
       <2>1. \A x \in Node : x[1] = c => (x[2] <= made[c] + 1 <=> x[2] <= made[c] \/ x = n)
             <3> TAKE x \in Node
             <3>1. x[2] \in Nat /\ x = <<x[1], x[2]>>
                   BY NodeFacts
             <3> QED
                 BY <1>2, <3>1 DEF n
       <2>2. Made(c)' = Made(c) \cup {n}
             BY <1>2, <1>5, <2>1 DEF Made
       <2> QED
           BY <1>2, <2>2 DEF Ptr, Made
<1>14. OwnNodes(c)'
       <2>1. \A x \in Made(c)' : node'[x].next \in Ptr(c)'
             BY <1>1, <1>8, <1>13, MadeFacts DEF OwnNodes, Ptr
       <2>2. \A x \in Node : x[1] = c /\ x \notin Made(c)' => ~node'[x].live
             BY <1>1, <1>8, <1>13 DEF OwnNodes
       <2>3. \A l \in Key : slot'[c][l] \in Ptr(c)'
             BY <1>1, <1>7, <1>13 DEF OwnNodes
       <2> QED
           BY <1>1, <1>3, <1>5, <1>13, <2>1, <2>2, <2>3 DEF OwnNodes
<1>15. ListGone(c)' /\ Listed(c)' /\ ~NoList(c)' /\ Listed(c) /\ childAt'[c] # "badList"
       BY <1>3 DEF ListGone, Listed, NoList
<1>16. CleanList(c)'
       <2> SUFFICES ASSUME Clean(c)'
                    PROVE  /\ head'[c] = First(c)' /\ tail'[c] = First(c)'
                           /\ \A x \in Made(c)' : node'[x].live
           BY <1>15 DEF CleanList
       <2>1. live /\ Clean(c)
             BY <1>6 DEF Clean
       <2>2. head[c] = First(c) /\ tail[c] = First(c) /\ \A x \in Made(c) : node[x].live
             BY <1>1, <1>15, <2>1 DEF CleanList
       <2>3. \A x \in Made(c)' : node'[x].live
             BY <1>2, <1>8, <1>13, <2>1, <2>2, MadeFacts
       <2>4. First(c)' = <<c, 1>>
             BY <1>2, <1>5 DEF First
       <2>5. CASE made[c] = 0
             BY <1>5, <2>2, <2>3, <2>4, <2>5 DEF First, n
       <2>6. CASE made[c] # 0
             <3>1. First(c) = <<c, 1>> /\ <<c, 1>> # NoNode
                   BY <1>2, <2>6, NodeFacts DEF First
             <3> QED
                 BY <1>5, <2>2, <2>3, <2>4, <3>1
       <2> QED
           BY <2>5, <2>6
<1>17. SimpleList(c)'
       <2> SUFFICES ASSUME Simple(c)'
                    PROVE  /\ made'[c] <= 2
                           /\ made'[c] = 1 => node'[<<c, 1>>].next = NoNode
                           /\ made'[c] = 2 => /\ node'[<<c, 1>>].next = <<c, 2>>
                                              /\ node'[<<c, 2>>].next = NoNode
           BY <1>15 DEF SimpleList
       <2>1. live /\ Clean(c) /\ Simple(c) /\ made[c] < 2
             BY <1>6 DEF Clean, Simple
       <2>2. tail[c] = First(c)
             BY <1>1, <1>15, <2>1 DEF CleanList
       <2>3. CASE made[c] = 0
             BY <1>5, <1>8, <2>3 DEF n
       <2>4. CASE made[c] = 1
             <3>1. n = <<c, 2>> /\ tail[c] = <<c, 1>> /\ <<c, 1>> \in Node \ {n}
                   BY <1>2, <2>2, <2>4, NodeFacts DEF First, n
             <3> QED
                 BY <1>5, <1>8, <2>4, <3>1
       <2> QED
           BY <1>2, <2>1, <2>3, <2>4
<1>18. ValuesGiven(c)'
       <2>1. Simple(c)' => Simple(c)
             BY <1>6 DEF Simple
       <2> QED
           BY <1>1, <1>3, <2>1 DEF ValuesGiven, Passed
<1> QED
    BY <1>9, <1>10, <1>11, <1>12, <1>14, <1>15, <1>16, <1>17, <1>18, StepOf DEF ThreadInv

\* What a step of a thread that runs must show, if it deletes no key.
LEMMA RunStep ==
  ASSUME ThreadIInv, NEW c \in Child, Types', UNCHANGED <<info, keys, marks, meddled>>,
         childAt[c] \notin {"create", "start"}, childAt'[c] \notin {"create", "start"},
         VisitExact(c)', ThreadInv(c)', CallExplained(c)',
         \A d \in Child : d # c => Keeps(d)
  PROVE  ThreadIInv'
<1>1. InfoExact(c)'
      BY StepFacts DEF InfoExact
<1>2. \A d \in Child : CallExplained(d)'
      BY OtherCalls
<1> QED
    BY <1>1, <1>2, StepOf

\* The node's value is changed.
Valued(n, value) ==
  /\ node' \in [Node -> [key : Key, value : BOOLEAN, next : Node \cup {NoNode}, live : BOOLEAN]]
  /\ node'[n].value = value
  /\ \A x \in Node :
       /\ node'[x].key = node[x].key /\ node'[x].next = node[x].next
       /\ node'[x].live = node[x].live
       /\ x # n => node'[x] = node[x]

\* Giving a node a value changes nothing else of it.
LEMMA ValuedValues ==
  ASSUME ThreadTypeOK, NEW n \in Node, NEW value \in BOOLEAN,
         node' = [node EXCEPT ![n].value = value]
  PROVE  Valued(n, value)
<1>1. node \in [Node -> [key : Key, value : BOOLEAN, next : Node \cup {NoNode}, live : BOOLEAN]]
      BY DEF ThreadTypeOK
<1>2. node' = [node EXCEPT ![n] = [node[n] EXCEPT !.value = value]]
      OBVIOUS
<1>3. /\ [node[n] EXCEPT !.value = value] \in
           [key : Key, value : BOOLEAN, next : Node \cup {NoNode}, live : BOOLEAN]
      /\ node'[n] = [node[n] EXCEPT !.value = value]
      /\ \A x \in Node : x # n => node'[x] = node[x]
      BY <1>1, <1>2
<1>4. node' \in [Node -> [key : Key, value : BOOLEAN, next : Node \cup {NoNode}, live : BOOLEAN]]
      BY <1>1, <1>2, <1>3
<1>5. /\ node'[n].value = value /\ node'[n].key = node[n].key
      /\ node'[n].next = node[n].next /\ node'[n].live = node[n].live
      BY <1>1, <1>3
<1> QED
    BY <1>3, <1>4, <1>5 DEF Valued

\* With a node's value the thread's list stays as it is.
LEMMA ListKept ==
  ASSUME ThreadIInv, NEW c \in Child,
         \A x \in Made(c) : node'[x].next = node[x].next /\ node'[x].live = node[x].live,
         \A x \in Node : x[1] = c /\ x \notin Made(c) => node'[x].live = node[x].live,
         UNCHANGED <<head, tail, made, marks>>,
         visit'[c] \in Ptr(c), \A k \in Key : slot'[c][k] \in Ptr(c),
         Listed(c), Listed(c)', childAt'[c] \notin {"none", "create", "failed", "start"}
  PROVE  OwnNodes(c)' /\ ListGone(c)' /\ CleanList(c)' /\ SimpleList(c)'
<1>1. OwnNodes(c) /\ CleanList(c) /\ SimpleList(c) /\ ThreadTypeOK
      BY StepFacts
<1>2. Made(c)' = Made(c) /\ Ptr(c)' = Ptr(c) /\ First(c)' = First(c)
      BY DEF Made, Ptr, First
<1>3. OwnNodes(c)'
      BY <1>1, <1>2 DEF OwnNodes
<1>4. ListGone(c)' /\ ~NoList(c)' /\ childAt'[c] # "badList"
      BY DEF Listed, ListGone
<1>5. CleanList(c)'
      BY <1>1, <1>2, <1>4 DEF CleanList, Clean
<1>6. SimpleList(c)'
      <2>1. (made[c] >= 1 /\ made[c] <= 2 => <<c, 1>> \in Made(c)) /\ (made[c] = 2 => <<c, 2>> \in Made(c))
            BY <1>1, TypeFacts, NodeFacts DEF Made
      <2> QED
          BY <1>1, <1>2, <1>4, <2>1 DEF SimpleList, Simple
<1> QED
    BY <1>3, <1>4, <1>5, <1>6

\* tss_set of a key that has a node.
LEMMA SetOldKept ==
  ASSUME ThreadIInv, NEW c \in Child, childAt[c] \in {"run", "dtor"}, NEW k \in Key,
         NEW value \in BOOLEAN, TssSetOld(c, k, value), UNCHANGED <<info, keys, cleanVars, meddled>>
  PROVE  ThreadIInv'
<1> DEFINE n == slot[c][k]
<1>1. ThreadTypeOK /\ Types /\ OwnNodes(c) /\ VisitExact(c) /\ ValuesGiven(c)
      BY StepFacts
<1>2. n \in Made(c) /\ n \in Node /\ n[1] = c
      BY <1>1, MadeFacts DEF TssSetOld, OwnNodes, Ptr
<1>3. UNCHANGED <<childAt, info, keys, slot, head, tail, made, marks, visit, round, again, meddled>>
      BY DEF TssSetOld, cleanVars
<1>4. Valued(n, value)
      BY <1>1, <1>2, ValuedValues DEF TssSetOld
<1> HIDE DEF n
<1>5. Types'
      BY <1>1, <1>3, <1>4 DEF Types, Valued
<1>6. \A d \in Child : d # c => Keeps(d)
      BY <1>2, <1>3, <1>4 DEF Keeps, Valued
<1>7. VisitExact(c)' /\ CallExplained(c)'
      BY <1>1, <1>3 DEF VisitExact, CallExplained
<1>8. Listed(c) /\ Listed(c)'
      BY <1>3 DEF Listed, NoList
<1>9. OwnNodes(c)' /\ ListGone(c)' /\ CleanList(c)' /\ SimpleList(c)'
      BY <1>1, <1>3, <1>4, <1>8, MadeFacts, ListKept DEF Valued, OwnNodes
<1>10. ValuesGiven(c)'
       BY <1>1, <1>3 DEF ValuesGiven, Passed, Simple
<1> QED
    BY <1>3, <1>5, <1>6, <1>7, <1>9, <1>10, RunStep DEF ThreadInv

\* tss_set that writes to a freed tail.
LEMMA SetFaultsKept ==
  ASSUME ThreadIInv, NEW c \in Child, childAt[c] \in {"run", "dtor"}, NEW k \in Key,
         TssSetFaults(c, k), UNCHANGED <<info, keys, cleanVars, meddled>>
  PROVE  ThreadIInv'
<1>1. ThreadTypeOK /\ Types /\ OwnNodes(c) /\ CleanList(c)
      BY StepFacts
<1>2. /\ UNCHANGED <<info, keys, slot, head, tail, node, made, marks, visit, round, again, meddled>>
      /\ childAt' = [childAt EXCEPT ![c] = "badList"]
      BY DEF TssSetFaults, tssVars, cleanVars
<1>3. /\ childAt' \in [Child -> Place] /\ childAt'[c] = "badList"
      /\ \A d \in Child : d # c => childAt'[d] = childAt[d]
      BY <1>1, <1>2 DEF Types, Place
<1>4. ~Clean(c)
      <2>1. tail[c] \in Made(c) /\ ~node[tail[c]].live
            BY <1>1 DEF TssSetFaults, TailLive, OwnNodes, Ptr
      <2> QED
          BY <1>1, <2>1 DEF CleanList, Listed, NoList
<1>5. Types'
      BY <1>1, <1>2, <1>3 DEF Types
<1>6. \A d \in Child : d # c => Keeps(d)
      BY <1>2, <1>3 DEF Keeps
<1>7. VisitExact(c)' /\ CallExplained(c)'
      BY <1>3 DEF VisitExact, CallExplained
<1>8. ThreadInv(c)'
      <2>1. Made(c)' = Made(c) /\ Ptr(c)' = Ptr(c)
            BY <1>2 DEF Made, Ptr
      <2>2. OwnNodes(c)' /\ ListGone(c)' /\ ~Clean(c)'
            BY <1>1, <1>2, <1>3, <1>4, <2>1 DEF OwnNodes, ListGone, NoList, Clean
      <2> QED
          BY <2>2, NotClean
<1> QED
    BY <1>2, <1>3, <1>5, <1>6, <1>7, <1>8, RunStep

\* tss_set, from a thread's function or from a destructor.
LEMMA SetKept ==
  ASSUME ThreadIInv, NEW c \in Child, NEW k \in Key, TssSet(c, k), UNCHANGED meddled
  PROVE  ThreadIInv'
<1>1. childAt[c] \in {"run", "dtor"} /\ UNCHANGED <<info, keys, cleanVars, meddled>>
      BY DEF TssSet
<1>2. \/ \E value \in BOOLEAN : TssSetOld(c, k, value) \/ TssSetNew(c, k, value)
      \/ TssSetFaults(c, k)
      BY DEF TssSet
<1> QED
    BY <1>1, <1>2, SetOldKept, SetNewKept, SetFaultsKept

\* The cleanup begins, or there is no list and nothing to do.
LEMMA ReturnKept ==
  ASSUME ThreadIInv, NEW c \in Child, Return(c), UNCHANGED meddled
  PROVE  ThreadIInv'
<1> DEFINE to == IF head[c] # NoNode THEN "round" ELSE "detach"
<1>1. ThreadTypeOK /\ Types /\ OwnNodes(c) /\ CleanList(c) /\ SimpleList(c)
      BY StepFacts
<1>2. /\ ThreadGo(c, "run", to)
      /\ round' = [round EXCEPT ![c] = 0] /\ again' = [again EXCEPT ![c] = TRUE]
      /\ UNCHANGED <<info, keys, slot, head, tail, node, made, marks, visit, meddled>>
      BY DEF Return, Cleanup, tssVars
<1>3. /\ childAt[c] = "run" /\ childAt'[c] = to
      /\ \A d \in Child : d # c => childAt'[d] = childAt[d]
      /\ childAt' \in [Child -> Place]
      BY <1>1, <1>2, ThreadGoes DEF Place
<1>4. /\ round' \in [Child -> 0 .. Rounds] /\ again' \in [Child -> BOOLEAN] /\ again'[c] = TRUE
      /\ \A d \in Child : d # c => round'[d] = round[d] /\ again'[d] = again[d]
      BY <1>1, <1>2, NodeFacts DEF Types
<1>5. Types'
      BY <1>1, <1>2, <1>3, <1>4 DEF Types
<1>6. \A d \in Child : d # c => Keeps(d)
      BY <1>2, <1>3, <1>4 DEF Keeps
<1>7. VisitExact(c)' /\ CallExplained(c)'
      BY <1>3 DEF VisitExact, CallExplained
<1>8. ValuesGiven(c)'
      BY <1>3, <1>4 DEF ValuesGiven
<1>9. Listed(c)
      BY <1>3 DEF Listed, NoList
<1>10. CASE head[c] # NoNode
       <2>1. Listed(c)'
             BY <1>3, <1>10 DEF Listed, NoList
       <2>2. OwnNodes(c)' /\ ListGone(c)' /\ CleanList(c)' /\ SimpleList(c)'
             BY <1>1, <1>2, <1>3, <1>9, <1>10, <2>1, ListKept DEF OwnNodes
       <2> QED
           BY <1>2, <1>3, <1>5, <1>6, <1>7, <1>8, <1>10, <2>2, RunStep DEF ThreadInv
<1>11. CASE head[c] = NoNode
       <2>1. Made(c)' = Made(c) /\ Ptr(c)' = Ptr(c)
             BY <1>2 DEF Made, Ptr
       <2>2. OwnNodes(c)' /\ ListGone(c)' /\ NoList(c)' /\ ~Listed(c)'
             BY <1>1, <1>2, <1>3, <1>11, <2>1 DEF OwnNodes, ListGone, NoList, Listed
       <2>3. CleanList(c)'
             BY <1>3, <1>11, <2>2 DEF CleanList
       <2>4. SimpleList(c)'
             <3>1. Simple(c) => made[c] = 0
                   <4>1. made[c] # 0 => <<c, 1>> \in Node
                         BY <1>1, TypeFacts, NodeFacts
                   <4> QED
                       BY <1>1, <1>9, <1>11, <4>1, NodeFacts
                          DEF Simple, Clean, CleanList, First
             <3>2. Simple(c)' => made'[c] <= 2 /\ Made(c)' = {}
                   BY <1>2, <2>1, <3>1, MadeFacts DEF Simple
             <3> QED
                 BY <2>2, <3>2 DEF SimpleList
       <2> QED
           BY <1>2, <1>3, <1>5, <1>6, <1>7, <1>8, <1>11, <2>2, <2>3, <2>4, RunStep DEF ThreadInv
<1> QED
    BY <1>10, <1>11

\* _tinycthread_tss_callback finds no list.
LEMMA CallbackKept ==
  ASSUME ThreadIInv, NEW c \in Child, Callback(c), UNCHANGED meddled
  PROVE  ThreadIInv'
<1> DEFINE to == IF head[c] # NoNode THEN "round" ELSE "ended"
<1>1. ThreadTypeOK /\ Types /\ OwnNodes(c) /\ ListGone(c) /\ SimpleList(c)
      BY StepFacts
<1>2. /\ ThreadGo(c, "detach", to)
      /\ round' = [round EXCEPT ![c] = 0] /\ again' = [again EXCEPT ![c] = TRUE]
      /\ slot' = [slot EXCEPT ![c] = [k \in Key |-> NoNode]]
      /\ UNCHANGED <<info, keys, head, tail, node, made, marks, visit, meddled>>
      BY DEF Callback, Cleanup, tssVars
<1>3. childAt[c] = "detach" /\ to = "ended"
      BY <1>1, <1>2 DEF ThreadGo, ListGone, NoList
<1> HIDE DEF to
<1>4. /\ childAt'[c] = "ended" /\ childAt' \in [Child -> Place]
      /\ \A d \in Child : d # c => childAt'[d] = childAt[d]
      BY <1>1, <1>2, <1>3, ThreadGoes DEF Place
<1>5. /\ round' \in [Child -> 0 .. Rounds] /\ again' \in [Child -> BOOLEAN] /\ again'[c] = TRUE
      /\ \A d \in Child : d # c => round'[d] = round[d] /\ again'[d] = again[d]
      BY <1>1, <1>2, NodeFacts DEF Types
<1>6. /\ slot' \in [Child -> [Key -> Node \cup {NoNode}]]
      /\ \A d \in Child : d # c => slot'[d] = slot[d]
      /\ \A k \in Key : slot'[c][k] = NoNode
      BY <1>1, <1>2 DEF Types
<1>7. Types'
      BY <1>1, <1>2, <1>4, <1>5, <1>6 DEF Types
<1>8. \A d \in Child : d # c => Keeps(d)
      BY <1>2, <1>4, <1>5, <1>6 DEF Keeps
<1>9. VisitExact(c)' /\ CallExplained(c)'
      BY <1>4 DEF VisitExact, CallExplained
<1>10. ThreadInv(c)'
       <2>1. Made(c)' = Made(c) /\ Ptr(c)' = Ptr(c) /\ NoNode \in Ptr(c)
             BY <1>2 DEF Made, Ptr
       <2>2. NoList(c) /\ NoList(c)' /\ ~Listed(c)'
             BY <1>3, <1>4 DEF NoList, Listed
       <2>3. OwnNodes(c)'
             BY <1>1, <1>2, <1>4, <1>6, <2>1 DEF OwnNodes
       <2>4. ListGone(c)' /\ CleanList(c)' /\ SimpleList(c)'
             BY <1>1, <1>2, <1>4, <2>1, <2>2 DEF ListGone, CleanList, SimpleList, Simple
       <2>5. ValuesGiven(c)'
             BY <1>4, <1>5 DEF ValuesGiven
       <2> QED
           BY <2>3, <2>4, <2>5 DEF ThreadInv
<1> QED
    BY <1>2, <1>3, <1>4, <1>7, <1>8, <1>9, <1>10, RunStep

\* A round begins; or none of the last one called a destructor, or it was the last.
LEMMA RoundKept ==
  ASSUME ThreadIInv, NEW c \in Child, Round(c), UNCHANGED meddled
  PROVE  ThreadIInv'
<1> DEFINE to == IF MoreRounds(c) THEN "visit" ELSE "free"
<1>1. ThreadTypeOK /\ Types /\ OwnNodes(c) /\ CleanList(c) /\ SimpleList(c) /\ ValuesGiven(c)
      BY StepFacts
<1>2. /\ ThreadGo(c, "round", to)
      /\ UNCHANGED <<info, keys, slot, head, tail, node, made, marks, meddled>>
      BY DEF Round, tssVars
<1>3. /\ childAt[c] = "round" /\ childAt'[c] = to
      /\ \A d \in Child : d # c => childAt'[d] = childAt[d]
      /\ childAt' \in [Child -> Place]
      BY <1>1, <1>2, ThreadGoes DEF Place
<1>4. CASE MoreRounds(c)
      <2>1. /\ round' = [round EXCEPT ![c] = IF @ < Rounds THEN @ + 1 ELSE @]
            /\ again' = [again EXCEPT ![c] = FALSE] /\ visit' = [visit EXCEPT ![c] = head[c]]
            BY <1>4 DEF Round
      <2>2. /\ round' \in [Child -> 0 .. Rounds] /\ again' \in [Child -> BOOLEAN]
            /\ visit' \in [Child -> Node \cup {NoNode}] /\ visit'[c] = head[c]
            /\ \A d \in Child : d # c => /\ round'[d] = round[d] /\ again'[d] = again[d]
                                         /\ visit'[d] = visit[d]
            BY <1>1, <2>1, NodeFacts DEF Types
      <2>3. Types'
            BY <1>1, <1>2, <1>3, <2>2 DEF Types
      <2>4. \A d \in Child : d # c => Keeps(d)
            BY <1>2, <1>3, <2>2 DEF Keeps
      <2>5. VisitExact(c)' /\ CallExplained(c)' /\ Listed(c) /\ Listed(c)'
            BY <1>3, <1>4 DEF VisitExact, CallExplained, Listed, NoList
      <2>6. OwnNodes(c)' /\ ListGone(c)' /\ CleanList(c)' /\ SimpleList(c)'
            BY <1>1, <1>2, <1>3, <1>4, <2>2, <2>5, ListKept DEF OwnNodes
      <2>7. ValuesGiven(c)'
            <3>1. Simple(c)' => \A x \in Made(c)' : ~Passed(c, x)'
                  <4> SUFFICES ASSUME Simple(c)', NEW x \in Made(c)', Passed(c, x)'
                               PROVE  FALSE
                      OBVIOUS
                  <4>1. x \in Node /\ x \in Made(c) /\ x[2] \in Nat /\ x[2] >= 1 /\ x[2] <= made[c]
                        BY <1>2, MadeFacts, NodeFacts DEF Made
                  <4>2. head[c] = <<c, 1>> /\ head[c] # NoNode
                        <5>1. Clean(c) /\ made[c] # 0 /\ <<c, 1>> \in Node
                              BY <1>1, <1>2, <4>1, TypeFacts, NodeFacts DEF Simple, Clean
                        <5> QED
                            BY <1>1, <2>5, <5>1, NodeFacts DEF CleanList, First
                  <4>3. visit'[c][2] = 1 /\ visit'[c] # NoNode
                        BY <2>2, <4>2
                  <4> QED
                      BY <1>3, <1>4, <4>1, <4>3 DEF Passed
            <3> QED
                BY <1>3, <1>4, <3>1 DEF ValuesGiven
      <2> QED
          BY <1>2, <1>3, <1>4, <2>3, <2>4, <2>5, <2>6, <2>7, RunStep DEF ThreadInv
<1>5. CASE ~MoreRounds(c)
      <2>1. UNCHANGED <<visit, round, again>>
            BY <1>5 DEF Round, cleanVars
      <2>2. Types'
            BY <1>1, <1>2, <1>3, <2>1 DEF Types
      <2>3. \A d \in Child : d # c => Keeps(d)
            BY <1>2, <1>3, <2>1 DEF Keeps
      <2>4. VisitExact(c)' /\ CallExplained(c)' /\ Listed(c) /\ Listed(c)'
            BY <1>3, <1>5 DEF VisitExact, CallExplained, Listed, NoList
      <2>5. OwnNodes(c)' /\ ListGone(c)' /\ CleanList(c)' /\ SimpleList(c)'
            BY <1>1, <1>2, <1>3, <1>5, <2>1, <2>4, ListKept DEF OwnNodes
      <2>6. ~again[c] \/ round[c] = Rounds
            <3>1. ~(round[c] < Rounds) \/ ~again[c]
                  BY <1>5 DEF MoreRounds
            <3>2. ~(round[c] < Rounds) => round[c] = Rounds
                  BY <1>1, TypeFacts, NodeFacts
            <3> QED
                BY <3>1, <3>2
      <2>7. ValuesGiven(c)'
            <3>1. Made(c)' = Made(c) /\ (Simple(c)' <=> Simple(c))
                  BY <1>2 DEF Made, Simple
            <3>2. \A x \in Made(c) : Passed(c, x)
                  BY <1>3 DEF Passed
            <3> QED
                BY <1>1, <1>2, <1>3, <1>5, <2>1, <2>6, <3>1, <3>2 DEF ValuesGiven
      <2> QED
          BY <1>2, <1>3, <1>5, <2>2, <2>3, <2>4, <2>5, <2>7, RunStep DEF ThreadInv
<1> QED
    BY <1>4, <1>5

\* The node under visit gives up its value; the next one is visited, unless a
\* destructor is to be called.
LEMMA VisitKept ==
  ASSUME ThreadIInv, NEW c \in Child, Visit(c), UNCHANGED meddled
  PROVE  ThreadIInv'
<1> DEFINE n == visit[c]
           calls == n # NoNode /\ node[n].live /\ node[n].value /\ HasDtor(node[n].key)
           to == IF n = NoNode THEN "round" ELSE IF ~node[n].live THEN "badList"
                 ELSE IF calls THEN "call" ELSE "visit"
<1>1. /\ ThreadTypeOK /\ Types /\ OwnNodes(c) /\ CleanList(c) /\ SimpleList(c)
      /\ ValuesGiven(c) /\ ListGone(c)
      BY StepFacts
<1>2. /\ ThreadGo(c, "visit", to)
      /\ node' = IF n = NoNode THEN node ELSE [node EXCEPT ![n].value = FALSE]
      /\ visit' = IF n = NoNode \/ calls THEN visit ELSE [visit EXCEPT ![c] = node[n].next]
      /\ again' = [again EXCEPT ![c] = @ \/ calls]
      /\ UNCHANGED <<info, keys, slot, head, tail, made, marks, round, meddled>>
      BY DEF Visit
<1>3. /\ childAt[c] = "visit" /\ childAt'[c] = to
      /\ \A d \in Child : d # c => childAt'[d] = childAt[d]
      /\ childAt' \in [Child -> Place]
      <2>1. to \in Place
            BY DEF Place
      <2> HIDE DEF to
      <2> QED
          BY <1>1, <1>2, <2>1, ThreadGoes
<1>4. n \in Ptr(c) /\ (n # NoNode => n \in Made(c) /\ n \in Node /\ n[1] = c /\ node[n].next \in Ptr(c))
      BY <1>1, MadeFacts DEF OwnNodes, Ptr
<1>5. /\ n # NoNode => Valued(n, FALSE)
      /\ n = NoNode => UNCHANGED node
      BY <1>1, <1>2, <1>4, ValuedValues
<1>6. /\ node' \in [Node -> [key : Key, value : BOOLEAN, next : Node \cup {NoNode}, live : BOOLEAN]]
      /\ \A x \in Node : /\ node'[x].key = node[x].key /\ node'[x].next = node[x].next
                         /\ node'[x].live = node[x].live
                         /\ x # n => node'[x] = node[x]
      /\ n # NoNode => node'[n].value = FALSE
      BY <1>1, <1>5 DEF Types, Valued
<1> HIDE DEF to, calls
<1>7. /\ again' \in [Child -> BOOLEAN] /\ (again'[c] <=> again[c] \/ calls)
      /\ \A d \in Child : d # c => again'[d] = again[d]
      BY <1>1, <1>2 DEF Types, calls
<1>8. /\ visit' \in [Child -> Node \cup {NoNode}]
      /\ visit'[c] = IF n = NoNode \/ calls THEN n ELSE node[n].next
      /\ \A d \in Child : d # c => visit'[d] = visit[d]
      /\ visit'[c] \in Ptr(c)
      <2>1. CASE n = NoNode \/ calls
            BY <1>1, <1>2, <1>4, <2>1 DEF Types
      <2>2. CASE ~(n = NoNode \/ calls)
            <3>1. node[n].next \in Node \cup {NoNode}
                  BY <1>1, <1>4, <2>2, NodeTypes
            <3> QED
                BY <1>1, <1>2, <1>4, <2>2, <3>1 DEF Types
      <2> QED
          BY <2>1, <2>2
<1>9. Types'
      BY <1>1, <1>2, <1>3, <1>6, <1>7, <1>8 DEF Types
<1>10. \A d \in Child : d # c => Keeps(d)
       <2>1. \A x \in Node : x[1] # c => node'[x] = node[x]
             BY <1>4, <1>5, <1>6
       <2> QED
           BY <1>2, <1>3, <1>7, <1>8, <2>1 DEF Keeps
<1>11. to = "call" => calls /\ n # NoNode
       BY DEF to, calls
<1>12. to \in {"round", "badList", "call", "visit"}
       BY DEF to
<1>13. VisitExact(c)' /\ CallExplained(c)'
       <2>1. CASE to = "call"
             <3>1. HasDtor(node[n].key) /\ visit'[c] = n /\ n # NoNode
                   BY <1>8, <1>11, <2>1 DEF calls
             <3>2. node'[n].key = node[n].key
                   BY <1>4, <1>6, <3>1
             <3>3. HasDtor(node[visit[c]].key)'
                   BY <1>2, <3>1, <3>2 DEF HasDtor
             <3> QED
                 BY <1>3, <2>1, <3>1, <3>3 DEF VisitExact, CallExplained
       <2>2. CASE to # "call"
             BY <1>3, <1>12, <2>2 DEF VisitExact, CallExplained
       <2> QED
           BY <2>1, <2>2
<1>14. Listed(c)
       BY <1>3 DEF Listed, NoList
<1>15. CASE to = "badList"
       <2>1. ~Clean(c)
             <3>1. n # NoNode /\ ~node[n].live
                   BY <1>15 DEF to
             <3> QED
                 BY <1>1, <1>4, <1>14, <3>1 DEF CleanList
       <2>2. Made(c)' = Made(c) /\ Ptr(c)' = Ptr(c) /\ ~Clean(c)'
             BY <1>2, <2>1 DEF Made, Ptr, Clean
       <2>3. OwnNodes(c)' /\ ListGone(c)'
             BY <1>1, <1>2, <1>3, <1>6, <1>8, <1>15, <2>2, MadeFacts DEF OwnNodes, ListGone, NoList
       <2> QED
           BY <1>2, <1>3, <1>9, <1>10, <1>12, <1>13, <2>2, <2>3, NotClean, RunStep
<1>16. CASE to # "badList"
       <2>1. Listed(c)'
             BY <1>3, <1>12, <1>16 DEF Listed, NoList
       <2>2. OwnNodes(c)' /\ ListGone(c)' /\ CleanList(c)' /\ SimpleList(c)'
             <3>1. \A x \in Made(c) : node'[x].next = node[x].next /\ node'[x].live = node[x].live
                   BY <1>6, MadeFacts
             <3>2. \A k \in Key : slot'[c][k] \in Ptr(c)
                   BY <1>1, <1>2 DEF OwnNodes
             <3> QED
                 BY <1>2, <1>3, <1>6, <1>8, <1>12, <1>14, <2>1, <3>1, <3>2, ListKept
       <2>3. ValuesGiven(c)'
             <3> SUFFICES ASSUME Simple(c)'
                          PROVE  /\ childAt'[c] \in {"call", "dtor"} => again'[c]
                                 /\ ~again'[c] => \A x \in Made(c)' : Passed(c, x)' => ~node'[x].value
                                 /\ childAt'[c] = "free" => ~again'[c] \/ round'[c] = Rounds
                 BY DEF ValuesGiven
             <3>1. childAt'[c] \in {"call", "dtor"} => again'[c]
                   BY <1>3, <1>7, <1>11, <1>12
             <3>2. ASSUME ~again'[c], NEW x \in Made(c)', Passed(c, x)' PROVE ~node'[x].value
                   <4>1. Simple(c) /\ x \in Made(c) /\ x \in Node /\ ~again[c] /\ ~calls
                         BY <1>2, <1>7, <3>2, MadeFacts DEF Simple, Made
                   <4>2. Passed(c, x) => ~node[x].value
                         BY <1>1, <4>1 DEF ValuesGiven
                   <4>3. CASE x = n
                         BY <1>4, <1>6, <4>1, <4>3, NodeFacts
                   <4>4. CASE x # n
                         <5>1. node'[x] = node[x]
                               BY <1>6, <4>1, <4>4
                         <5>2. Passed(c, x)
                               <6>1. CASE n = NoNode
                                     BY <1>3, <6>1 DEF Passed
                               <6>2. CASE n # NoNode
                                     <7>1. /\ made[c] <= 2 /\ made[c] \in Nat
                                           /\ n[2] \in 1 .. made[c] /\ n = <<c, n[2]>>
                                           /\ x[2] \in 1 .. made[c] /\ x = <<c, x[2]>>
                                           BY <1>1, <1>4, <4>1, <6>2, TypeFacts, MadeFacts, NodeFacts
                                              DEF SimpleList
                                     <7>2. n[2] # x[2]
                                           BY <4>4, <7>1
                                     <7>3. made[c] = 2 /\ x[2] \in {1, 2} /\ n[2] \in {1, 2}
                                           BY <7>1, <7>2
                                     <7>4. CASE n[2] = 2
                                           <8>1. x[2] < n[2]
                                                 BY <7>2, <7>3, <7>4
                                           <8> QED
                                               BY <1>3, <8>1 DEF Passed
                                     <7>5. CASE n[2] = 1
                                           <8>1. n = <<c, 1>> /\ x = <<c, 2>>
                                                 BY <7>1, <7>2, <7>3, <7>5
                                           <8>2. visit'[c] = <<c, 2>>
                                                 BY <1>1, <1>8, <1>14, <4>1, <6>2, <7>3, <8>1
                                                    DEF SimpleList
                                           <8>3. childAt'[c] = "visit"
                                                 BY <1>3, <1>11, <1>12, <1>16, <4>1, <6>2 DEF to
                                           <8>4. visit'[c] # NoNode /\ ~(x[2] < visit'[c][2])
                                                 BY <4>1, <8>1, <8>2, NodeFacts
                                           <8> QED
                                               BY <3>2, <8>3, <8>4 DEF Passed
                                     <7> QED
                                         BY <7>3, <7>4, <7>5
                               <6> QED
                                   BY <6>1, <6>2
                         <5> QED
                             BY <4>2, <5>1, <5>2
                   <4> QED
                       BY <4>3, <4>4
             <3> QED
                 BY <1>3, <1>12, <3>1, <3>2
       <2> QED
           BY <1>2, <1>3, <1>9, <1>10, <1>12, <1>13, <2>2, <2>3, RunStep DEF ThreadInv
<1> QED
    BY <1>15, <1>16

\* The destructor is called, or NULL if it has been deleted since it was tested.
LEMMA CallIsKept ==
  ASSUME ThreadIInv, NEW c \in Child, Call(c), UNCHANGED meddled
  PROVE  ThreadIInv'
<1> DEFINE to == IF HasDtor(node[visit[c]].key) THEN "dtor" ELSE "badCall"
<1>1. /\ ThreadTypeOK /\ Types /\ OwnNodes(c) /\ CleanList(c) /\ SimpleList(c)
      /\ ValuesGiven(c) /\ ListGone(c) /\ VisitExact(c) /\ CallExplained(c)
      BY StepFacts
<1>2. /\ ThreadGo(c, "call", to)
      /\ UNCHANGED <<info, keys, slot, head, tail, node, made, marks, visit, round, again, meddled>>
      BY DEF Call, tssVars, cleanVars
<1>3. /\ childAt[c] = "call" /\ childAt'[c] = to
      /\ \A d \in Child : d # c => childAt'[d] = childAt[d]
      /\ childAt' \in [Child -> Place]
      BY <1>1, <1>2, ThreadGoes DEF Place
<1>4. Types'
      BY <1>1, <1>2, <1>3 DEF Types
<1>5. \A d \in Child : d # c => Keeps(d)
      BY <1>2, <1>3 DEF Keeps
<1>6. VisitExact(c)' /\ CallExplained(c)'
      BY <1>1, <1>2, <1>3 DEF VisitExact, CallExplained, Meddled
<1>7. Listed(c)
      BY <1>3 DEF Listed, NoList
<1>8. ThreadInv(c)'
      <2>1. Made(c)' = Made(c) /\ Ptr(c)' = Ptr(c) /\ First(c)' = First(c)
            BY <1>2 DEF Made, Ptr, First
      <2>2. OwnNodes(c)' /\ ListGone(c)'
            BY <1>1, <1>2, <1>3, <2>1 DEF OwnNodes, ListGone, NoList
      <2>3. CleanList(c)' /\ SimpleList(c)'
            BY <1>1, <1>2, <1>3, <1>7, <2>1 DEF CleanList, SimpleList, Clean, Simple, NoList
      <2>4. ValuesGiven(c)'
            BY <1>1, <1>2, <1>3 DEF ValuesGiven, Passed, Simple
      <2> QED
          BY <2>2, <2>3, <2>4 DEF ThreadInv
<1> QED
    BY <1>2, <1>3, <1>4, <1>5, <1>6, <1>8, RunStep

\* The destructor returns and the round goes on with the next node.
LEMMA DtorReturnsKept ==
  ASSUME ThreadIInv, NEW c \in Child, DtorReturns(c), UNCHANGED meddled
  PROVE  ThreadIInv'
<1> DEFINE n == visit[c]
<1>1. /\ ThreadTypeOK /\ Types /\ OwnNodes(c) /\ CleanList(c) /\ SimpleList(c)
      /\ ValuesGiven(c) /\ ListGone(c) /\ VisitExact(c)
      BY StepFacts
<1>2. /\ ThreadGo(c, "dtor", "visit") /\ visit' = [visit EXCEPT ![c] = node[n].next]
      /\ UNCHANGED <<info, keys, slot, head, tail, node, made, marks, round, again, meddled>>
      BY DEF DtorReturns, tssVars
<1>3. /\ childAt[c] = "dtor" /\ childAt'[c] = "visit"
      /\ \A d \in Child : d # c => childAt'[d] = childAt[d]
      /\ childAt' \in [Child -> Place]
      BY <1>1, <1>2, ThreadGoes DEF Place
<1>4. node[n].next \in Ptr(c) /\ Ptr(c) \subseteq Node \cup {NoNode}
      BY <1>1, <1>3, MadeFacts DEF OwnNodes, VisitExact, Ptr
<1>5. /\ visit' \in [Child -> Node \cup {NoNode}] /\ visit'[c] = node[n].next
      /\ \A d \in Child : d # c => visit'[d] = visit[d]
      BY <1>1, <1>2, <1>4 DEF Types
<1>6. Types'
      BY <1>1, <1>2, <1>3, <1>5 DEF Types
<1>7. \A d \in Child : d # c => Keeps(d)
      BY <1>2, <1>3, <1>5 DEF Keeps
<1>8. VisitExact(c)' /\ CallExplained(c)' /\ Listed(c) /\ Listed(c)'
      BY <1>3 DEF VisitExact, CallExplained, Listed, NoList
<1>9. OwnNodes(c)' /\ ListGone(c)' /\ CleanList(c)' /\ SimpleList(c)'
      BY <1>1, <1>2, <1>3, <1>4, <1>5, <1>8, ListKept DEF OwnNodes
<1>10. ValuesGiven(c)'
       BY <1>1, <1>2, <1>3 DEF ValuesGiven, Simple
<1> QED
    BY <1>2, <1>3, <1>6, <1>7, <1>8, <1>9, <1>10, RunStep DEF ThreadInv

\* The nodes that the list has are freed.
LEMMA FreeKept ==
  ASSUME ThreadIInv, NEW c \in Child, Free(c), UNCHANGED meddled
  PROVE  ThreadIInv'
<1>1. /\ ThreadTypeOK /\ Types /\ OwnNodes(c) /\ CleanList(c) /\ SimpleList(c)
      BY StepFacts
<1>2. /\ childAt[c] = "free" /\ Listed(c)
      /\ UNCHANGED <<info, keys, slot, made, marks, visit, round, again, meddled>>
      BY DEF Free, cleanVars, Listed, NoList
<1>3. From(head[c]) \subseteq Made(c)
      BY WalkOwn
<1>4. Made(c)' = Made(c) /\ Ptr(c)' = Ptr(c) /\ NoNode \in Ptr(c)
      BY <1>2 DEF Made, Ptr
<1>5. CASE \A n \in From(head[c]) : node[n].live
      <2>1. /\ childAt' = [childAt EXCEPT ![c] = "detach"]
            /\ node' = [n \in Node |-> IF n \in From(head[c]) THEN Freed ELSE node[n]]
            /\ head' = [head EXCEPT ![c] = NoNode] /\ tail' = [tail EXCEPT ![c] = NoNode]
            BY <1>5 DEF Free, FreedList, HeadAfterFree
      <2>2. /\ childAt' \in [Child -> Place] /\ childAt'[c] = "detach"
            /\ head' \in [Child -> Node \cup {NoNode}] /\ head'[c] = NoNode
            /\ tail' \in [Child -> Node \cup {NoNode}] /\ tail'[c] = NoNode
            /\ \A d \in Child : d # c => /\ childAt'[d] = childAt[d] /\ head'[d] = head[d]
                                         /\ tail'[d] = tail[d]
            BY <1>1, <2>1 DEF Types, Place
      <2>3. \A x \in Node : node'[x] = IF x \in From(head[c]) THEN Freed ELSE node[x]
            BY <2>1
      <2>4. node' \in [Node -> [key : Key, value : BOOLEAN, next : Node \cup {NoNode}, live : BOOLEAN]]
            BY <1>1, <2>1, NodeFacts DEF Types
      <2>5. Types'
            BY <1>1, <1>2, <2>2, <2>4 DEF Types
      <2>6. \A d \in Child : d # c => Keeps(d)
            BY <1>2, <1>3, <2>2, <2>3, MadeFacts DEF Keeps
      <2>7. VisitExact(c)' /\ CallExplained(c)' /\ NoList(c)' /\ ~Listed(c)'
            BY <2>2 DEF VisitExact, CallExplained, NoList, Listed
      <2>8. OwnNodes(c)' /\ ListGone(c)' /\ CleanList(c)'
            <3>1. \A x \in Made(c) : node'[x].next \in Ptr(c)
                  BY <1>1, <1>4, <2>3, NodeFacts, MadeFacts DEF OwnNodes
            <3>2. \A x \in Node : x[1] = c /\ x \notin Made(c) => ~node'[x].live
                  BY <1>1, <1>3, <2>3 DEF OwnNodes
            <3> QED
                BY <1>1, <1>2, <1>4, <2>2, <2>7, <3>1, <3>2 DEF OwnNodes, ListGone, CleanList
      <2>9. SimpleList(c)'
            <3> SUFFICES ASSUME Simple(c)'
                         PROVE  made'[c] <= 2 /\ \A x \in Made(c)' : ~node'[x].live
                BY <2>7 DEF SimpleList
            <3>1. Simple(c) /\ Clean(c)
                  BY <1>2 DEF Simple, Clean
            <3>2. made[c] <= 2 /\ head[c] = First(c)
                  BY <1>1, <1>2, <3>1 DEF SimpleList, CleanList
            <3>3. ASSUME NEW x \in Made(c) PROVE x \in From(head[c])
                  <4>1. /\ made[c] \in {1, 2} /\ x \in Node /\ MaxNode \in Nat
                        /\ made[c] <= MaxNode /\ made[c] \in Nat
                        BY <1>1, <3>2, TypeFacts, NodeFacts, MadeFacts
                  <4>2. head[c] = <<c, 1>> /\ <<c, 1>> \in Node /\ <<c, 1>> # NoNode
                        BY <3>2, <4>1, NodeFacts DEF First
                  <4>3. <<c, 1>> \in From(head[c])
                        BY <4>2, FromFacts
                  <4>4. CASE made[c] = 1
                        BY <4>3, <4>4, MadeFacts
                  <4>5. CASE made[c] = 2
                        <5>1. node[<<c, 1>>].next = <<c, 2>> /\ <<c, 2>> \in Node /\ <<c, 2>> # NoNode
                              BY <1>1, <1>2, <3>1, <4>1, <4>5, NodeFacts DEF SimpleList
                        <5>2. <<c, 2>> \in From(head[c])
                              BY <4>1, <4>2, <5>1, FromFacts
                        <5> QED
                            BY <4>3, <4>5, <5>2, MadeFacts
                  <4> QED
                      BY <4>1, <4>4, <4>5
            <3> QED
                BY <1>2, <1>4, <2>3, <3>2, <3>3, NodeFacts, MadeFacts
      <2>10. ValuesGiven(c)'
             <3>1. \A x \in Made(c)' : ~Passed(c, x)'
                   BY <2>2 DEF Passed
             <3> QED
                 BY <2>2, <3>1 DEF ValuesGiven
      <2> QED
          BY <1>2, <2>2, <2>5, <2>6, <2>7, <2>8, <2>9, <2>10, RunStep DEF ThreadInv
<1>6. CASE ~\A n \in From(head[c]) : node[n].live
      <2>1. /\ childAt' = [childAt EXCEPT ![c] = "badList"] /\ UNCHANGED <<node, head, tail>>
            BY <1>6 DEF Free
      <2>2. /\ childAt' \in [Child -> Place] /\ childAt'[c] = "badList"
            /\ \A d \in Child : d # c => childAt'[d] = childAt[d]
            BY <1>1, <2>1 DEF Types, Place
      <2>3. ~Clean(c)'
            BY <1>1, <1>2, <1>3, <1>6 DEF Clean, CleanList
      <2>4. Types'
            BY <1>1, <1>2, <2>1, <2>2 DEF Types
      <2>5. \A d \in Child : d # c => Keeps(d)
            BY <1>2, <2>1, <2>2 DEF Keeps
      <2>6. VisitExact(c)' /\ CallExplained(c)'
            BY <2>2 DEF VisitExact, CallExplained
      <2>7. OwnNodes(c)' /\ ListGone(c)'
            BY <1>1, <1>2, <1>4, <2>1, <2>2 DEF OwnNodes, ListGone, NoList
      <2> QED
          BY <1>2, <2>2, <2>3, <2>4, <2>5, <2>6, <2>7, NotClean, RunStep
<1> QED
    BY <1>5, <1>6

-----------------------------------------------------------------------------
(* Every step.                                                             *)

\* At first no thread has a node.
LEMMA ThreadInitInv ==
  ASSUME ThreadInit
  PROVE  ThreadIInv
<1>1. Types
      <2>1. /\ childAt \in [Child -> Place] /\ info \in [Child -> {"none", "live", "freed"}]
            /\ keys \in [Key -> BOOLEAN] /\ again \in [Child -> BOOLEAN] /\ meddled \in BOOLEAN
            /\ marks \in [Child -> SUBSET {"delete", "fail", "third"}]
            BY DEF ThreadInit, Place
      <2>2. slot \in [Child -> [Key -> Node \cup {NoNode}]]
            BY DEF ThreadInit
      <2>3. /\ head \in [Child -> Node \cup {NoNode}] /\ tail \in [Child -> Node \cup {NoNode}]
            /\ visit \in [Child -> Node \cup {NoNode}]
            BY DEF ThreadInit
      <2>4. node \in [Node -> [key : Key, value : BOOLEAN, next : Node \cup {NoNode}, live : BOOLEAN]]
            BY NodeFacts DEF ThreadInit
      <2>5. made \in [Child -> 0 .. MaxNode] /\ round \in [Child -> 0 .. Rounds]
            BY NodeFacts DEF ThreadInit
      <2> QED
          BY <2>1, <2>2, <2>3, <2>4, <2>5 DEF Types
<1>2. \A c \in Child : InfoExact(c) /\ VisitExact(c) /\ CallExplained(c)
      BY DEF ThreadInit, InfoExact, VisitExact, CallExplained
<1>3. \A c \in Child : ThreadInv(c)
      <2> TAKE c \in Child
      <2>1. made[c] = 0 /\ Made(c) = {} /\ childAt[c] = "none"
            BY MadeFacts DEF ThreadInit
      <2>2. OwnNodes(c)
            BY <2>1, NodeFacts DEF ThreadInit, OwnNodes, Ptr
      <2>3. ListGone(c) /\ CleanList(c)
            BY <2>1 DEF ThreadInit, ListGone, CleanList, First
      <2>4. SimpleList(c)
            BY <2>1 DEF SimpleList
      <2>5. ValuesGiven(c)
            BY <2>1 DEF ValuesGiven
      <2> QED
          BY <2>2, <2>3, <2>4, <2>5 DEF ThreadInv
<1> QED
    BY <1>1, <1>2, <1>3, TypeParts DEF ThreadIInv

\* Every step keeps the invariant.
LEMMA ThreadStep ==
  ASSUME ThreadIInv, [ThreadNext]_threadVars
  PROVE  ThreadIInv'
<1>1. CASE \E k \in Key : MainDelete(k) \/ TssCreate(k)
      BY <1>1, MainKept
<1>2. ASSUME NEW c \in Child, Ending(c) PROVE ThreadIInv'
      BY <1>2, ReturnKept, CallbackKept, RoundKept, VisitKept, CallIsKept, DtorReturnsKept,
         FreeKept DEF Ending
<1>3. ASSUME NEW c \in Child, UNCHANGED meddled,
             Create(c) \/ CreateThread(c) \/ CreateThreadFails(c) \/ Start(c) \/ Join(c)
      PROVE  ThreadIInv'
      <2>1. CASE Create(c)
            <3>1. MoveStep(c, "none", "create", "live")
                  BY <2>1 DEF Create, MoveStep
            <3> QED
                BY <1>3, <3>1, MovesKept
      <2>2. CASE CreateThreadFails(c)
            <3>1. MoveStep(c, "create", "failed", "freed")
                  BY <2>2 DEF CreateThreadFails, MoveStep
            <3> QED
                BY <1>3, <3>1, MovesKept
      <2>3. CASE Start(c)
            <3>1. MoveStep(c, "start", "run", "freed")
                  BY <2>3 DEF Start, MoveStep, InfoTaken
            <3> QED
                BY <1>3, <3>1, MovesKept
      <2>4. /\ (info[c] = "live") <=> (childAt[c] \in {"create", "start"})
            /\ info \in [Child -> {"none", "live", "freed"}] /\ info[c] \in {"none", "live", "freed"}
            BY StepFacts DEF InfoExact, Types
      <2>5. UNCHANGED info => info' = [info EXCEPT ![c] = info[c]]
            BY <2>4
      <2>6. CASE CreateThread(c)
            <3>1. childAt[c] = "create" /\ UNCHANGED info
                  BY <2>6 DEF CreateThread, ThreadGo
            <3>2. MoveStep(c, "create", "start", info[c])
                  BY <2>4, <2>5, <2>6, <3>1 DEF CreateThread, MoveStep
            <3> QED
                BY <1>3, <3>2, MovesKept
      <2>7. CASE Join(c)
            <3>1. childAt[c] = "ended" /\ UNCHANGED info
                  BY <2>7 DEF Join, ThreadGo
            <3>2. MoveStep(c, "ended", "joined", info[c])
                  BY <2>4, <2>5, <2>7, <3>1 DEF Join, MoveStep
            <3> QED
                BY <1>3, <3>2, MovesKept
      <2> QED
          BY <1>3, <2>1, <2>2, <2>3, <2>6, <2>7
<1>4. ASSUME NEW c \in Child, NEW k \in Key, UNCHANGED meddled, TssDelete(c, k) \/ TssSet(c, k)
      PROVE  ThreadIInv'
      BY <1>4, DeleteKept, SetKept
<1>5. CASE UNCHANGED threadVars
      <2> USE <1>5 DEF threadVars, tssVars, cleanVars
      <2>1. ThreadTypeOK'
            BY DEF ThreadIInv, ThreadTypeOK
      <2>2. \A c \in Child : ThreadInv(c)'
            BY Kept DEF ThreadIInv, Keeps
      <2>3. \A c \in Child : CallExplained(c)'
            BY DEF ThreadIInv, CallExplained, HasDtor, Meddled
      <2> QED
          BY <2>1, <2>2, <2>3 DEF ThreadIInv
<1> QED
    BY <1>1, <1>2, <1>3, <1>4, <1>5 DEF ThreadNext

\* ThreadIInv is inductive: whatever threads, keys and destructors do, in any
\* order, nodes stay a thread's own and its list what its marks say.
THEOREM ThreadInvariant == ThreadSpec => []ThreadIInv
<1>1. ThreadInit => ThreadIInv
      BY ThreadInitInv
<1>2. ThreadIInv /\ [ThreadNext]_threadVars => ThreadIInv'
      BY ThreadStep
<1> QED
    BY <1>1, <1>2, PTL DEF ThreadSpec

\* Every pointer of every thread stays NULL or a node, and its start information
\* is there exactly from thrd_create to the read of it or the failure.
THEOREM ThreadTypeCorrect == ThreadSpec => []ThreadTypeOK
<1>1. ThreadIInv => ThreadTypeOK
      BY DEF ThreadIInv
<1> QED
    BY <1>1, ThreadInvariant, PTL

\* A thread with at most two keys, none deleted, and no failure has given every
\* value to a destructor, or gone all its rounds, before it frees its nodes, and
\* when it has been joined none of them is left.
THEOREM JoinSeesCleanHolds == ThreadSpec => []JoinSeesClean
<1>1. ASSUME ThreadIInv PROVE JoinSeesClean
      <2> SUFFICES ASSUME NEW c \in Child, Simple(c)
                   PROVE  /\ childAt[c] = "free" => Owed(c) = {} \/ round[c] = Rounds
                          /\ childAt[c] = "joined" => \A n \in Node : n[1] = c => ~node[n].live
          BY DEF JoinSeesClean
      <2>1. OwnNodes(c) /\ SimpleList(c) /\ ValuesGiven(c)
            BY <1>1, StepFacts
      <2>2. ASSUME childAt[c] = "free", round[c] # Rounds PROVE Owed(c) = {}
            <3>1. \A n \in Made(c) : ~node[n].value
                  BY <2>1, <2>2 DEF ValuesGiven, Passed
            <3>2. \A k \in Key : slot[c][k] # NoNode => slot[c][k] \in Made(c)
                  BY <2>1 DEF OwnNodes, Ptr
            <3> QED
                BY <3>1, <3>2 DEF Owed
      <2>3. ASSUME childAt[c] = "joined" PROVE \A n \in Node : n[1] = c => ~node[n].live
            BY <2>1, <2>3 DEF OwnNodes, SimpleList, NoList
      <2> QED
          BY <2>2, <2>3
<1> QED
    BY <1>1, ThreadInvariant, PTL

\* A thread reads freed nodes only if it has deleted a key or TlsSetValue has
\* failed for it, and calls NULL only if another has deleted a key.
THEOREM CrashesExplainedHolds == ThreadSpec => []CrashesExplained
<1>1. ASSUME ThreadIInv PROVE CrashesExplained
      <2> SUFFICES ASSUME NEW c \in Child
                   PROVE  /\ childAt[c] = "badList" => marks[c] \cap {"delete", "fail"} # {}
                          /\ childAt[c] = "badCall" =>
                               meddled \/ \E d \in Child \ {c} : "delete" \in marks[d]
          BY DEF CrashesExplained
      <2>1. CleanList(c) /\ CallExplained(c)
            BY <1>1, StepFacts
      <2> QED
          BY <2>1 DEF CleanList, Clean, CallExplained, Meddled
<1> QED
    BY <1>1, ThreadInvariant, PTL
=================================================================================
