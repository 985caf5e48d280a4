------------------------------- MODULE ArmProofs -------------------------------
(***************************************************************************)
(* Proofs about the ARM assembly.  The descriptor pool, for any number of  *)
(* cores, descriptors and retries: exclusive accesses alone, without a     *)
(* lock, give a descriptor to one core only; the inductive invariant is    *)
(* TypeOK with TopExact.  The system call, for every number: the tree of   *)
(* comparisons is right, and the caller gets its r7 back; the inductive    *)
(* invariant says which numbers come to which label of the tree, and what  *)
(* was pushed.  And the model of both is a model of each.                  *)
(***************************************************************************)
EXTENDS MCArm, TLAPS, FiniteSetTheorems

-----------------------------------------------------------------------------
(* The descriptor pool.                                                    *)

IInv == TypeOK /\ TopExact

\* The pool start.S lays out satisfies the invariant.
LEMMA InitInv ==
  ASSUME Init
  PROVE  IInv
BY ArmPoolConstants
   DEF Init, IInv, TypeOK, TopExact, ListEmpty, BelowTop, ReservedTop, ReleaserHolds, At, Desc,
       Ptr, Null, Word, AllocLabel, ReleaseLabel

\* No access touches a pointer that is not NULL or a descriptor.
LEMMA TypeStep ==
  ASSUME IInv, NEW c \in Cpu, Call(c) \/ AllocStep(c) \/ ReleaseStep(c) \/ \E d \in Desc : Release(c, d)
  PROVE  TypeOK'
<1> USE ArmPoolConstants DEF Desc, Ptr, Null, Word, AllocLabel, ReleaseLabel, At, Goto, pool, regs, hist
<1>0. TypeOK
      BY DEF IInv
<1>1. ASSUME Call(c) PROVE TypeOK'
      BY <1>0, <1>1 DEF TypeOK, Call
<1>2. ASSUME LoadFree(c) PROVE TypeOK'
      BY <1>0, <1>2 DEF TypeOK, LoadFree, Reserve
<1>3. ASSUME LoadTop(c) PROVE TypeOK'
      BY <1>0, <1>3 DEF TypeOK, LoadTop, NoneLeft, Reserve
<1>4. ASSUME StoreTop(c) PROVE TypeOK'
      <2>1. reg[c] = top
            BY <1>4 DEF IInv, TopExact, ReservedTop, StoreTop, Stores
      <2>2. top \in Desc /\ top' \in 1 .. NumDesc + 1
            <3>1. top \in 1 .. NumDesc + 1 /\ top \in Ptr
                  BY <1>0, <2>1 DEF TypeOK
            <3>2. top' = top + 1
                  BY <1>4, <2>1 DEF StoreTop
            <3> QED
                BY <3>1, <3>2
      <2>3. reserved' \in [Cpu -> Word \cup {None}]
            BY <1>0, <1>4 DEF TypeOK, StoreTop, Stores, End
      <2>4. holder' \in [Desc -> Cpu \cup {None}]
            BY <1>0, <1>4 DEF TypeOK, StoreTop
      <2>5. /\ pc' \in [Cpu -> {"idle"} \cup AllocLabel \cup ReleaseLabel]
            /\ \A b \in Cpu : pc'[b] \in ReleaseLabel => reg'[b] # Null
            BY <1>0, <1>4 DEF TypeOK, StoreTop
      <2> QED
          BY <1>0, <1>4, <2>2, <2>3, <2>4, <2>5 DEF TypeOK, StoreTop
<1>5. ASSUME StoreTopFails(c) PROVE TypeOK'
      BY <1>0, <1>5 DEF TypeOK, StoreTopFails, Fails
<1>6. ASSUME Again(c) PROVE TypeOK'
      <2>1. loop[c] \in 0 .. Retries /\ (loop[c] # 0 => loop[c] - 1 \in 0 .. Retries)
            BY <1>0 DEF TypeOK
      <2>2. reg' \in [Cpu -> Ptr]
            BY <1>0, <1>6 DEF TypeOK, Again
      <2>3. /\ pc' \in [Cpu -> {"idle"} \cup AllocLabel \cup ReleaseLabel]
            /\ \A b \in Cpu : pc'[b] \in ReleaseLabel => reg'[b] # Null
            BY <1>0, <1>6 DEF TypeOK, Again
      <2>4. CASE loop[c] = 0
            BY <1>0, <1>6, <2>2, <2>3, <2>4 DEF TypeOK, Again
      <2>5. CASE loop[c] # 0
            <3>1. loop' = [loop EXCEPT ![c] = loop[c] - 1]
                  BY <1>6, <2>5 DEF Again, Counted
            <3>2. loop' \in [Cpu -> 0 .. Retries]
                  BY <1>0, <2>1, <2>5, <3>1 DEF TypeOK
            <3> QED
                BY <1>0, <1>6, <2>2, <2>3, <3>2 DEF TypeOK, Again
      <2> QED
          BY <2>4, <2>5
<1>7. ASSUME LoadHead(c) PROVE TypeOK'
      BY <1>0, <1>7 DEF TypeOK, LoadHead, Reserve
<1>8. ASSUME LinkEnd(c) PROVE TypeOK'
      BY <1>0, <1>8 DEF TypeOK, LinkEnd
<1>9. ASSUME StoreHead(c) PROVE TypeOK'
      BY <1>0, <1>9 DEF TypeOK, StoreHead, Stores, End
<1>10. ASSUME StoreHeadFails(c) PROVE TypeOK'
      BY <1>0, <1>10 DEF TypeOK, StoreHeadFails, Fails
<1>11. ASSUME NEW d \in Desc, Release(c, d) PROVE TypeOK'
      BY <1>0, <1>11 DEF TypeOK, Release
<1> QED
    BY <1>1, <1>2, <1>3, <1>4, <1>5, <1>6, <1>7, <1>8, <1>9, <1>10, <1>11 DEF AllocStep, ReleaseStep

\* No access takes top past a descriptor, or to one, that another core has.
LEMMA TopStep ==
  ASSUME IInv, NEW c \in Cpu, Call(c) \/ AllocStep(c) \/ ReleaseStep(c) \/ \E d \in Desc : Release(c, d)
  PROVE  TopExact'
<1> USE ArmPoolConstants DEF Desc, Ptr, Null, Word, AllocLabel, ReleaseLabel, At, Goto, pool, regs, hist
<1> USE DEF TopExact, ListEmpty, BelowTop, ReservedTop, ReleaserHolds
<1>0. TypeOK /\ TopExact
      BY DEF IInv
<1>1. ASSUME Call(c) PROVE TopExact'
      BY <1>0, <1>1 DEF TypeOK, Call
<1>2. ASSUME LoadFree(c) PROVE TopExact'
      BY <1>0, <1>2 DEF TypeOK, LoadFree, Reserve
<1>3. ASSUME LoadTop(c) PROVE TopExact'
      BY <1>0, <1>3 DEF TypeOK, LoadTop, NoneLeft, Reserve
<1>4. ASSUME StoreTop(c) PROVE TopExact'
      <2>1. reg[c] = top /\ top \in Desc
            BY <1>0, <1>4 DEF TypeOK, StoreTop, Stores
      <2>2. top' = top + 1 /\ holder' = [holder EXCEPT ![top] = c] /\ UNCHANGED <<free, back>>
            BY <2>1, <1>4 DEF StoreTop
      <2>3. holder[top] = None /\ top \notin back
            BY <1>0, <2>1
      <2>4. BelowTop'
            BY <1>0, <2>1, <2>2 DEF TypeOK
      <2>5. ListEmpty'
            BY <1>0, <1>4 DEF TypeOK, StoreTop
      <2>6. ReservedTop'
            BY <1>0, <1>4 DEF TypeOK, StoreTop, Stores, End
      <2>7. ReleaserHolds'
            BY <1>0, <1>4, <2>2, <2>3 DEF TypeOK, StoreTop
      <2> QED
          BY <2>4, <2>5, <2>6, <2>7
<1>5. ASSUME StoreTopFails(c) PROVE TopExact'
      BY <1>0, <1>5 DEF TypeOK, StoreTopFails, Fails
<1>6. ASSUME Again(c) PROVE TopExact'
      <2>1. /\ pc'[c] \in {"idle", "ag_start"}
            /\ \A b \in Cpu \ {c} : pc'[b] = pc[b] /\ reg'[b] = reg[b]
            BY <1>0, <1>6 DEF TypeOK, Again
      <2>2. UNCHANGED <<free, top, temp, reserved, holder, back>>
            BY <1>6 DEF Again
      <2> QED
          BY <1>0, <2>1, <2>2
<1>7. ASSUME LoadHead(c) PROVE TopExact'
      BY <1>0, <1>7 DEF TypeOK, LoadHead, Reserve
<1>8. ASSUME LinkEnd(c) PROVE TopExact'
      BY <1>0, <1>8 DEF TypeOK, LinkEnd
<1>9. ASSUME StoreHead(c) PROVE TopExact'
      <2>1. PICK d \in Desc : d = reg[c] /\ holder[d] = c
            BY <1>0, <1>9 DEF TypeOK, StoreHead
      <2>2. /\ holder' = [holder EXCEPT ![d] = None]
            /\ back' = back \cup {d}
            /\ free' = Null
            /\ UNCHANGED <<top, reg, temp>>
            BY <1>0, <1>9, <2>1 DEF StoreHead
      <2>3. BelowTop'
            BY <1>0, <2>1, <2>2 DEF TypeOK
      <2>4. ListEmpty'
            BY <1>0, <1>9, <2>2 DEF TypeOK, StoreHead
      <2>5. ReservedTop'
            BY <1>0, <1>9, <2>2 DEF TypeOK, StoreHead, Stores, End
      <2>6. ReleaserHolds'
            BY <1>0, <1>9, <2>1, <2>2 DEF TypeOK, StoreHead
      <2> QED
          BY <2>3, <2>4, <2>5, <2>6
<1>10. ASSUME StoreHeadFails(c) PROVE TopExact'
      BY <1>0, <1>10 DEF TypeOK, StoreHeadFails, Fails
<1>11. ASSUME NEW d \in Desc, Release(c, d) PROVE TopExact'
      BY <1>0, <1>11 DEF TypeOK, Release
<1> QED
    BY <1>1, <1>2, <1>3, <1>4, <1>5, <1>6, <1>7, <1>8, <1>9, <1>10, <1>11 DEF AllocStep, ReleaseStep

\* TypeOK and TopExact are inductive together.
THEOREM InvariantHolds == Spec => []IInv
<1>1. Init => IInv
      BY InitInv
<1>2. IInv /\ [Next]_vars => IInv'
      <2> SUFFICES ASSUME IInv, [Next]_vars PROVE IInv'
          OBVIOUS
      <2>1. CASE UNCHANGED vars
            BY <2>1 DEF IInv, TypeOK, TopExact, ListEmpty, BelowTop, ReservedTop, ReleaserHolds,
                        At, vars, pool, regs, hist
      <2>2. CASE Next
            BY <2>2, TypeStep, TopStep DEF Next, IInv
      <2> QED
          BY <2>1, <2>2
<1> QED
    BY <1>1, <1>2, PTL DEF Spec

\* Every pointer and register of the two routines is NULL or a descriptor.
THEOREM TypeCorrect == Spec => []TypeOK
<1>1. IInv => TypeOK
      BY DEF IInv
<1> QED
    BY <1>1, InvariantHolds, PTL

\* Racing cores never take one descriptor twice and never skip one.
THEOREM TopExactHolds == Spec => []TopExact
<1>1. IInv => TopExact
      BY DEF IInv
<1> QED
    BY <1>1, InvariantHolds, PTL

-----------------------------------------------------------------------------
(* Refinement of PageOwnership                                             *)

\* A core never has more descriptors than there are.
LEMMA Few ==
  ASSUME NEW S, S \in SUBSET Desc
  PROVE  Cardinality(S) \in Nat /\ Cardinality(S) < NumDesc + 1
<1>1. IsFiniteSet(Desc) /\ Cardinality(Desc) = NumDesc
      BY ArmPoolConstants, FS_Interval DEF Desc
<1>2. PICK n \in Nat : n = Cardinality(S) /\ n <= Cardinality(Desc)
      BY <1>1, FS_Subset, FS_CardinalityType
<1> QED
    BY <1>1, <1>2, ArmPoolConstants

\* A store to top grants one descriptor, a store to free releases one, and no
\* other access changes who has what.
LEMMA OwnershipStep ==
  ASSUME IInv, [Next]_vars
  PROVE  [Ownership!Next]_holder
<1> SUFFICES ASSUME NEW c \in Cpu,
                    Call(c) \/ AllocStep(c) \/ ReleaseStep(c) \/ \E d \in Desc : Release(c, d)
             PROVE  Ownership!Next \/ UNCHANGED holder
    BY DEF Next, vars, hist
<1>1. CASE StoreTop(c)
      <2>1. PICK d \in Desc : d = reg[c] /\ d = top
            BY <1>1 DEF IInv, TypeOK, TopExact, ReservedTop, StoreTop, Stores, Desc, Ptr, Null
      <2>2. holder[d] = None
            BY <2>1 DEF IInv, TopExact, BelowTop, Desc
      <2>3. {e \in Desc : holder[e] = c} \in SUBSET Desc
            OBVIOUS
      <2>4. Cardinality({e \in Desc : holder[e] = c}) < NumDesc + 1
            BY <2>3, Few
      <2>5. Ownership!Grant(d, c)
            BY <1>1, <2>1, <2>2, <2>4 DEF StoreTop, Ownership!Grant, Ownership!PagesOf
      <2> QED
          BY <2>5 DEF Ownership!Next
<1>2. CASE StoreHead(c)
      <2>1. PICK d \in Desc : d = reg[c] /\ holder[d] = c
            BY <1>2 DEF IInv, TypeOK, TopExact, ReleaserHolds, StoreHead, At, ReleaseLabel, Ptr
      <2>2. Ownership!Release(d)
            BY <1>2, <2>1, ArmPoolConstants DEF StoreHead, Ownership!Release
      <2> QED
          BY <2>2 DEF Ownership!Next
<1>3. CASE ~StoreTop(c) /\ ~StoreHead(c)
      BY <1>3 DEF Call, AllocStep, LoadFree, LoadTop, StoreTopFails, Again, ReleaseStep, LoadHead,
                  LinkEnd, StoreHeadFails, Release, hist
<1> QED
    BY <1>1, <1>2, <1>3

\* The routines give a descriptor to a core only while no core has it.
THEOREM DescriptorsOwnedHolds == Spec => DescriptorsOwned
<1>1. Init => Ownership!Init
      BY DEF Init, Ownership!Init
<1>2. IInv /\ [Next]_vars => [Ownership!Next]_holder
      BY OwnershipStep
<1> QED
    BY <1>1, <1>2, InvariantHolds, PTL DEF Spec, DescriptorsOwned, Ownership!Spec

-----------------------------------------------------------------------------
(* The system call.                                                        *)

\* The numbers that come to each label.
Region ==
  /\ svcPc = "sys_0_5"   => r7 < 6
  /\ svcPc = "sys_0_2"   => r7 < 3
  /\ svcPc = "sys_3_5"   => r7 \in 3 .. 5
  /\ svcPc = "sys_6_up"  => r7 >= 6
  /\ svcPc = "sys_6_8"   => r7 \in 6 .. 8
  /\ svcPc = "sys_9_up"  => r7 >= 9
  /\ svcPc = "sys_11_up" => r7 >= 11
  /\ svcPc = "sys_0" => r7 = 0
  /\ svcPc = "sys_1" => r7 = 1
  /\ svcPc = "sys_2" => r7 = 2
  /\ svcPc = "sys_3" => r7 = 3
  /\ svcPc = "sys_4" => r7 = 4
  /\ svcPc = "sys_5" => r7 = 5
  /\ svcPc = "sys_6" => r7 = 6
  /\ svcPc = "sys_7" => r7 = 7
  /\ svcPc = "sys_8" => r7 = 8
  /\ svcPc = "sys_9" => r7 = 9
  /\ svcPc = "sys_10" => r7 = 10

\* What was pushed in a call is what r7 was at the svc instruction.
Pushed == saved = own

SvcIInv == SvcTypeOK /\ Region /\ RightHandler /\ Pushed

\* Labels lead to labels, and the caller's r7 comes back.
LEMMA SvcTypeStep ==
  ASSUME SvcTypeOK, SvcNext
  PROVE  SvcTypeOK'
<1>1. ASSUME NEW n \in Number, Svc(n) PROVE SvcTypeOK'
      BY <1>1, SvcConstants DEF Svc, SvcTypeOK, Label, Tree
<1>2. ASSUME Branch PROVE SvcTypeOK'
      <2>1. svcPc' \in Label /\ svcPc' # "user" /\ svcPc \notin {"user", "sys_ret"}
            BY <1>2 DEF Branch, Take, Tree, Test, Label, Bl, Direct
      <2> QED
          BY <1>2, <2>1 DEF Branch, SvcTypeOK
<1>3. ASSUME Handle PROVE SvcTypeOK'
      <2>1. PICK i \in 1 .. 11 : served' = NdlSvc[i]
            BY <1>3 DEF Handle, Bl, NdlSvc
      <2>2. i \in DOMAIN NdlSvc
            BY DEF NdlSvc
      <2>3. mode = "svc"
            BY <1>3 DEF Handle, SvcTypeOK, Bl
      <2> QED
          BY <1>3, <2>1, <2>2, <2>3 DEF Handle, SvcTypeOK, Label
<1>4. ASSUME Answer PROVE SvcTypeOK'
      <2>1. 5 \in DOMAIN NdlSvc /\ NdlSvc[5] = "tick"
            BY DEF NdlSvc
      <2>2. served' \in {"NDL_ENOSVC", NdlSvc[5]}
            BY <1>4, <2>1 DEF Answer, Direct
      <2>3. mode = "svc"
            BY <1>4 DEF Answer, SvcTypeOK, Direct
      <2> QED
          BY <1>4, <2>1, <2>2, <2>3 DEF Answer, SvcTypeOK, Label
<1>5. ASSUME Return PROVE SvcTypeOK'
      BY <1>5 DEF Return, Popped, SvcTypeOK, Label
<1>6. ASSUME Stray PROVE SvcTypeOK'
      BY <1>6 DEF Stray, SvcTypeOK, Label
<1> QED
    BY <1>1, <1>2, <1>3, <1>4, <1>5, <1>6 DEF SvcNext

\* A comparison leads only to labels that its number may come to.
LEMMA BranchStep ==
  ASSUME SvcIInv, Branch
  PROVE  SvcIInv'
<1>a. svcPc \notin {"user", "sys_ret"}
      BY DEF Branch, Tree
<1>0. r7 \in Nat /\ r7' = r7 /\ Region /\ SvcTypeOK'
      BY <1>a, SvcTypeStep DEF SvcIInv, SvcTypeOK, Branch, SvcNext
<1>1. CASE svcPc = "sys_0_up"
      BY <1>0, <1>1 DEF SvcIInv, Branch, Take, Tree, Test, Region, RightHandler, Pushed
<1>2. CASE svcPc = "sys_0_5"
      BY <1>0, <1>2 DEF SvcIInv, Branch, Take, Tree, Test, Region, RightHandler, Pushed
<1>3. CASE svcPc = "sys_0_2"
      BY <1>0, <1>3 DEF SvcIInv, Branch, Take, Tree, Test, Region, RightHandler, Pushed
<1>4. CASE svcPc = "sys_3_5"
      BY <1>0, <1>4 DEF SvcIInv, Branch, Take, Tree, Test, Region, RightHandler, Pushed
<1>5. CASE svcPc = "sys_6_up"
      BY <1>0, <1>5 DEF SvcIInv, Branch, Take, Tree, Test, Region, RightHandler, Pushed
<1>6. CASE svcPc = "sys_6_8"
      BY <1>0, <1>6 DEF SvcIInv, Branch, Take, Tree, Test, Region, RightHandler, Pushed
<1>7. CASE svcPc = "sys_9_up"
      BY <1>0, <1>7 DEF SvcIInv, Branch, Take, Tree, Test, Region, RightHandler, Pushed
<1> QED
    BY <1>1, <1>2, <1>3, <1>4, <1>5, <1>6, <1>7 DEF Branch, Tree

\* What a label that ends the tree serves is what its number is for.
LEMMA ServeStep ==
  ASSUME SvcIInv, Handle \/ Answer
  PROVE  SvcIInv'
<1>a. svcPc \notin {"user", "sys_ret"}
      BY DEF Handle, Answer, Bl, Direct
<1>0. r7 \in Nat /\ r7' = r7 /\ Region /\ svcPc' = "sys_ret" /\ SvcTypeOK'
      BY <1>a, SvcTypeStep DEF SvcIInv, SvcTypeOK, Handle, Answer, SvcNext
<1>1. Len(NdlSvc) = 11
      BY DEF NdlSvc
<1>2. CASE Handle
      <2>1. svcPc \in {"sys_0", "sys_1", "sys_2", "sys_3", "sys_5", "sys_6", "sys_7", "sys_8", "sys_9", "sys_10"}
            BY <1>2 DEF Handle, Bl
      <2>2. r7 < 11 /\ Bl[svcPc] = NdlSvc[r7 + 1]
            BY <1>0, <2>1 DEF Region, Bl, NdlSvc
      <2> QED
          BY <1>0, <1>1, <1>2, <2>2 DEF Handle, SvcIInv, Region, RightHandler, Pushed, Promised
<1>3. CASE Answer
      <2>1. svcPc \in {"sys_4", "sys_11_up"}
            BY <1>3 DEF Answer, Direct
      <2>2. Direct[svcPc] = Promised(r7)
            BY <1>0, <1>1, <2>1 DEF Region, Direct, NdlSvc, Promised
      <2>3. served' = Promised(r7)
            BY <1>3, <2>2 DEF Answer
      <2> QED
          BY <1>0, <1>1, <1>3, <2>3 DEF Answer, SvcIInv, Region, RightHandler, Pushed, Promised
<1> QED
    BY <1>2, <1>3

\* The four parts are inductive together.
THEOREM SvcInvariant == SvcSpec => []SvcIInv
<1>1. SvcInit => SvcIInv
      BY DEF SvcInit, SvcIInv, SvcTypeOK, Label, Region, RightHandler, Pushed
<1>2. SvcIInv /\ [SvcNext]_svcVars => SvcIInv'
      <2> SUFFICES ASSUME SvcIInv, [SvcNext]_svcVars PROVE SvcIInv'
          OBVIOUS
      <2>1. ASSUME NEW n \in Number, Svc(n) PROVE SvcIInv'
            BY <2>1, SvcTypeStep DEF SvcNext, Svc, SvcIInv, Region, RightHandler, Pushed
      <2>2. ASSUME Return PROVE SvcIInv'
            <3>1. svcPc' \in {"user", "sys_ret"} /\ mode' = "usr"
                  BY <2>2 DEF Return, SvcIInv, SvcTypeOK
            <3> QED
                BY <2>2, <3>1, SvcTypeStep DEF Return, SvcNext, SvcIInv, Region, RightHandler, Pushed
      <2>4. ASSUME Stray PROVE SvcIInv'
            BY <2>4, SvcTypeStep DEF Stray, SvcNext, SvcIInv, Region, RightHandler, Pushed
      <2>3. CASE UNCHANGED svcVars
            BY <2>3 DEF svcVars, SvcIInv, SvcTypeOK, Region, RightHandler, Pushed, Promised
      <2> QED
          BY <2>1, <2>2, <2>3, <2>4, BranchStep, ServeStep DEF SvcNext
<1> QED
    BY <1>1, <1>2, PTL DEF SvcSpec

\* Every label a branch names is there, and the mode and r7 fit it.
THEOREM SvcTypeCorrect == SvcSpec => []SvcTypeOK
<1>1. SvcIInv => SvcTypeOK
      BY DEF SvcIInv
<1> QED
    BY <1>1, SvcInvariant, PTL

\* Every number below 11 is served by its handler, every other one refused.
THEOREM RightHandlerHolds == SvcSpec => []RightHandler
<1>1. SvcIInv => RightHandler
      BY DEF SvcIInv
<1> QED
    BY <1>1, SvcInvariant, PTL

\* For every number, and whatever the program keeps in r7, the exception return
\* gives it back.
THEOREM CallerKeepsR7Holds == SvcSpec => CallerKeepsR7
<1>1. SvcIInv /\ [SvcNext]_svcVars => [mode = "svc" /\ mode' = "usr" => r7' = own]_svcVars
      <2> SUFFICES ASSUME SvcIInv, SvcNext, mode = "svc", mode' = "usr"
                   PROVE  r7' = own
          OBVIOUS
      <2>1. Return
            BY DEF SvcNext, Svc, Branch, Handle, Answer, Stray
      <2> QED
          BY <2>1 DEF Return, Popped, SvcIInv, Pushed
<1> QED
    BY <1>1, SvcInvariant, PTL DEF SvcSpec, CallerKeepsR7

-----------------------------------------------------------------------------
(* The model of both.                                                      *)

\* What is proved of the pool and of the system call holds of the model that
\* has both.
THEOREM ArmPartsHold == ArmSpec => Spec /\ SvcSpec
<1>1. ArmInit => Init /\ SvcInit
      BY DEF ArmInit
<1>2. [ArmNext]_armVars => [Next]_vars /\ [SvcNext]_svcVars
      BY DEF ArmNext, armVars
<1> QED
    BY <1>1, <1>2, PTL DEF ArmSpec, Spec, SvcSpec

\* Every pointer, register and label of the two stays in its type.
THEOREM ArmTypeCorrect == ArmSpec => []ArmTypeOK
<1>1. TypeOK /\ SvcTypeOK => ArmTypeOK
      BY DEF ArmTypeOK
<1> QED
    BY <1>1, ArmPartsHold, TypeCorrect, SvcTypeCorrect, PTL
================================================================================
