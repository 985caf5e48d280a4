---------------------------- MODULE TinyCThreadProofs ----------------------------
(***************************************************************************)
(* Proofs about the other parts of kernel/tinycthread.c.  TinyOnce, for    *)
(* any number of threads: call_once calls the callback once, nobody        *)
(* returns before it has, and nobody uses the lock before it is            *)
(* initialised.  TinyTime, for all times and for any number of nanoseconds *)
(* in a millisecond, milliseconds in a second and values of a DWORD: how   *)
(* far the waits may be from what was asked for.  And the model of the     *)
(* three parts (with TinyThread, see TinyThreadProofs) is a model of each. *)
(***************************************************************************)
EXTENDS MCTinyCThread, TinyThreadProofs

-----------------------------------------------------------------------------
(* call_once.                                                              *)

\* Where the thread is that has changed the status from 0 to 1.
OnceFirst == {"init", "enter", "ready", "func", "end", "leave"}
OnceWaits == {"waitEnter", "waitLeave"}

\* There is one such thread, and it decides the status.
OneFirst == \A t, u \in Caller : onceAt[t] \in OnceFirst /\ onceAt[u] \in OnceFirst => t = u

StatusOfFirst ==
  \A t \in Caller :
    /\ onceAt[t] \in {"init", "enter", "ready"} => status = 1
    /\ onceAt[t] \in {"func", "end"} => status = 2
    /\ onceAt[t] = "leave" => status = 3
    /\ onceAt[t] \in OnceWaits => status \in {2, 3}

\* What the status says of the lock and the callback.
StatusTells ==
  /\ status = 0 => ~lockReady
  /\ status \in {0, 1} => calls = 0 /\ ~done
  /\ status \in {2, 3} => calls = 1 /\ lockReady
  /\ status = 3 => done
  /\ \A t \in Caller : onceAt[t] \in {"end", "leave", "after"} => done

OnceIInv == OnceTypeOK /\ OneFirst /\ StatusOfFirst /\ StatusTells /\ LockUsedReady

\* A step moves one thread.
LEMMA OnceMoves ==
  ASSUME NEW t \in Caller, NEW from, NEW to, onceAt \in [Caller -> OnceLabel], OnceGo(t, from, to)
  PROVE  /\ onceAt[t] = from /\ onceAt'[t] = to
         /\ \A u \in Caller : u # t => onceAt'[u] = onceAt[u]
BY DEF OnceGo

\* A step of call_once keeps the types.
LEMMA OnceTypeStep ==
  ASSUME OnceTypeOK, OnceNext
  PROVE  OnceTypeOK'
<1> SUFFICES ASSUME NEW t \in Caller, OnceCall(t) \/ OnceStep(t)
             PROVE  OnceTypeOK'
    BY DEF OnceNext
<1> USE DEF OnceTypeOK, OnceGo, OnceLabel, lock, func
<1>1. CASE OnceCall(t)
      BY <1>1 DEF OnceCall
<1>2. CASE Loop(t)
      BY <1>2 DEF Loop
<1>3. CASE Switch(t)
      <2>1. Case[status] \in OnceLabel
            BY DEF Case
      <2> QED
          BY <1>3, <2>1 DEF Switch
<1>4. CASE Try(t)
      BY <1>4 DEF Try
<1>5. CASE InitLock(t)
      BY <1>5 DEF InitLock
<1>6. CASE EnterLock(t)
      BY <1>6 DEF EnterLock
<1>7. CASE Ready(t)
      BY <1>7 DEF Ready
<1>8. CASE FuncReturns(t)
      BY <1>8 DEF FuncReturns
<1>9. CASE End(t)
      BY <1>9 DEF End, Finish
<1>10. CASE LeaveLock(t)
      BY <1>10 DEF LeaveLock
<1> QED
    BY <1>1, <1>2, <1>3, <1>4, <1>5, <1>6, <1>7, <1>8, <1>9, <1>10 DEF OnceStep

\* A step of call_once keeps the invariant: one thread goes past the exchange.
LEMMA OnceInvStep ==
  ASSUME OnceIInv, OnceNext
  PROVE  OnceIInv'
<1>0. OnceTypeOK'
      BY OnceTypeStep DEF OnceIInv
<1> SUFFICES ASSUME NEW t \in Caller, OnceCall(t) \/ OnceStep(t)
             PROVE  (OneFirst /\ StatusOfFirst /\ StatusTells /\ LockUsedReady)'
    BY <1>0 DEF OnceNext, OnceIInv
<1>a. onceAt \in [Caller -> OnceLabel] /\ status \in 0 .. 3
      BY DEF OnceIInv, OnceTypeOK
<1>b. NoOne \notin Caller
      BY TinyOnceConstants
<1> USE DEF OnceIInv, OneFirst, StatusOfFirst, StatusTells, LockUsedReady, OnceFirst, OnceWaits, lock, func
<1>1. CASE OnceCall(t)
      BY <1>1, <1>a, <1>b, OnceMoves DEF OnceCall
<1>2. CASE Loop(t)
      BY <1>2, <1>a, <1>b, OnceMoves DEF Loop, Finished
<1>3. CASE Switch(t)
      <2>1. Case[status] \in {"try", "while", "waitEnter"} /\ (Case[status] = "waitEnter" => status = 2)
            BY <1>a DEF Case
      <2> QED
          BY <1>3, <1>a, <1>b, <2>1, OnceMoves DEF Switch
<1>4. CASE Try(t)
      <2>1. CASE status = 0
            <3>1. \A u \in Caller : onceAt[u] \notin OnceFirst /\ onceAt[u] \notin OnceWaits
                  BY <2>1, <1>a DEF OnceLabel
            <3>2. onceAt'[t] = "init" /\ \A u \in Caller : u # t => onceAt'[u] = onceAt[u]
                  BY <1>4, <2>1, <1>a, OnceMoves DEF Try, Exchanged
            <3>3. status' = 1 /\ UNCHANGED <<lockReady, lockOwner, calls, done>>
                  BY <1>4, <2>1 DEF Try, Exchanged
            <3>4. OneFirst' /\ StatusOfFirst'
                  BY <3>1, <3>2, <3>3
            <3>5. StatusTells'
                  BY <2>1, <3>2, <3>3
            <3>6. lockOwner = NoOne
                  BY <3>1 DEF OnceTypeOK
            <3>7. LockUsedReady'
                  BY <2>1, <3>1, <3>2, <3>3, <3>6, <1>b
            <3> QED
                BY <3>4, <3>5, <3>7
      <2>2. CASE status # 0
            BY <1>4, <2>2, <1>a, <1>b, OnceMoves DEF Try, Exchanged
      <2> QED
          BY <2>1, <2>2
<1>5. CASE InitLock(t)
      BY <1>5, <1>a, <1>b, OnceMoves DEF InitLock
<1>6. CASE EnterLock(t)
      BY <1>6, <1>a, <1>b, OnceMoves DEF EnterLock
<1>7. CASE Ready(t)
      BY <1>7, <1>a, <1>b, OnceMoves DEF Ready
<1>8. CASE FuncReturns(t)
      BY <1>8, <1>a, <1>b, OnceMoves DEF FuncReturns
<1>9. CASE End(t)
      BY <1>9, <1>a, <1>b, OnceMoves DEF End, Finish
<1>10. CASE LeaveLock(t)
      BY <1>10, <1>a, <1>b, OnceMoves DEF LeaveLock
<1> QED
    BY <1>1, <1>2, <1>3, <1>4, <1>5, <1>6, <1>7, <1>8, <1>9, <1>10 DEF OnceStep

\* The invariant holds at first and every step of call_once keeps it.
THEOREM OnceInvariant == OnceSpec => []OnceIInv
<1>1. OnceInit => OnceIInv
      <2> SUFFICES ASSUME OnceInit PROVE OnceIInv
          OBVIOUS
      <2>1. OnceTypeOK
            <3>1. onceAt \in [Caller -> OnceLabel]
                  BY DEF OnceInit, OnceLabel
            <3>2. status \in 0 .. 3 /\ calls \in Nat
                  BY SMT DEF OnceInit
            <3>3. lockReady \in BOOLEAN /\ done \in BOOLEAN
                  BY Zenon DEF OnceInit
            <3>4. lockOwner \in Caller \cup {NoOne}
                  BY DEF OnceInit
            <3> QED
                BY <3>1, <3>2, <3>3, <3>4 DEF OnceTypeOK
      <2>2. \A t \in Caller : onceAt[t] = "before" /\ lockOwner # t
            BY TinyOnceConstants DEF OnceInit
      <2>3. OneFirst /\ StatusOfFirst /\ LockUsedReady
            BY <2>2 DEF OneFirst, StatusOfFirst, LockUsedReady, OnceFirst, OnceWaits
      <2>4. StatusTells
            BY <2>2 DEF OnceInit, StatusTells
      <2> QED
          BY <2>1, <2>3, <2>4 DEF OnceIInv
<1>2. OnceIInv /\ [OnceNext]_onceVars => OnceIInv'
      <2> SUFFICES ASSUME OnceIInv, [OnceNext]_onceVars PROVE OnceIInv'
          OBVIOUS
      <2>1. CASE OnceNext
            BY <2>1, OnceInvStep
      <2>2. CASE UNCHANGED onceVars
            BY <2>2 DEF onceVars, OnceIInv, OnceTypeOK, OneFirst, StatusOfFirst, StatusTells, LockUsedReady
      <2> QED
          BY <2>1, <2>2
<1> QED
    BY <1>1, <1>2, PTL DEF OnceSpec

\* For any number of threads the status stays 0 to 3 and the lock has an
\* owner among them or none: what the switch of call_once relies on.
THEOREM OnceTypeCorrect == OnceSpec => []OnceTypeOK
<1>1. OnceIInv => OnceTypeOK
      BY DEF OnceIInv
<1> QED
    BY <1>1, OnceInvariant, PTL

\* For any number of threads that come in any order, func runs once, and
\* before any of them returns from call_once.
THEOREM ExactlyOnceHolds == OnceSpec => []ExactlyOnce
<1>1. OnceIInv => ExactlyOnce
      BY DEF OnceIInv, OnceTypeOK, StatusTells, ExactlyOnce
<1> QED
    BY <1>1, OnceInvariant, PTL

\* EnterCriticalSection and LeaveCriticalSection are called on an initialised
\* lock only, which one thread initialises while nobody is inside.
THEOREM LockUsedReadyHolds == OnceSpec => []LockUsedReady
<1>1. OnceIInv => LockUsedReady
      BY DEF OnceIInv
<1> QED
    BY <1>1, OnceInvariant, PTL

-----------------------------------------------------------------------------
(* Times.                                                                  *)

\* The units are positive.
LEMMA Units ==
  /\ NsPerMs \in Nat \ {0} /\ MsPerSec \in Nat \ {0} /\ NsPerSec \in Nat \ {0}
  /\ Dword \in Nat \ {0} /\ Horizon \in Nat
BY TinyTimeConstants DEF NsPerSec

\* Division and remainder.
LEMMA Quotient ==
  ASSUME NEW a \in Int, NEW b \in Nat \ {0}
  PROVE  /\ a \div b \in Int /\ a % b \in 0 .. b - 1
         /\ a = (a \div b) * b + (a % b)
OBVIOUS

\* Multiplying by a positive number keeps the order,
LEMMA Scaled ==
  ASSUME NEW a \in Int, NEW c \in Int, NEW b \in Nat \ {0}
  PROVE  a < c <=> a * b < c * b
OBVIOUS

\* and what is more, is more by the number at least.
LEMMA ScaledMore ==
  ASSUME NEW a \in Int, NEW c \in Int, NEW b \in Nat \ {0}, a < c
  PROVE  a * b + b <= c * b
<1>1. (a + 1) * b = a * b + b /\ a * b \in Int /\ c * b \in Int
      OBVIOUS
<1>2. CASE a + 1 = c
      BY <1>1, <1>2
<1>3. CASE a + 1 < c
      <2>1. (a + 1) * b < c * b
            BY <1>3, Scaled
      <2> QED
          BY <1>1, <2>1
<1> QED
    BY <1>2, <1>3

\* A timespec stands for the nanoseconds it was made of.
LEMMA TimespecExact ==
  ASSUME NEW ns \in Int
  PROVE  /\ Timespec(ns).tv_sec \in Int /\ Timespec(ns).tv_nsec \in 0 .. NsPerSec - 1
         /\ Timespec(ns).tv_sec * NsPerSec + Timespec(ns).tv_nsec = ns
BY Units, Quotient DEF Timespec

\* C's division is off by less than one.
LEMMA MsClose ==
  ASSUME NEW x \in Int
  PROVE  /\ Ms(x) \in Int
         /\ x - NsPerMs < Ms(x) * NsPerMs /\ Ms(x) * NsPerMs < x + NsPerMs
<1>1. CASE x >= 0
      <2>1. /\ x \div NsPerMs \in Int /\ x % NsPerMs \in 0 .. NsPerMs - 1
            /\ x = (x \div NsPerMs) * NsPerMs + (x % NsPerMs)
            BY Units, Quotient
      <2>2. Ms(x) = x \div NsPerMs
            BY <1>1 DEF Ms
      <2> QED
          BY <2>1, <2>2, Units
<1>2. CASE x < 0
      <2>1. /\ (-x) \div NsPerMs \in Int /\ (-x) % NsPerMs \in 0 .. NsPerMs - 1
            /\ -x = ((-x) \div NsPerMs) * NsPerMs + ((-x) % NsPerMs)
            BY Units, Quotient
      <2>2. Ms(x) = -((-x) \div NsPerMs)
            BY <1>2 DEF Ms
      <2>3. Ms(x) \in Int /\ Ms(x) * NsPerMs = -(((-x) \div NsPerMs) * NsPerMs)
            BY <2>1, <2>2, Units
      <2> QED
          BY <2>1, <2>3, Units
<1> QED
    BY <1>1, <1>2

\* What is at most so many whole milliseconds, and less than one more.
LEMMA Whole ==
  ASSUME NEW ns \in Int, NEW q \in Int, q * NsPerMs <= ns, ns < q * NsPerMs + NsPerMs
  PROVE  ns \div NsPerMs = q
<1> DEFINE d == ns \div NsPerMs
<1>1. d \in Int /\ ns % NsPerMs \in 0 .. NsPerMs - 1 /\ ns = d * NsPerMs + (ns % NsPerMs)
      BY Units, Quotient
<1> HIDE DEF d
<1>2. (q + 1) * NsPerMs = q * NsPerMs + NsPerMs /\ (d + 1) * NsPerMs = d * NsPerMs + NsPerMs
      BY <1>1, Units
<1>3. d * NsPerMs < (q + 1) * NsPerMs /\ q * NsPerMs < (d + 1) * NsPerMs
      BY <1>1, <1>2, Units
<1>4. d < q + 1 /\ q < d + 1
      BY <1>1, <1>3, Units, Scaled
<1> QED
    BY <1>1, <1>4 DEF d

\* The milliseconds of a timespec.
LEMMA InMsExact ==
  ASSUME NEW ns \in Int
  PROVE  /\ InMs(Timespec(ns)) = ns \div NsPerMs
         /\ InMs(Timespec(ns)) \in Int
         /\ InMs(Timespec(ns)) * NsPerMs <= ns
         /\ ns < InMs(Timespec(ns)) * NsPerMs + NsPerMs
         /\ Timespec(ns).tv_nsec % NsPerMs = 0 => ns = InMs(Timespec(ns)) * NsPerMs
         /\ Timespec(ns).tv_nsec % NsPerMs # 0 => ns > InMs(Timespec(ns)) * NsPerMs
<1> DEFINE s == Timespec(ns).tv_sec
           n == Timespec(ns).tv_nsec
           q == n \div NsPerMs
           i == InMs(Timespec(ns))
<1>1. s \in Int /\ n \in 0 .. NsPerSec - 1 /\ s * NsPerSec + n = ns
      BY TimespecExact
<1>2. i = s * MsPerSec + q
      BY DEF InMs
<1> HIDE DEF s, n, i
<1>3. q \in Int /\ n % NsPerMs \in 0 .. NsPerMs - 1 /\ n = q * NsPerMs + (n % NsPerMs)
      BY <1>1, Units, Quotient
<1> HIDE DEF q
<1>4. i \in Int /\ i * NsPerMs = s * NsPerSec + q * NsPerMs
      BY <1>1, <1>2, <1>3, Units DEF NsPerSec
<1>5. /\ i * NsPerMs <= ns /\ ns < i * NsPerMs + NsPerMs
      /\ n % NsPerMs = 0 => ns = i * NsPerMs
      /\ n % NsPerMs # 0 => ns > i * NsPerMs
      <2>1. s * NsPerSec \in Int /\ q * NsPerMs \in Int
            BY <1>1, <1>3, Units
      <2> QED
          BY <1>1, <1>3, <1>4, <2>1, Units
<1>6. ns \div NsPerMs = i
      BY <1>4, <1>5, Whole
<1> QED
    BY <1>4, <1>5, <1>6 DEF n, i

\* The clock is read in milliseconds.
LEMMA Reading ==
  ASSUME NEW t \in Int
  PROVE  LET c == (t \div NsPerMs) * NsPerMs
         IN  c \in Int /\ c <= t /\ t < c + NsPerMs /\ c \div NsPerMs = t \div NsPerMs
<1>1. /\ t \div NsPerMs \in Int /\ t % NsPerMs \in 0 .. NsPerMs - 1
      /\ t = (t \div NsPerMs) * NsPerMs + (t % NsPerMs)
      BY Units, Quotient
<1>2. (t \div NsPerMs) * NsPerMs \in Int
      BY <1>1, Units
<1>3. ((t \div NsPerMs) * NsPerMs) \div NsPerMs = t \div NsPerMs
      BY <1>1, <1>2, Units, Whole
<1> QED
    BY <1>1, <1>2, <1>3, Units

\* A timespec is past another only if its time is.
LEMMA PastExact ==
  ASSUME NEW a \in Int, NEW b \in Int
  PROVE  Past(Timespec(a), Timespec(b)) <=> a >= b
<1> DEFINE s == Timespec(a).tv_sec
           n == Timespec(a).tv_nsec
           u == Timespec(b).tv_sec
           m == Timespec(b).tv_nsec
<1>1. /\ s \in Int /\ n \in 0 .. NsPerSec - 1 /\ s * NsPerSec + n = a
      /\ u \in Int /\ m \in 0 .. NsPerSec - 1 /\ u * NsPerSec + m = b
      BY TimespecExact
<1>2. Past(Timespec(a), Timespec(b)) <=> s > u \/ (s = u /\ n >= m)
      BY DEF Past
<1> HIDE DEF s, n, u, m
<1>3. s * NsPerSec \in Int /\ u * NsPerSec \in Int
      BY <1>1, Units
<1>4. CASE s > u
      <2>1. u * NsPerSec + NsPerSec <= s * NsPerSec
            BY <1>1, <1>4, Units, ScaledMore
      <2> QED
          BY <1>1, <1>2, <1>3, <1>4, <2>1, Units
<1>5. CASE s = u
      BY <1>1, <1>2, <1>3, <1>5, Units
<1>6. CASE s < u
      <2>1. s * NsPerSec + NsPerSec <= u * NsPerSec
            BY <1>1, <1>6, Units, ScaledMore
      <2> QED
          BY <1>1, <1>2, <1>3, <1>6, <2>1, Units
<1> QED
    BY <1>1, <1>4, <1>5, <1>6

-----------------------------------------------------------------------------
(* What the platform is told to wait.                                      *)

\* A number of milliseconds that is no more than a DWORD can hold is itself.
LEMMA InDword ==
  ASSUME NEW v \in Nat, NEW x \in Int, x <= (Dword - 4) * NsPerMs, v * NsPerMs < x + 4 * NsPerMs
  PROVE  v % Dword = v
<1>1. (Dword - 4) * NsPerMs = Dword * NsPerMs - 4 * NsPerMs
      BY Units
<1>2. v * NsPerMs \in Int /\ Dword * NsPerMs \in Int
      BY Units
<1>3. v * NsPerMs < Dword * NsPerMs
      BY <1>1, <1>2, Units
<1>4. v < Dword
      BY <1>3, Units, Scaled
<1> QED
    BY <1>4, Units

\* A positive multiple is of a positive number.
LEMMA ScaledPositive ==
  ASSUME NEW v \in Int, NEW b \in Nat \ {0}
  PROVE  /\ v * b \in Int
         /\ v * b > 0 => v \in Nat
         /\ v * b > -b => v \in Nat
<1>1. 0 * b = 0 /\ (-1) * b = -b /\ v * b \in Int
      OBVIOUS
<1>2. v * b > -b => v > -1
      BY <1>1, Scaled
<1>3. v * b > 0 => v > 0
      BY <1>1, Scaled
<1> QED
    BY <1>1, <1>2, <1>3

\* mtx_timedlock waits at least until its time and at most three units longer.
LEMMA LockRounds ==
  ASSUME NEW now \in Nat, NEW ns \in Nat, ns > now, Fits(ns - now)
  PROVE  LET ms == LockMs(Timespec((now \div NsPerMs) * NsPerMs), Timespec(ns))
         IN  /\ ms \in Int
             /\ now + ms * NsPerMs >= ns /\ now + ms * NsPerMs < ns + 3 * NsPerMs
<1> DEFINE c == (now \div NsPerMs) * NsPerMs
           s == Timespec(c).tv_sec
           n == Timespec(c).tv_nsec
           u == Timespec(ns).tv_sec
           m == Timespec(ns).tv_nsec
           r == Ms(m - n)
           v == (u - s) * MsPerSec + r + 1
<1>1. c \in Int /\ c <= now /\ now < c + NsPerMs
      BY Reading
<1>2. LockMs(Timespec(c), Timespec(ns)) = v % Dword
      BY <1>1, PastExact DEF LockMs
<1>3. /\ s \in Int /\ n \in 0 .. NsPerSec - 1 /\ s * NsPerSec + n = c
      /\ u \in Int /\ m \in 0 .. NsPerSec - 1 /\ u * NsPerSec + m = ns
      BY <1>1, TimespecExact
<1> HIDE DEF c, s, n, u, m
<1>4. /\ r \in Int /\ m - n - NsPerMs < r * NsPerMs /\ r * NsPerMs < m - n + NsPerMs
      BY <1>3, Units, MsClose
<1> HIDE DEF r
<1>5. (u - s) * MsPerSec * NsPerMs = u * NsPerSec - s * NsPerSec
      BY <1>3, Units DEF NsPerSec
<1>6. v \in Int /\ v * NsPerMs = u * NsPerSec - s * NsPerSec + r * NsPerMs + NsPerMs
      <2>1. (u - s) * MsPerSec \in Int
            BY <1>3, Units
      <2>2. ((u - s) * MsPerSec + r + 1) * NsPerMs = (u - s) * MsPerSec * NsPerMs + r * NsPerMs + NsPerMs
            BY <1>4, <2>1, Units
      <2> QED
          BY <1>4, <1>5, <2>1, <2>2
<1> HIDE DEF v
<1>7. /\ u * NsPerSec \in Int /\ s * NsPerSec \in Int /\ r * NsPerMs \in Int
      /\ v * NsPerMs \in Int
      BY <1>3, <1>4, <1>6, Units
<1>8. ns - c < v * NsPerMs /\ v * NsPerMs < ns - c + 2 * NsPerMs
      BY <1>3, <1>4, <1>6, <1>7, Units
<1>9. v \in Nat
      BY <1>1, <1>6, <1>7, <1>8, Units, ScaledPositive
<1>10. v % Dword = v
       <2>1. v * NsPerMs < (ns - now) + 4 * NsPerMs
             BY <1>1, <1>7, <1>8, Units
       <2> QED
           BY <1>9, <2>1, InDword DEF Fits
<1> QED
    BY <1>1, <1>2, <1>7, <1>8, <1>9, <1>10, Units DEF c

\* cnd_timedwait rounds its time and the clock's down: less than a unit off.
LEMMA WaitRounds ==
  ASSUME NEW now \in Nat, NEW ns \in Nat, ns > now, Fits(ns - now)
  PROVE  LET ms == WaitMs(Timespec((now \div NsPerMs) * NsPerMs), Timespec(ns))
         IN  /\ ms \in Int
             /\ now + ms * NsPerMs > ns - NsPerMs /\ now + ms * NsPerMs < ns + NsPerMs
<1> DEFINE c == (now \div NsPerMs) * NsPerMs
           i == InMs(Timespec(c))
           j == InMs(Timespec(ns))
           v == j - i
<1>1. c \in Int /\ c <= now /\ now < c + NsPerMs /\ i = now \div NsPerMs
      BY Reading, InMsExact
<1>2. i \in Int /\ i * NsPerMs = c
      BY <1>1, InMsExact
<1>3. j \in Int /\ j * NsPerMs <= ns /\ ns < j * NsPerMs + NsPerMs
      BY InMsExact
<1>4. WaitMs(Timespec(c), Timespec(ns)) = IF j > i THEN v % Dword ELSE 0
      BY DEF WaitMs
<1> HIDE DEF c, i, j
<1>5. v \in Int /\ v * NsPerMs = j * NsPerMs - i * NsPerMs /\ j * NsPerMs \in Int
      BY <1>2, <1>3, Units
<1> HIDE DEF v
<1>6. v * NsPerMs \in Int
      BY <1>5, Units
<1>7. CASE j > i
      <2>1. v \in Nat
            BY <1>2, <1>3, <1>7 DEF v
      <2>2. v % Dword = v
            <3>1. v * NsPerMs < (ns - now) + 4 * NsPerMs
                  BY <1>1, <1>2, <1>3, <1>5, <1>6, Units
            <3> QED
                BY <2>1, <3>1, InDword DEF Fits
      <2>3. now + v * NsPerMs > ns - NsPerMs /\ now + v * NsPerMs < ns + NsPerMs
            BY <1>1, <1>2, <1>3, <1>5, <1>6, Units
      <2> QED
          BY <1>4, <1>5, <1>7, <2>2, <2>3 DEF c
<1>8. CASE ~(j > i)
      <2>1. i = j \/ j < i
            BY <1>2, <1>3, <1>8
      <2>2. j * NsPerMs <= i * NsPerMs
            BY <1>2, <1>3, <2>1, Units, Scaled
      <2>3. 0 * NsPerMs = 0
            BY Units
      <2>4. now > ns - NsPerMs /\ now < ns + NsPerMs
            BY <1>1, <1>2, <1>3, <1>5, <2>2, Units
      <2> QED
          BY <1>4, <1>8, <2>3, <2>4 DEF c
<1> QED
    BY <1>7, <1>8

\* thrd_sleep rounds up.
LEMMA SleepRounds ==
  ASSUME NEW ns \in Nat, Fits(ns)
  PROVE  LET ms == SleepMs(Timespec(ns))
         IN  ms \in Int /\ ms * NsPerMs >= ns /\ ms * NsPerMs < ns + NsPerMs
<1> DEFINE i == InMs(Timespec(ns))
           e == IF Timespec(ns).tv_nsec % NsPerMs = 0 THEN 0 ELSE 1
           v == i + e
<1>1. /\ i \in Int /\ i * NsPerMs <= ns /\ ns < i * NsPerMs + NsPerMs
      /\ e = 0 => ns = i * NsPerMs
      /\ e = 1 => ns > i * NsPerMs
      BY InMsExact
<1>2. e \in {0, 1} /\ SleepMs(Timespec(ns)) = v % Dword
      BY DEF SleepMs
<1> HIDE DEF i, e
<1>3. /\ v \in Int /\ i * NsPerMs \in Int
      /\ v * NsPerMs = i * NsPerMs + (IF e = 0 THEN 0 ELSE NsPerMs)
      <2>1. CASE e = 0
            BY <1>1, <2>1, Units
      <2>2. CASE e = 1
            BY <1>1, <2>2, Units
      <2> QED
          BY <1>2, <2>1, <2>2
<1> HIDE DEF v
<1>4. v * NsPerMs >= ns /\ v * NsPerMs < ns + NsPerMs
      BY <1>1, <1>2, <1>3, Units
<1>5. v \in Nat
      BY <1>3, <1>4, Units, ScaledPositive
<1>6. v % Dword = v
      <2>1. v * NsPerMs < ns + 4 * NsPerMs
            BY <1>3, <1>4, Units, ScaledPositive
      <2> QED
          BY <1>5, <2>1, InDword DEF Fits
<1> QED
    BY <1>2, <1>4, <1>5, <1>6

-----------------------------------------------------------------------------
(* The times of every step.                                                *)

\* The inductive invariant.
TimeIInv == TimeTypeOK /\ TimeoutsHold

\* What platform calls are given fits a DWORD.
LEMMA DwordType ==
  ASSUME NEW now \in Int, NEW ns \in Int
  PROVE  /\ LockMs(Timespec(now), Timespec(ns)) \in 0 .. Dword - 1
         /\ WaitMs(Timespec(now), Timespec(ns)) \in 0 .. Dword - 1
         /\ SleepMs(Timespec(ns)) \in 0 .. Dword - 1
<1>1. \A v \in Int : v % Dword \in 0 .. Dword - 1
      BY Units, Quotient
<1>2. 0 \in 0 .. Dword - 1
      BY Units
<1>3. InMs(Timespec(now)) \in Int /\ InMs(Timespec(ns)) \in Int
      BY InMsExact
<1>4. /\ Timespec(now).tv_sec \in Int /\ Timespec(now).tv_nsec \in Int
      /\ Timespec(ns).tv_sec \in Int /\ Timespec(ns).tv_nsec \in Int
      BY TimespecExact
<1>5. Ms(Timespec(ns).tv_nsec - Timespec(now).tv_nsec) \in Int
      BY <1>4, MsClose
<1>6. (Timespec(ns).tv_sec - Timespec(now).tv_sec) * MsPerSec
        + Ms(Timespec(ns).tv_nsec - Timespec(now).tv_nsec) + 1 \in Int
      BY <1>4, <1>5, Units
<1>7. LockMs(Timespec(now), Timespec(ns)) \in 0 .. Dword - 1
      BY <1>1, <1>2, <1>6 DEF LockMs
<1>8. WaitMs(Timespec(now), Timespec(ns)) \in 0 .. Dword - 1
      BY <1>1, <1>2, <1>3 DEF WaitMs
<1>9. SleepMs(Timespec(ns)) \in 0 .. Dword - 1
      BY <1>1, <1>3 DEF SleepMs
<1> QED
    BY <1>7, <1>8, <1>9

\* A call that waits.
LEMMA TimedCallKept ==
  ASSUME TimeIInv, NEW ns \in 0 .. Horizon, NEW call \in {"lock", "wait", "sleep"},
         NEW ms \in 0 .. Dword - 1, TimedCall(call, ns, ms),
         call = "lock" => ms = LockMs(TimespecGet, Timespec(ns)),
         call = "wait" => ms = WaitMs(TimespecGet, Timespec(ns)),
         call = "sleep" => ms = SleepMs(Timespec(ns))
  PROVE  TimeIInv'
<1>1. /\ timeCall' = call /\ since' = clock /\ goal' = ns /\ waitMs' = ms
      /\ clock' = clock /\ remaining' = remaining
      BY DEF TimedCall
<1>2. TimeTypeOK'
      BY <1>1 DEF TimeIInv, TimeTypeOK
<1>3. ns \in Nat /\ clock \in Nat /\ ms \in Nat
      BY Units DEF TimeIInv, TimeTypeOK
<1>4. ns + NsPerMs <= ns + 3 * NsPerMs
      BY <1>3, Units
<1>5. CASE call = "lock"
      <2>1. ns > clock /\ Fits(ns - clock) =>
              clock + ms * NsPerMs >= ns /\ clock + ms * NsPerMs < ns + 3 * NsPerMs
            BY <1>3, <1>5, LockRounds DEF TimespecGet
      <2>2. TimeoutsHold'
            BY <1>1, <1>5, <2>1 DEF TimeoutsHold, Ends, Fits
      <2> QED
          BY <1>2, <2>2 DEF TimeIInv
<1>6. CASE call = "wait"
      <2>0. ms * NsPerMs \in Int
            BY <1>3, Units
      <2>1. ns > clock /\ Fits(ns - clock) => clock + ms * NsPerMs < ns + 3 * NsPerMs
            <3>1. ns > clock /\ Fits(ns - clock) => clock + ms * NsPerMs < ns + NsPerMs
                  BY <1>3, <1>6, WaitRounds DEF TimespecGet
            <3> QED
                BY <1>3, <1>4, <2>0, <3>1, Units
      <2>2. TimeoutsHold'
            BY <1>1, <1>6, <2>1 DEF TimeoutsHold, Ends, Fits
      <2> QED
          BY <1>2, <2>2 DEF TimeIInv
<1>7. CASE call = "sleep"
      <2>1. Fits(ns) => ms * NsPerMs >= ns /\ ms * NsPerMs < ns + NsPerMs
            BY <1>3, <1>7, SleepRounds
      <2>2. ms * NsPerMs \in Int
            BY <1>3, Units
      <2>3. Fits(ns) => /\ clock + ms * NsPerMs >= clock + ns
                        /\ clock + ms * NsPerMs < clock + ns + NsPerMs
            BY <1>3, <2>1, <2>2, Units
      <2>4. TimeoutsHold'
            BY <1>1, <1>7, <2>3 DEF TimeoutsHold, Ends, Fits
      <2> QED
          BY <1>2, <2>4 DEF TimeIInv
<1> QED
    BY <1>5, <1>6, <1>7

\* An interrupted sleep stores the difference of two readings of the clock, which
\* one borrow makes a timespec.
LEMMA InterruptedKept ==
  ASSUME TimeIInv, Interrupted
  PROVE  TimeIInv'
<1> DEFINE c == (clock \div NsPerMs) * NsPerMs
           d == (since \div NsPerMs) * NsPerMs
           s == Timespec(c).tv_sec
           n == Timespec(c).tv_nsec
           u == Timespec(d).tv_sec
           m == Timespec(d).tv_nsec
           b == Borrowed([tv_sec |-> s - u, tv_nsec |-> n - m])
<1>1. clock \in Int /\ since \in Int
      BY Units DEF TimeIInv, TimeTypeOK
<1>2. /\ c \in Int /\ c <= clock /\ clock < c + NsPerMs
      /\ d \in Int /\ d <= since /\ since < d + NsPerMs
      BY <1>1, Reading
<1>3. /\ timeCall' = "woken" /\ remaining' = b
      /\ UNCHANGED <<clock, since, goal, waitMs>>
      BY DEF Interrupted, TimespecGet, StartTime
<1> HIDE DEF c, d
<1>4. /\ s \in Int /\ n \in 0 .. NsPerSec - 1 /\ s * NsPerSec + n = c
      /\ u \in Int /\ m \in 0 .. NsPerSec - 1 /\ u * NsPerSec + m = d
      BY <1>2, TimespecExact
<1> HIDE DEF s, n, u, m
<1>5. n - m \in Int
      BY <1>4, Units
<1>6. b \in [tv_sec : Int, tv_nsec : 0 .. NsPerSec - 1]
      <2>1. CASE n - m < 0
            <3>1. b = [tv_sec |-> s - u - 1, tv_nsec |-> n - m + NsPerSec]
                  BY <2>1 DEF Borrowed
            <3>2. n - m + NsPerSec \in 0 .. NsPerSec - 1 /\ s - u - 1 \in Int
                  BY <1>4, <1>5, <2>1, Units
            <3> QED
                BY <3>1, <3>2
      <2>2. CASE ~(n - m < 0)
            <3>1. b = [tv_sec |-> s - u, tv_nsec |-> n - m]
                  BY <2>2 DEF Borrowed
            <3>2. n - m \in 0 .. NsPerSec - 1 /\ s - u \in Int
                  BY <1>4, <2>2, Units
            <3> QED
                BY <3>1, <3>2
      <2> QED
          BY <2>1, <2>2
<1> HIDE DEF b
<1>7. TimeTypeOK'
      BY <1>3, <1>6 DEF TimeIInv, TimeTypeOK
<1>8. TimeoutsHold'
      BY <1>3 DEF TimeoutsHold
<1> QED
    BY <1>7, <1>8 DEF TimeIInv

\* Every step keeps the invariant.
LEMMA TimeStep ==
  ASSUME TimeIInv, [TimeNext]_timeVars
  PROVE  TimeIInv'
<1>1. clock \in Int /\ (clock \div NsPerMs) * NsPerMs \in Int
      BY Units, Reading DEF TimeIInv, TimeTypeOK
<1>2. ASSUME NEW ns \in 0 .. Horizon, TimedLock(ns) \/ TimedWait(ns) \/ Sleep(ns)
      PROVE  TimeIInv'
      <2>1. /\ LockMs(TimespecGet, Timespec(ns)) \in 0 .. Dword - 1
            /\ WaitMs(TimespecGet, Timespec(ns)) \in 0 .. Dword - 1
            /\ SleepMs(Timespec(ns)) \in 0 .. Dword - 1
            BY <1>1, DwordType DEF TimespecGet
      <2>2. CASE TimedLock(ns)
            BY <2>1, <2>2, TimedCallKept DEF TimedLock
      <2>3. CASE TimedWait(ns)
            BY <2>1, <2>3, TimedCallKept DEF TimedWait
      <2>4. CASE Sleep(ns)
            BY <2>1, <2>4, TimedCallKept DEF Sleep
      <2> QED
          BY <1>2, <2>2, <2>3, <2>4
<1>3. CASE Tick
      <2>1. /\ timeCall' = timeCall /\ since' = since /\ goal' = goal /\ waitMs' = waitMs
            /\ remaining' = remaining /\ timeCall = "sleep" /\ clock' \in 0 .. Horizon
            BY <1>3, Units DEF Tick, TimeIInv, TimeTypeOK
      <2> QED
          BY <2>1 DEF TimeIInv, TimeTypeOK, TimeoutsHold, Ends
<1>4. CASE UNCHANGED timeVars
      BY <1>4 DEF timeVars, TimeIInv, TimeTypeOK, TimeoutsHold, Ends
<1> QED
    BY <1>2, <1>3, <1>4, InterruptedKept DEF TimeNext

\* Before the first call nothing is claimed.
LEMMA TimeInitInv ==
  ASSUME TimeInit
  PROVE  TimeIInv
<1>1. Timespec(0) \in [tv_sec : Int, tv_nsec : 0 .. NsPerSec - 1]
      BY TimespecExact DEF Timespec
<1>2. TimeTypeOK
      BY <1>1, Units DEF TimeInit, TimeTypeOK
<1>3. TimeoutsHold
      BY DEF TimeInit, TimeoutsHold
<1> QED
    BY <1>2, <1>3 DEF TimeIInv

\* TimeIInv is inductive: the times, the horizon and the units are any.
THEOREM TimeInvariant == TimeSpec => []TimeIInv
<1>1. TimeInit => TimeIInv
      BY TimeInitInv
<1>2. TimeIInv /\ [TimeNext]_timeVars => TimeIInv'
      BY TimeStep
<1> QED
    BY <1>1, <1>2, PTL DEF TimeSpec

\* What the waits are given and the timespecs that are stored stay in their types,
\* whatever the clock reads and the caller asks for.
THEOREM TimeTypeCorrect == TimeSpec => []TimeTypeOK
<1>1. TimeIInv => TimeTypeOK
      BY DEF TimeIInv
<1> QED
    BY <1>1, TimeInvariant, PTL

\* A lock never runs out early, a sleep neither early nor a millisecond late, and
\* no call of the three is three milliseconds late, if the milliseconds fit a DWORD.
THEOREM TimeoutsHoldHolds == TimeSpec => []TimeoutsHold
<1>1. TimeIInv => TimeoutsHold
      BY DEF TimeIInv
<1> QED
    BY <1>1, TimeInvariant, PTL

-----------------------------------------------------------------------------
(* The model of the three parts.                                           *)

\* What is proved of each part holds of the model that has them all, and which
\* TLC checks.
THEOREM TinyPartsHold == TinySpec => OnceSpec /\ ThreadSpec /\ TimeSpec
<1>1. TinyInit => OnceInit /\ ThreadInit /\ TimeInit
      BY DEF TinyInit
<1>2. [TinyNext]_tinyVars => /\ [OnceNext]_onceVars /\ [ThreadNext]_threadVars
                             /\ [TimeNext]_timeVars
      BY DEF TinyNext, tinyVars
<1> QED
    BY <1>1, <1>2, PTL DEF TinySpec, OnceSpec, ThreadSpec, TimeSpec

\* Every counter, flag and pointer of the three parts stays in its type.
THEOREM TinyTypeCorrect == TinySpec => []TinyTypeOK
<1>1. OnceTypeOK /\ ThreadTypeOK /\ TimeTypeOK => TinyTypeOK
      BY DEF TinyTypeOK
<1> QED
    BY <1>1, TinyPartsHold, OnceTypeCorrect, ThreadTypeCorrect, TimeTypeCorrect, PTL
==================================================================================
