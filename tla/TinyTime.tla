------------------------------- MODULE TinyTime -------------------------------
(***************************************************************************)
(* The times of kernel/tinycthread.c for Windows: how mtx_timedlock and    *)
(* cnd_timedwait turn a point in time, and thrd_sleep a duration, into the *)
(* milliseconds a platform call takes in a 32-bit DWORD, and what          *)
(* thrd_sleep stores in `remaining' when it is interrupted.  Time is real  *)
(* time in nanoseconds; _tthread_timespec_get reads it in milliseconds.    *)
(***************************************************************************)
EXTENDS Integers

CONSTANTS
  NsPerMs,   \* 1000000
  MsPerSec,  \* 1000
  Dword,     \* 2^32
  Horizon    \* bound: the times considered, in nanoseconds

ASSUME TinyTimeConstants ==
  /\ NsPerMs \in Nat \ {0} /\ MsPerSec \in Nat \ {0} /\ Dword \in Nat \ {0}
  /\ Horizon \in Nat

NsPerSec == NsPerMs * MsPerSec

VARIABLES
  clock,      \* the real time
  timeCall,   \* the call under way: "none", "lock", "wait", "sleep" or "woken"
  since,      \* the real time at which it was made
  goal,       \* the point in time, or the duration, that it was given
  waitMs,     \* the DWORD given to the platform
  remaining   \* what thrd_sleep stores

timeVars == <<clock, timeCall, since, goal, waitMs, remaining>>

Timespec(ns) == [tv_sec |-> ns \div NsPerSec, tv_nsec |-> ns % NsPerSec]
Nanoseconds(ts) == ts.tv_sec * NsPerSec + ts.tv_nsec

TimeTypeOK ==
  /\ clock \in 0 .. Horizon
  /\ timeCall \in {"none", "lock", "wait", "sleep", "woken"}
  /\ since \in 0 .. Horizon /\ goal \in 0 .. Horizon
  /\ waitMs \in 0 .. Dword - 1
  /\ remaining \in [tv_sec : Int, tv_nsec : 0 .. NsPerSec - 1]

TimeInit ==
  /\ clock \in 0 .. Horizon
  /\ timeCall = "none"
  /\ since = 0 /\ goal = 0 /\ waitMs = 0
  /\ remaining = Timespec(0)

-----------------------------------------------------------------------------
\* _ftime_s
TimespecGet == Timespec((clock \div NsPerMs) * NsPerMs)

\* C's division of a long, which rounds towards zero.
Ms(ns) == IF ns >= 0 THEN ns \div NsPerMs ELSE -((-ns) \div NsPerMs)

Past(now, ts) ==
  \/ now.tv_sec > ts.tv_sec
  \/ now.tv_sec = ts.tv_sec /\ now.tv_nsec >= ts.tv_nsec

TruncatedMs(now, ts) ==   \* a mistaken LockMs: what the division cuts off is lost
  IF Past(now, ts) THEN 0
  ELSE ((ts.tv_sec - now.tv_sec) * MsPerSec + Ms(ts.tv_nsec - now.tv_nsec)) % Dword

LockMs(now, ts) ==
  IF Past(now, ts) THEN 0
  ELSE ((ts.tv_sec - now.tv_sec) * MsPerSec + Ms(ts.tv_nsec - now.tv_nsec) + 1) % Dword

InMs(ts) == ts.tv_sec * MsPerSec + ts.tv_nsec \div NsPerMs

WaitMs(now, ts) == IF InMs(ts) > InMs(now) THEN (InMs(ts) - InMs(now)) % Dword ELSE 0

SleepMs(ts) == (InMs(ts) + (IF ts.tv_nsec % NsPerMs = 0 THEN 0 ELSE 1)) % Dword

TimedCall(call, ns, ms) ==
  /\ timeCall = "none"
  /\ timeCall' = call
  /\ since' = clock
  /\ goal' = ns
  /\ waitMs' = ms
  /\ UNCHANGED <<clock, remaining>>

TimedLock(ns) == TimedCall("lock", ns, LockMs(TimespecGet, Timespec(ns)))
TimedWait(ns) == TimedCall("wait", ns, WaitMs(TimespecGet, Timespec(ns)))
Sleep(ns) == TimedCall("sleep", ns, SleepMs(Timespec(ns)))

Tick ==
  /\ timeCall = "sleep" /\ clock < Horizon
  /\ clock' = clock + 1
  /\ UNCHANGED <<timeCall, since, goal, waitMs, remaining>>

\* SleepEx comes back before its time: now minus start, with a borrow.
Borrowed(ts) ==
  IF ts.tv_nsec < 0 THEN [tv_sec |-> ts.tv_sec - 1, tv_nsec |-> ts.tv_nsec + NsPerSec] ELSE ts

StartTime == Timespec((since \div NsPerMs) * NsPerMs)

Interrupted ==
  /\ timeCall = "sleep"
  /\ timeCall' = "woken"
  /\ remaining' = Borrowed([tv_sec |-> TimespecGet.tv_sec - StartTime.tv_sec,
                            tv_nsec |-> TimespecGet.tv_nsec - StartTime.tv_nsec])
  /\ UNCHANGED <<clock, since, goal, waitMs>>

TimeNext ==
  \/ \E ns \in 0 .. Horizon : TimedLock(ns) \/ TimedWait(ns) \/ Sleep(ns)
  \/ Tick \/ Interrupted

TimeSpec == TimeInit /\ [][TimeNext]_timeVars

-----------------------------------------------------------------------------
(* Properties                                                              *)

\* The milliseconds fit into a DWORD and do not read INFINITE.
Fits(ns) == ns <= (Dword - 4) * NsPerMs

(***************************************************************************)
(* When a wait runs out, if its milliseconds fit: a lock never before its  *)
(* time, a sleep not before its duration and less than one millisecond     *)
(* after; and no call of the three is three milliseconds late.             *)
(***************************************************************************)
Ends == since + waitMs * NsPerMs

TimeoutsHold ==
  /\ timeCall = "lock" /\ goal > since /\ Fits(goal - since) =>
       Ends >= goal /\ Ends < goal + 3 * NsPerMs
  /\ timeCall = "wait" /\ goal > since /\ Fits(goal - since) =>
       Ends < goal + 3 * NsPerMs
  /\ timeCall = "sleep" /\ Fits(goal) =>
       Ends >= since + goal /\ Ends < since + goal + NsPerMs

(***************************************************************************)
(* cnd_timedwait blocks "until after the specified time" (tinycthread.h,   *)
(* line 310).  Does not hold, even where the milliseconds fit: the code    *)
(* rounds the time down, and adds nothing for it.                          *)
(***************************************************************************)
WaitNotEarly ==
  timeCall = "wait" /\ goal > since /\ Fits(goal - since) => Ends >= goal

(***************************************************************************)
(* mtx_timedlock answers thrd_timedout "if the time specified was reached" *)
(* (tinycthread.h, line 230), however far away that is.  Does not hold:    *)
(* the code cuts the milliseconds to 32 bits.                              *)
(***************************************************************************)
LockNotEarly == timeCall = "lock" /\ goal > since => Ends >= goal

(***************************************************************************)
(* What an interrupted sleep stores is "the remaining time"                *)
(* (tinycthread.h, line 388), give or take the millisecond that the clock  *)
(* is read in.  Does not hold: it is the time slept.                       *)
(***************************************************************************)
Left == goal - (clock - since)
RemainingIsLeft ==
  timeCall = "woken" /\ Left >= 0 =>
    /\ Nanoseconds(remaining) > Left - NsPerMs
    /\ Nanoseconds(remaining) < Left + NsPerMs
=============================================================================
