---------------------------- MODULE TransferJobs ----------------------------
(***************************************************************************)
(* The scheduler of conversation handoffs (threadtransfer.Jobs): SQLite is *)
(* the queue, memory holds at most Workers running attempts and the wakes  *)
(* that race them.  Changes of an operation are committed by request       *)
(* handlers and user calls, which then wake its worker.                    *)
(*                                                                         *)
(* Operations are numbered in the order of their creation.  Times are      *)
(* relative: a tick brings every deadline closer, and of those long past   *)
(* only the order is kept.                                                 *)
(***************************************************************************)
EXTENDS Integers, FiniteSets, FiniteSetsExt

CONSTANTS
    Ops,        \* operations, a set of numbers
    Outgoing,   \* those this computer sends
    Workers,    \* how many attempts may run at once
    Delays,     \* how many ticks a retry may be put off
    MaxNews,    \* bound: how many changes the handlers commit
    MaxTails    \* bound: finished attempts that have yet to signal

ASSUME OpsAssumption == Ops \subseteq Nat /\ IsFiniteSet(Ops) /\ Outgoing \subseteq Ops
ASSUME WorkersAssumption == Workers \in Nat \ {0}
ASSUME DelaysAssumption ==
    Delays \subseteq Nat \ {0} /\ \E longest \in Delays : \A d \in Delays : d <= longest
ASSUME BoundsAssumption == MaxNews \in Nat /\ MaxTails \in Nat \ {0}

VARIABLES
    row,        \* the journal: phase, next attempt, and news no attempt has read
    unwoken,    \* operations changed by a caller that has yet to call Wake
    unrecorded, \* ... and those whose Wake failed to write, and was reported
    news,       \* how many changes were committed
    life,       \* "up", "closing" (the context is done), "joined" or "down"
    active,     \* Jobs.active: running attempts, and whether a wake arrived
    attempt,    \* where the goroutine of each attempt is
    tails,      \* how many goroutines have finished but not signaled
    callers,    \* how many callers of Wake have yet to signal
    wake,       \* Jobs.wake: a channel of one token
    retryAfter, \* no dispatch before this time
    loop        \* the scheduler's goroutine: where it is and its timer

memory == <<active, attempt, tails, callers, wake, retryAfter, loop>>
vars == <<row, unwoken, unrecorded, news, life, memory>>

Parked == Max(Delays) + 1   \* math.MaxInt64
NoTimer == Parked
Overdue == -Cardinality(Ops)
Woken == Overdue - 1        \* next_attempt_at = 0, before every other time
Times == Overdue .. Max(Delays)

\* A deadline after a tick.
Closer(time) == IF time \in {0, Parked} THEN time ELSE time - 1

\* ... and a row's: the overdue ones keep their order and no more.
Aged(op) ==
    LET past == {row[o].next : o \in Ops} \ {Woken}
    IN  IF row[op].next \in {Woken, Parked} THEN row[op].next
        ELSE IF row[op].next > 1 THEN row[op].next - 1
        ELSE -Cardinality({time \in past : row[op].next < time /\ time <= 1})

Rows == [phase : {"unready", "open", "done"}, next : Times \union {Woken, Parked},
         news : BOOLEAN]
Loops == [pc : {"dispatch", "wait", "exited"}, timer : 0 .. Max(Delays) + 1, paused : BOOLEAN]

TypeOK ==
    /\ row \in [Ops -> Rows]
    /\ unwoken \subseteq Ops /\ unrecorded \subseteq Ops /\ news \in 0 .. MaxNews
    /\ life \in {"up", "closing", "joined", "down"}
    /\ active \in [Ops -> {"no", "running", "woken"}]
    /\ attempt \in [Ops -> {"none", "started", "waiting", "failed", "ended"}]
    /\ tails \in 0 .. MaxTails /\ callers \in Nat
    /\ wake \in BOOLEAN /\ retryAfter \in 0 .. Max(Delays)
    /\ loop \in Loops

AtDispatch == [pc |-> "dispatch", timer |-> NoTimer, paused |-> FALSE]
Exited == [pc |-> "exited", timer |-> NoTimer, paused |-> FALSE]
Waiting(timer, paused) == [pc |-> "wait", timer |-> timer, paused |-> paused]

Nobody ==
    /\ active = [op \in Ops |-> "no"] /\ attempt = [op \in Ops |-> "none"]
    /\ tails = 0 /\ callers = 0 /\ wake = FALSE /\ retryAfter = 0

Init ==
    /\ row = [op \in Ops |-> [phase |-> "unready", next |-> Woken, news |-> FALSE]]
    /\ unwoken = {} /\ unrecorded = {} /\ news = 0
    /\ life = "up"
    /\ Nobody
    /\ loop = AtDispatch

-----------------------------------------------------------------------------
(* The callers: they commit a change, then call Wake.                      *)

\* A handler or a user call changes the row: a destination is bound, an archive
\* arrives, a cancellation or an activation is recorded.
Change(op) ==
    /\ life # "down" /\ news < MaxNews /\ row[op].phase # "done"
    /\ row' = [row EXCEPT ![op].phase = "open", ![op].news = TRUE]
    /\ unwoken' = unwoken \union {op} /\ news' = news + 1
    /\ UNCHANGED <<unrecorded, life, memory>>

Tagged(op) == [active EXCEPT ![op] = IF @ = "running" THEN "woken" ELSE @]

\* Mutant: a wake does not tag the attempt it races.
Wake_Untagged(op) ==
    /\ op \in unwoken /\ unwoken' = unwoken \ {op}
    /\ IF life # "up" THEN UNCHANGED <<row, active, callers>>
       ELSE /\ row' = IF row[op].phase = "done" THEN row ELSE [row EXCEPT ![op].next = Woken]
            /\ callers' = callers + 1
            /\ UNCHANGED active
    /\ UNCHANGED <<unrecorded, news, life, attempt, tails, wake, retryAfter, loop>>

\* Wake: the row and the tag under one lock, and the signal after it.
Wake(op) ==
    /\ op \in unwoken /\ unwoken' = unwoken \ {op}
    /\ IF life # "up" THEN UNCHANGED <<row, active, callers>>
       ELSE /\ row' = IF row[op].phase = "done" THEN row ELSE [row EXCEPT ![op].next = Woken]
            /\ active' = Tagged(op)
            /\ callers' = callers + 1
    /\ UNCHANGED <<unrecorded, news, life, attempt, tails, wake, retryAfter, loop>>

\* The update fails: it is reported, and the running attempt is tagged all the same.
WakeFails(op) ==
    /\ op \in unwoken /\ life = "up"
    /\ unwoken' = unwoken \ {op} /\ unrecorded' = unrecorded \union {op}
    /\ active' = Tagged(op)
    /\ callers' = callers + 1
    /\ UNCHANGED <<row, news, life, attempt, tails, wake, retryAfter, loop>>

CallerSignals ==
    /\ callers > 0 /\ callers' = callers - 1
    /\ wake' = TRUE
    /\ UNCHANGED <<row, unwoken, unrecorded, news, life, active, attempt, tails,
                   retryAfter, loop>>

-----------------------------------------------------------------------------
(* The scheduler's goroutine.                                              *)

Offered == {op \in Ops : row[op].phase = "open"}
Running == {op \in Ops : active[op] # "no"}

\* ORDER BY next_attempt_at, created_at.
Before(a, b) == row[a].next < row[b].next \/ (row[a].next = row[b].next /\ a < b)

\* The idle offered rows that are due, as far as the free slots go.
Starting ==
    LET due == {op \in Offered \ Running : row[op].next <= 0}
    IN  {op \in due : Cardinality({b \in due : Before(b, op)})
                          < Workers - Cardinality(Running)}

\* The time of the first idle row that is not due yet, when slots are left.
NextTimer ==
    LET ahead == {row[op].next : op \in {o \in Offered \ Running : row[o].next > 0}}
    IN  IF Cardinality(Running \union Starting) = Workers \/ ahead \subseteq {Parked}
        THEN NoTimer ELSE Min(ahead)

\* dispatch, all of it under the lock.
Dispatch ==
    /\ loop.pc = "dispatch"
    /\ IF retryAfter > 0
       THEN /\ loop' = Waiting(retryAfter, TRUE)
            /\ UNCHANGED <<active, attempt>>
       ELSE /\ loop' = Waiting(NextTimer, FALSE)
            /\ active' = [op \in Ops |-> IF op \in Starting THEN "running" ELSE active[op]]
            /\ attempt' = [op \in Ops |-> IF op \in Starting THEN "started" ELSE attempt[op]]
    /\ UNCHANGED <<row, unwoken, unrecorded, news, life, tails, callers, wake, retryAfter>>

\* The queue could not be read: look again after a while.
DispatchFails ==
    /\ loop.pc = "dispatch" /\ retryAfter <= 0 /\ Cardinality(Running) < Workers
    /\ \E d \in Delays : loop' = Waiting(d, TRUE)
    /\ UNCHANGED <<row, unwoken, unrecorded, news, life, active, attempt, tails,
                   callers, wake, retryAfter>>

\* A token, or the timer, ends the wait; a done context ends the loop.
Resume ==
    /\ loop.pc = "wait"
    /\ \/ wake /\ wake' = FALSE
       \/ loop.timer # NoTimer /\ loop.timer <= 0 /\ UNCHANGED wake
    /\ loop' = IF life = "up" THEN AtDispatch ELSE Exited
    /\ UNCHANGED <<row, unwoken, unrecorded, news, life, active, attempt, tails,
                   callers, retryAfter>>

LoopExits ==
    /\ loop.pc = "wait" /\ life = "closing"
    /\ loop' = Exited
    /\ UNCHANGED <<row, unwoken, unrecorded, news, life, active, attempt, tails,
                   callers, wake, retryAfter>>

-----------------------------------------------------------------------------
(* An attempt: Jobs.run.                                                   *)

\* The runner reads the row and does what it can; the row may end with it.
Read(op) ==
    /\ attempt[op] = "started"
    /\ \E result \in {"waiting", "failed", "ended"} :
          attempt' = [attempt EXCEPT ![op] = result]
    /\ \E phase \in {row[op].phase, "done"} :
          /\ phase = "done" => attempt'[op] = "ended"
          /\ row' = [row EXCEPT ![op].phase = phase, ![op].news = FALSE]
    /\ unrecorded' = unrecorded \ {op}
    /\ UNCHANGED <<unwoken, news, life, active, tails, callers, wake, retryAfter, loop>>

\* The runner returns with the context done: the row stays as it is.
Abandoned(op) ==
    /\ attempt[op] # "none" /\ life = "closing"
    /\ attempt' = [attempt EXCEPT ![op] = "none"]
    /\ UNCHANGED <<row, unwoken, unrecorded, news, life, active, tails, callers,
                   wake, retryAfter, loop>>

\* Mutant: a failure parks the row, as a wait for the other computer does.
NextAttempts_ParksFailed(op) ==
    CASE active[op] = "woken"                              -> {Woken}
      [] active[op] # "woken" /\ attempt[op] = "waiting"
         /\ op \in Outgoing                                -> Delays
      [] OTHER                                             -> {Parked}

\* When the next attempt is due, by what this one came to.
NextAttempts(op) ==
    CASE active[op] = "woken"                              -> {Woken}
      [] active[op] # "woken" /\ (attempt[op] = "failed" \/
         (attempt[op] = "waiting" /\ op \in Outgoing))     -> Delays
      [] OTHER                                             -> {Parked}

\* Mutant: a finished attempt does not signal the loop.
Finish_Silent(op) ==
    /\ attempt[op] \in {"waiting", "failed", "ended"}
    /\ \E next \in NextAttempts(op) :
          row' = IF row[op].phase = "done" THEN row ELSE [row EXCEPT ![op].next = next]
    /\ active' = [active EXCEPT ![op] = "no"] /\ attempt' = [attempt EXCEPT ![op] = "none"]
    /\ UNCHANGED <<unwoken, unrecorded, news, life, tails, callers, wake, retryAfter, loop>>

\* FinishThreadTransferAttempt and the removal from active, under the lock.
Finish(op) ==
    /\ attempt[op] \in {"waiting", "failed", "ended"} /\ tails < MaxTails
    /\ \E next \in NextAttempts(op) :
          row' = IF row[op].phase = "done" THEN row ELSE [row EXCEPT ![op].next = next]
    /\ active' = [active EXCEPT ![op] = "no"] /\ attempt' = [attempt EXCEPT ![op] = "none"]
    /\ tails' = tails + 1
    /\ UNCHANGED <<unwoken, unrecorded, news, life, callers, wake, retryAfter, loop>>

\* The result could not be written: the row is due as before, after a pause.
FinishFails(op) ==
    /\ attempt[op] \in {"waiting", "failed", "ended"} /\ tails < MaxTails
    /\ retryAfter' \in Delays
    /\ active' = [active EXCEPT ![op] = "no"] /\ attempt' = [attempt EXCEPT ![op] = "none"]
    /\ tails' = tails + 1
    /\ UNCHANGED <<row, unwoken, unrecorded, news, life, callers, wake, loop>>

WorkerSignals ==
    /\ tails > 0 /\ tails' = tails - 1
    /\ wake' = TRUE
    /\ UNCHANGED <<row, unwoken, unrecorded, news, life, active, attempt, callers,
                   retryAfter, loop>>

-----------------------------------------------------------------------------
(* Life, crashes and time.                                                 *)

\* Close cancels the context, ...
Cancel ==
    /\ life = "up" /\ life' = "closing"
    /\ UNCHANGED <<row, unwoken, unrecorded, news, memory>>

\* Mutant: Close joins the attempts before the loop has ended.
Join_LoopRuns ==
    /\ life = "closing"
    /\ tails = 0 /\ \A op \in Ops : attempt[op] = "none"
    /\ life' = "joined"
    /\ UNCHANGED <<row, unwoken, unrecorded, news, memory>>

\* ... waits for the loop, which adds attempts, and then for the attempts.
Join ==
    /\ life = "closing" /\ loop.pc = "exited"
    /\ tails = 0 /\ \A op \in Ops : attempt[op] = "none"
    /\ life' = "joined"
    /\ UNCHANGED <<row, unwoken, unrecorded, news, memory>>

\* The process is gone: after a Close, or in the middle of anything.
Crash ==
    /\ life # "down" /\ life' = "down"
    /\ unwoken' = {} /\ unrecorded' = {}
    /\ active' = [op \in Ops |-> "no"] /\ attempt' = [op \in Ops |-> "none"]
    /\ tails' = 0 /\ callers' = 0 /\ wake' = FALSE /\ retryAfter' = 0
    /\ loop' = Exited
    /\ UNCHANGED <<row, news>>

\* Mutant: startup trusts the times in the journal.
Start_Trusting ==
    /\ life = "down" /\ life' = "up"
    /\ loop' = AtDispatch
    /\ UNCHANGED <<row, unwoken, unrecorded, news, active, attempt, tails, callers,
                   wake, retryAfter>>

\* NewJobs rechecks every unfinished row before it listens for changes.
Start ==
    /\ life = "down" /\ life' = "up"
    /\ row' = [op \in Ops |-> IF row[op].phase = "done" THEN row[op]
                              ELSE [row[op] EXCEPT !.next = Woken]]
    /\ loop' = AtDispatch
    /\ UNCHANGED <<unwoken, unrecorded, news, active, attempt, tails, callers,
                   wake, retryAfter>>

Tick ==
    /\ row' = [op \in Ops |-> [row[op] EXCEPT !.next = Aged(op)]]
    /\ retryAfter' = Closer(retryAfter)
    /\ loop' = [loop EXCEPT !.timer = Closer(@)]
    /\ UNCHANGED <<unwoken, unrecorded, news, life, active, attempt, tails, callers, wake>>

LoopNext == Dispatch \/ Resume \/ LoopExits
AttemptNext(op) == Read(op) \/ Abandoned(op) \/ Finish(op)
FaultNext ==
    \/ DispatchFails \/ Cancel \/ Crash
    \/ \E op \in Ops : WakeFails(op) \/ FinishFails(op)

CalmNext ==
    \/ \E op \in Ops : Change(op) \/ Wake(op) \/ AttemptNext(op)
    \/ CallerSignals \/ WorkerSignals \/ LoopNext \/ Join \/ Start \/ Tick

Next == CalmNext \/ FaultNext

Spec == Init /\ [][Next]_vars

\* Every goroutine is scheduled, time passes, and faults end.
FairSpec ==
    /\ Spec
    /\ WF_vars(LoopNext) /\ WF_vars(CallerSignals) /\ WF_vars(WorkerSignals) /\ WF_vars(Tick)
    /\ \A op \in Ops : WF_vars(Wake(op)) /\ WF_vars(AttemptNext(op))
    /\ <>[][CalmNext]_vars

-----------------------------------------------------------------------------
(* Properties.                                                             *)

\* A change no attempt has read is never forgotten: its caller will still wake
\* the worker, or was told that it could not, or the row is due, or the attempt
\* that may have missed it is tagged to be followed by another.
NothingForgotten ==
    \A op \in Ops : row[op].news /\ row[op].phase = "open" /\ life = "up" =>
        \/ op \in unwoken \union unrecorded
        \/ row[op].next <= 0
        \/ active[op] = "woken"

\* When the loop sleeps and nobody is about to signal it, every idle offered row
\* that is not parked has either a timer early enough or a full house before it,
\* whose next result signals.
NeverSleepsOverWork ==
    loop.pc = "wait" /\ ~wake /\ tails = 0 /\ callers = 0 /\ life = "up" =>
        \A op \in Offered \ Running : row[op].next # Parked =>
            \/ Cardinality(Running) = Workers
            \/ op \in unwoken
            \/ /\ loop.timer # NoTimer
               /\ loop.paused \/ loop.timer <= 0 \/ loop.timer <= row[op].next

\* The attempts the lock counts are the goroutines there are, and no more than
\* the workers allow; once the context is done an attempt may leave early, and once
\* Close has returned no goroutine of the scheduler is left.
AttemptsAreCounted ==
    /\ Cardinality({op \in Ops : attempt[op] # "none"}) <= Workers
    /\ \A op \in Ops : /\ attempt[op] # "none" => active[op] # "no"
                       /\ active[op] # "no" /\ life = "up" => attempt[op] # "none"
    /\ life = "joined" => /\ loop.pc = "exited" /\ tails = 0
                          /\ \A op \in Ops : attempt[op] = "none"

\* A change is read by an attempt that starts after it, unless the process stops
\* or the journal refused the wake.
ChangesAreRead ==
    \A op \in Ops : (row[op].news /\ row[op].phase = "open") ~>
        (~row[op].news \/ life # "up" \/ op \in unrecorded)

\* A failed attempt is followed by another, and an idle row whose next attempt has
\* a time is attempted.
RetriesHappen ==
    \A op \in Ops :
        \/ attempt[op] = "failed"
        \/ attempt[op] = "none" /\ row[op].phase = "open" /\ row[op].next # Parked
        ~> (attempt[op] = "started" \/ row[op].phase = "done" \/ life # "up")

=============================================================================
