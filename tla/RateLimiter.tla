------------------------------ MODULE RateLimiter ------------------------------
(***************************************************************************)
(* AsyncRateLimiter: the queue in front of one LLM endpoint.               *)
(*                                                                         *)
(* execute() takes a semaphore permit, waits its turn under the pacing     *)
(* lock, calls the provider, and on a retryable failure gives the permit   *)
(* back before it sleeps and starts over.  An action is the code between   *)
(* two awaits; an acquire that finds the semaphore or the lock free does   *)
(* not suspend in the code and is a step of its own here, so the model has *)
(* every interleaving of the code.  asyncio's Semaphore and Lock are       *)
(* external: both serve their waiters in order of arrival, and a newcomer  *)
(* never passes a waiter.  A task may be cancelled at every await.         *)
(*                                                                         *)
(* Time is counted in ticks; an age saturates at MinInterval, beyond which *)
(* nothing distinguishes two ages.                                         *)
(***************************************************************************)
EXTENDS Naturals, Sequences, FiniteSets

CONSTANTS
  Callers,         \* tasks that call execute(), one call at a time each
  MaxConcurrency,  \* max(1, max_concurrency)
  MinInterval,     \* min_interval_seconds; 0 disables _pace and is left out
  MaxRetries,      \* max(0, max_retries)
  BackoffBase,
  BackoffMax,
  RetryAfters      \* delays a Retry-After header may ask for

ASSUME RateLimiterAssumption ==
  /\ IsFiniteSet(Callers)
  /\ MaxConcurrency \in Nat \ {0}
  /\ MinInterval \in Nat \ {0}
  /\ MaxRetries \in Nat
  /\ BackoffBase \in Nat
  /\ BackoffMax \in Nat
  /\ RetryAfters \subseteq Nat

VARIABLES
  pc,          \* where each caller is
  queue,       \* waiters of the semaphore
  permits,     \* its value
  lockQueue,   \* waiters of the pacing lock
  locked,      \* the pacing lock is held
  delay,       \* ticks each caller still has to sleep
  attempt,     \* retries made by the current execute()
  lastAge,     \* ticks since _last_request_time
  calls,       \* history: times execute() has called func
  callAge      \* history: ticks since func was last called, by anyone

vars == <<pc, queue, permits, lockQueue, locked, delay, attempt, lastAge, calls, callAge>>

Places == {"idle", "queued", "pacing", "sleeping", "calling", "backoff"}

TypeOK ==
  /\ pc \in [Callers -> Places]
  /\ queue \in Seq(Callers)
  /\ permits \in 0..MaxConcurrency
  /\ lockQueue \in Seq(Callers)
  /\ locked \in BOOLEAN
  /\ delay \in [Callers -> 0..(MinInterval + BackoffMax)]
  /\ attempt \in [Callers -> 0..MaxRetries]
  /\ lastAge \in 0..MinInterval
  /\ calls \in [Callers -> 0..(MaxRetries + 1)]
  /\ callAge \in 0..MinInterval

Init ==
  /\ pc = [t \in Callers |-> "idle"]
  /\ queue = <<>>
  /\ permits = MaxConcurrency
  /\ lockQueue = <<>>
  /\ locked = FALSE
  /\ delay = [t \in Callers |-> 0]
  /\ attempt = [t \in Callers |-> 0]
  /\ lastAge = MinInterval
  /\ calls = [t \in Callers |-> 0]
  /\ callAge = MinInterval

-----------------------------------------------------------------------------
Least(a, b) == IF a < b THEN a ELSE b

Pop(seq, t) == /\ seq # <<>>
               /\ t = Head(seq)

\* seq' is seq without one of its elements, t.
Dropped(seq, t, new) ==
  \E i \in 1..Len(seq) :
    /\ seq[i] = t
    /\ new = SubSeq(seq, 1, i - 1) \o SubSeq(seq, i + 1, Len(seq))

\* The caller holds a permit of the semaphore.
Holds(t) == pc[t] \in {"pacing", "sleeping", "calling"}

\* Backoff after the n-th retryable failure; hint is the Retry-After delay.
\* The code adds a jitter of less than a second to base * 2^(n - 1).
Backoff(n) == Least(BackoffMax, BackoffBase * 2^(n - 1))

BackoffDelays(n) ==
  {d \in 0..BackoffMax : d = Backoff(n) \/ \E hint \in RetryAfters : d = Least(BackoffMax, hint)}

-----------------------------------------------------------------------------
(* The steps of execute() and _pace().                                     *)

\* execute() is called, and waits for the semaphore.
Request(t) ==
  /\ pc[t] = "idle"
  /\ pc' = [pc EXCEPT ![t] = "queued"]
  /\ queue' = Append(queue, t)
  /\ attempt' = [attempt EXCEPT ![t] = 0]
  /\ calls' = [calls EXCEPT ![t] = 0]
  /\ UNCHANGED <<permits, lockQueue, locked, delay, lastAge, callAge>>

\* Mutant of Acquire: the semaphore admits waiters in any order.
AcquireUnordered(t) ==
  /\ pc[t] = "queued"
  /\ permits > 0
  /\ pc' = [pc EXCEPT ![t] = "pacing"]
  /\ Dropped(queue, t, queue')
  /\ permits' = permits - 1
  /\ lockQueue' = Append(lockQueue, t)
  /\ UNCHANGED <<locked, delay, attempt, lastAge, calls, callAge>>

\* async with self._semaphore; then _pace() waits for the lock.
Acquire(t) ==
  /\ Pop(queue, t)
  /\ permits > 0
  /\ pc' = [pc EXCEPT ![t] = "pacing"]
  /\ queue' = Tail(queue)
  /\ permits' = permits - 1
  /\ lockQueue' = Append(lockQueue, t)
  /\ UNCHANGED <<locked, delay, attempt, lastAge, calls, callAge>>

\* Mutant of Measure: the spacing is computed outside the pacing lock.
MeasureUnlocked(t) ==
  /\ Pop(lockQueue, t)
  /\ lockQueue' = Tail(lockQueue)
  /\ locked' = TRUE
  /\ pc' = [pc EXCEPT ![t] = "sleeping"]
  /\ delay' = [delay EXCEPT ![t] = MinInterval - lastAge]
  /\ UNCHANGED <<queue, permits, attempt, lastAge, calls, callAge>>

\* The lock is taken, and the time since the last request measured.
Measure(t) ==
  /\ Pop(lockQueue, t)
  /\ ~locked
  /\ lockQueue' = Tail(lockQueue)
  /\ locked' = TRUE
  /\ pc' = [pc EXCEPT ![t] = "sleeping"]
  /\ delay' = [delay EXCEPT ![t] = MinInterval - lastAge]
  /\ UNCHANGED <<queue, permits, attempt, lastAge, calls, callAge>>

\* The sleep ends: the time is noted, the lock released, func called.
Start(t) ==
  /\ pc[t] = "sleeping"
  /\ delay[t] = 0
  /\ lastAge' = 0
  /\ locked' = FALSE
  /\ pc' = [pc EXCEPT ![t] = "calling"]
  /\ calls' = [calls EXCEPT ![t] = @ + 1]
  /\ callAge' = 0
  /\ UNCHANGED <<queue, permits, lockQueue, delay, attempt>>

\* func returns, or raises what _is_retryable rejects.
Finish(t) ==
  /\ pc[t] = "calling"
  /\ pc' = [pc EXCEPT ![t] = "idle"]
  /\ permits' = permits + 1
  /\ UNCHANGED <<queue, lockQueue, locked, delay, attempt, lastAge, calls, callAge>>

\* Mutant of Throttled: the caller keeps its permit while it backs off.
ThrottledInside(t) ==
  /\ pc[t] = "calling"
  /\ IF attempt[t] >= MaxRetries
     THEN /\ pc' = [pc EXCEPT ![t] = "idle"]
          /\ permits' = permits + 1
          /\ UNCHANGED <<delay, attempt>>
     ELSE /\ pc' = [pc EXCEPT ![t] = "backoff"]
          /\ attempt' = [attempt EXCEPT ![t] = @ + 1]
          /\ \E d \in BackoffDelays(attempt[t] + 1) : delay' = [delay EXCEPT ![t] = d]
          /\ UNCHANGED permits
  /\ UNCHANGED <<queue, lockQueue, locked, lastAge, calls, callAge>>

\* Mutant of Throttled: one retry too many.
ThrottledOnceMore(t) ==
  /\ pc[t] = "calling"
  /\ IF attempt[t] > MaxRetries
     THEN /\ pc' = [pc EXCEPT ![t] = "idle"]
          /\ UNCHANGED <<delay, attempt>>
     ELSE /\ pc' = [pc EXCEPT ![t] = "backoff"]
          /\ attempt' = [attempt EXCEPT ![t] = @ + 1]
          /\ \E d \in BackoffDelays(attempt[t] + 1) : delay' = [delay EXCEPT ![t] = d]
  /\ permits' = permits + 1
  /\ UNCHANGED <<queue, lockQueue, locked, lastAge, calls, callAge>>

\* func raises a retryable error: the last one is passed on, the others are
\* followed by a backoff outside the semaphore.
Throttled(t) ==
  /\ pc[t] = "calling"
  /\ IF attempt[t] >= MaxRetries
     THEN /\ pc' = [pc EXCEPT ![t] = "idle"]
          /\ UNCHANGED <<delay, attempt>>
     ELSE /\ pc' = [pc EXCEPT ![t] = "backoff"]
          /\ attempt' = [attempt EXCEPT ![t] = @ + 1]
          /\ \E d \in BackoffDelays(attempt[t] + 1) : delay' = [delay EXCEPT ![t] = d]
  /\ permits' = permits + 1
  /\ UNCHANGED <<queue, lockQueue, locked, lastAge, calls, callAge>>

\* The backoff ends, and execute() joins the queue again.
Retry(t) ==
  /\ pc[t] = "backoff"
  /\ delay[t] = 0
  /\ pc' = [pc EXCEPT ![t] = "queued"]
  /\ queue' = Append(queue, t)
  /\ UNCHANGED <<permits, lockQueue, locked, delay, attempt, lastAge, calls, callAge>>

\* Mutant of Cancel: a caller cancelled while it sleeps keeps the lock.
CancelKeepsLock(t) ==
  /\ pc[t] # "idle"
  /\ pc' = [pc EXCEPT ![t] = "idle"]
  /\ IF pc[t] = "queued" THEN Dropped(queue, t, queue') ELSE UNCHANGED queue
  /\ IF pc[t] = "pacing" THEN Dropped(lockQueue, t, lockQueue') ELSE UNCHANGED lockQueue
  /\ permits' = IF Holds(t) THEN permits + 1 ELSE permits
  /\ UNCHANGED <<locked, delay, attempt, lastAge, calls, callAge>>

\* CancelledError at an await: the context managers release what is held.
Cancel(t) ==
  /\ pc[t] # "idle"
  /\ pc' = [pc EXCEPT ![t] = "idle"]
  /\ IF pc[t] = "queued" THEN Dropped(queue, t, queue') ELSE UNCHANGED queue
  /\ IF pc[t] = "pacing" THEN Dropped(lockQueue, t, lockQueue') ELSE UNCHANGED lockQueue
  /\ locked' = IF pc[t] = "sleeping" THEN FALSE ELSE locked
  /\ permits' = IF Holds(t) THEN permits + 1 ELSE permits
  /\ UNCHANGED <<delay, attempt, lastAge, calls, callAge>>

\* Time passes for everyone.
Tick ==
  /\ lastAge' = Least(MinInterval, lastAge + 1)
  /\ callAge' = Least(MinInterval, callAge + 1)
  /\ delay' = [t \in Callers |-> IF delay[t] > 0 THEN delay[t] - 1 ELSE 0]
  /\ <<lastAge, callAge, delay>>' # <<lastAge, callAge, delay>>
  /\ UNCHANGED <<pc, queue, permits, lockQueue, locked, attempt, calls>>

Step(t) ==
  \/ Acquire(t)
  \/ Measure(t)
  \/ Start(t)
  \/ Finish(t)
  \/ Throttled(t)
  \/ Retry(t)

Next ==
  \/ \E t \in Callers : Request(t) \/ Step(t) \/ Cancel(t)
  \/ Tick

Spec == Init /\ [][Next]_vars

\* The event loop runs whoever is ready, time passes, and a call of the provider
\* ends (the client times it out).  Nobody has to call or to cancel.
Fairness ==
  /\ WF_vars(Tick)
  /\ \A t \in Callers : WF_vars(Step(t))

FairSpec == Spec /\ Fairness

-----------------------------------------------------------------------------
(* Properties.                                                             *)

\* A permit is held exactly by the callers between acquire and release: none is
\* lost by a cancellation, a failed call or a retry, and none is returned twice.
PermitsConserved ==
  permits + Cardinality({t \in Callers : Holds(t)}) = MaxConcurrency

\* The pacing lock is held exactly while one caller sleeps in _pace(): no
\* cancellation leaves it locked, and no two callers measure the same gap.
OneSleeper == Cardinality({t \in Callers : pc[t] = "sleeping"}) = IF locked THEN 1 ELSE 0

\* The promise to the provider, under every interleaving and cancellation.
Throttle == INSTANCE RequestThrottle WITH
  Limit  <- MaxConcurrency,
  Interval <- MinInterval,
  open   <- {t \in Callers : pc[t] = "calling"},
  age    <- callAge,
  issued <- calls

ImplementsThrottle == Throttle!ThrottleSpec

\* Every execute() comes to an end: nobody waits forever for a permit, for the
\* lock or for the provider to accept the request.
RequestsEnd == \A t \in Callers : pc[t] # "idle" ~> pc[t] = "idle"
=============================================================================
