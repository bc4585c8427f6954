---------------------------- MODULE RequestThrottle ----------------------------
(***************************************************************************)
(* What AsyncRateLimiter promises its provider, whatever its callers do:   *)
(* at most Limit requests are open, two requests are issued at least       *)
(* Interval ticks apart, and one execute() issues at most MaxRetries + 1.  *)
(* How the limiter keeps the promise (a semaphore, a lock, sleeps) is in   *)
(* RateLimiter, which is shown to implement this specification.            *)
(***************************************************************************)
EXTENDS Naturals, FiniteSets

CONSTANTS Callers, Limit, Interval, MaxRetries

VARIABLES
  open,    \* callers with a request at the provider
  age,     \* ticks since a request was last issued, at most Interval
  issued   \* requests issued by the current execute() of each caller

throttleVars == <<open, age, issued>>

ThrottleInit ==
  /\ open = {}
  /\ age = Interval
  /\ issued = [t \in Callers |-> 0]

Begin(t) ==
  /\ t \notin open
  /\ issued' = [issued EXCEPT ![t] = 0]
  /\ UNCHANGED <<open, age>>

Issue(t) ==
  /\ t \notin open
  /\ Cardinality(open) < Limit
  /\ age = Interval
  /\ issued[t] <= MaxRetries
  /\ open' = open \cup {t}
  /\ issued' = [issued EXCEPT ![t] = @ + 1]
  /\ age' = 0

Answered(t) ==
  /\ t \in open
  /\ open' = open \ {t}
  /\ UNCHANGED <<age, issued>>

Ages ==
  /\ age < Interval
  /\ age' = age + 1
  /\ UNCHANGED <<open, issued>>

ThrottleNext ==
  \/ \E t \in Callers : Begin(t) \/ Issue(t) \/ Answered(t)
  \/ Ages

ThrottleSpec == ThrottleInit /\ [][ThrottleNext]_throttleVars
=============================================================================
