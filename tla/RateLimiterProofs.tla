--------------------------- MODULE RateLimiterProofs ---------------------------
(***************************************************************************)
(* Proofs about RateLimiter: its permits are conserved, its pacing lock is *)
(* held by one sleeping caller at a time, and it keeps RequestThrottle's   *)
(* promise, for every number of callers, permits, ticks and retries.       *)
(***************************************************************************)
EXTENDS RateLimiter, TLAPS, FiniteSetTheorems, SequenceTheorems

\* A line of waiters: no caller stands in it twice.
Distinct(seq) == \A i, j \in 1..Len(seq) : seq[i] = seq[j] => i = j

Stands(seq, t) == \E i \in 1..Len(seq) : seq[i] = t

\* Exactly the members of A stand in the line.
Lines(seq, A) ==
  /\ Distinct(seq)
  /\ \A t : t \in A <=> Stands(seq, t)

At(place) == {t \in Callers : pc[t] = place}

Holders == {t \in Callers : Holds(t)}

SleeperHasLock ==
  /\ \A t \in Callers : pc[t] = "sleeping" => locked
  /\ \A t, u \in Callers : pc[t] = "sleeping" /\ pc[u] = "sleeping" => t = u
  /\ locked => \E t \in Callers : pc[t] = "sleeping"

\* A caller that sleeps out its delay finds the interval over.
SleepIsLongEnough ==
  \A t \in Callers : pc[t] = "sleeping" => lastAge + delay[t] >= MinInterval

\* One call for each attempt, and one more once it has been made.
CallsAreCounted ==
  \A t \in Callers :
    /\ calls[t] <= attempt[t] + 1
    /\ pc[t] \in {"queued", "pacing", "sleeping", "backoff"} => calls[t] = attempt[t]
    /\ pc[t] = "calling" => calls[t] = attempt[t] + 1

\* The invariant of the limiter; the strengthening of TypeOK, PermitsConserved
\* and OneSleeper that its steps preserve.
LInv ==
  /\ TypeOK
  /\ PermitsConserved
  /\ Lines(queue, At("queued"))
  /\ Lines(lockQueue, At("pacing"))
  /\ SleeperHasLock
  /\ SleepIsLongEnough
  /\ CallsAreCounted
  /\ callAge = lastAge

-----------------------------------------------------------------------------
(* Lemmas about lines of waiters.                                          *)

\* Joining a line keeps it a line, with the newcomer in it.
LEMMA JoinLine ==
  ASSUME NEW S, NEW seq \in Seq(S), NEW t \in S, Distinct(seq), ~Stands(seq, t)
  PROVE  /\ Append(seq, t) \in Seq(S)
         /\ Distinct(Append(seq, t))
         /\ \A u : Stands(Append(seq, t), u) <=> u = t \/ Stands(seq, u)
<1>1. /\ Append(seq, t) \in Seq(S)
      /\ Len(Append(seq, t)) = Len(seq) + 1
      /\ Append(seq, t)[Len(seq) + 1] = t
      /\ \A i \in 1..Len(seq) : Append(seq, t)[i] = seq[i]
      /\ Len(seq) \in Nat
  OBVIOUS
<1>2. \A i \in 1..(Len(seq) + 1) : i \in 1..Len(seq) \/ i = Len(seq) + 1
  BY <1>1
<1>3. Distinct(Append(seq, t))
  BY <1>1, <1>2 DEF Distinct, Stands
<1>4. ASSUME NEW u PROVE Stands(Append(seq, t), u) <=> u = t \/ Stands(seq, u)
  BY <1>1, <1>2 DEF Stands
<1> QED
  BY <1>1, <1>3, <1>4

\* Whoever leaves a line, from the middle or from its head, is no longer in it,
\* and all others are.
LEMMA LeaveLine ==
  ASSUME NEW S, NEW seq \in Seq(S), NEW t, NEW new, Distinct(seq), Dropped(seq, t, new)
  PROVE  /\ new \in Seq(S)
         /\ Distinct(new)
         /\ \A u : Stands(new, u) <=> u # t /\ Stands(seq, u)
<1>1. PICK k \in 1..Len(seq) :
        /\ seq[k] = t
        /\ new = SubSeq(seq, 1, k - 1) \o SubSeq(seq, k + 1, Len(seq))
  BY DEF Dropped
<1> DEFINE a == SubSeq(seq, 1, k - 1)
           b == SubSeq(seq, k + 1, Len(seq))
<1>2. Len(seq) \in Nat /\ k \in Nat /\ k >= 1 /\ k <= Len(seq)
  OBVIOUS
<1>3. a \in Seq(S) /\ Len(a) = k - 1 /\ \A i \in 1..(k - 1) : a[i] = seq[i]
  BY <1>2, SubSeqProperties
<1>4. b \in Seq(S) /\ Len(b) = Len(seq) - k /\ \A i \in 1..(Len(seq) - k) : b[i] = seq[k + i]
  <2>1. \A i \in (k + 1)..Len(seq) : seq[i] \in S
    BY <1>2, ElementOfSeq
  <2>2. /\ SubSeq(seq, k + 1, Len(seq)) \in Seq(S)
        /\ Len(SubSeq(seq, k + 1, Len(seq)))
             = IF k + 1 <= Len(seq) THEN Len(seq) - (k + 1) + 1 ELSE 0
        /\ \A i \in 1..(Len(seq) - (k + 1) + 1) :
             SubSeq(seq, k + 1, Len(seq))[i] = seq[k + 1 + i - 1]
    BY <1>2, <2>1, SubSeqProperties
  <2> QED
    BY <1>2, <2>2
<1>5. /\ new \in Seq(S)
      /\ Len(new) = Len(seq) - 1
      /\ \A i \in 1..(Len(seq) - 1) : new[i] = IF i < k THEN seq[i] ELSE seq[i + 1]
  <2>1. /\ a \o b \in Seq(S)
        /\ Len(a \o b) = Len(a) + Len(b)
        /\ \A i \in 1..(Len(a) + Len(b)) :
             (a \o b)[i] = IF i <= Len(a) THEN a[i] ELSE b[i - Len(a)]
    BY <1>3, <1>4, ConcatProperties
  <2> HIDE DEF a, b
  <2>2. new = a \o b
    BY <1>1 DEF a, b
  <2>3. new \in Seq(S) /\ Len(new) = Len(seq) - 1
    BY <1>2, <1>3, <1>4, <2>1, <2>2
  <2>4. ASSUME NEW i \in 1..(Len(seq) - 1), i < k PROVE new[i] = seq[i]
    <3>1. i \in 1..(Len(a) + Len(b)) /\ i <= Len(a) /\ i \in 1..(k - 1)
      BY <1>2, <1>3, <1>4, <2>4
    <3> QED
      BY <1>3, <2>1, <2>2, <3>1
  <2>5. ASSUME NEW i \in 1..(Len(seq) - 1), ~(i < k) PROVE new[i] = seq[i + 1]
    <3>1. /\ i \in 1..(Len(a) + Len(b)) /\ ~(i <= Len(a))
          /\ i - Len(a) \in 1..(Len(seq) - k) /\ k + (i - Len(a)) = i + 1
      BY <1>2, <1>3, <1>4, <2>5
    <3>2. (a \o b)[i] = b[i - Len(a)]
      BY <2>1, <3>1
    <3>3. b[i - Len(a)] = seq[k + (i - Len(a))]
      BY <1>4, <3>1
    <3> QED
      BY <2>2, <3>1, <3>2, <3>3
  <2> QED
    BY <2>3, <2>4, <2>5
<1> HIDE DEF a, b
<1>6. Distinct(new)
  BY <1>2, <1>5 DEF Distinct
<1>7. ASSUME NEW u, NEW i \in 1..Len(new), new[i] = u
      PROVE  u # t /\ \E j \in 1..Len(seq) : seq[j] = u
  <2>1. i \in 1..(Len(seq) - 1)
    BY <1>5, <1>7
  <2>2. CASE i < k
    <3>1. i \in 1..Len(seq) /\ seq[i] = u /\ i # k
      BY <1>2, <1>5, <1>7, <2>1, <2>2
    <3> QED
      BY <1>1, <3>1 DEF Distinct
  <2>3. CASE ~(i < k)
    <3>1. i + 1 \in 1..Len(seq) /\ seq[i + 1] = u /\ i + 1 # k
      BY <1>2, <1>5, <1>7, <2>1, <2>3
    <3> QED
      BY <1>1, <3>1 DEF Distinct
  <2> QED
    BY <2>2, <2>3
<1>8. ASSUME NEW u, u # t, NEW j \in 1..Len(seq), seq[j] = u
      PROVE  \E i \in 1..Len(new) : new[i] = u
  <2>1. CASE j < k
    BY <1>2, <1>5, <1>8, <2>1
  <2>2. CASE j > k
    <3>1. j - 1 \in 1..Len(new) /\ new[j - 1] = u
      BY <1>2, <1>5, <1>8, <2>2
    <3> QED
      BY <3>1
  <2>3. j # k /\ j \in Nat
    BY <1>1, <1>8
  <2> QED
    BY <1>2, <2>1, <2>2, <2>3
<1>9. ASSUME NEW u PROVE Stands(new, u) <=> u # t /\ Stands(seq, u)
  BY <1>7, <1>8 DEF Stands
<1> QED
  BY <1>5, <1>6, <1>9

LEMMA HeadLeaves ==
  ASSUME NEW S, NEW seq \in Seq(S), seq # <<>>
  PROVE  /\ Head(seq) \in S
         /\ seq[1] = Head(seq) /\ 1 \in 1..Len(seq)
         /\ Dropped(seq, Head(seq), Tail(seq))
<1>1. 1 \in 1..Len(seq) /\ Len(seq) \in Nat
  BY EmptySeq
<1>2. Head(seq) \in S /\ seq[1] = Head(seq)
  BY <1>1, HeadTailProperties
<1>3. Tail(seq) = SubSeq(seq, 2, Len(seq))
  BY TailIsSubSeq
<1>4. SubSeq(seq, 1, 0) = <<>>
  BY SubSeqEmpty
<1>5. <<>> \o Tail(seq) = Tail(seq)
  BY HeadTailProperties, ConcatEmptySeq
<1>6. Dropped(seq, Head(seq), Tail(seq))
  <2>1. /\ seq[1] = Head(seq)
        /\ Tail(seq) = SubSeq(seq, 1, 1 - 1) \o SubSeq(seq, 1 + 1, Len(seq))
    <3>1. 1 - 1 = 0 /\ 1 + 1 = 2
      OBVIOUS
    <3> QED
      BY <1>2, <1>3, <1>4, <1>5, <3>1
  <2> QED
    BY <1>1, <2>1 DEF Dropped
<1> QED
  BY <1>1, <1>2, <1>6

\* The three facts above, said of the callers that stand in the line.
LEMMA LineSteps ==
  ASSUME NEW S, NEW seq \in Seq(S), NEW A, Lines(seq, A)
  PROVE  /\ \A t \in S : t \notin A => /\ Append(seq, t) \in Seq(S)
                                      /\ Lines(Append(seq, t), A \cup {t})
         /\ \A t, new : Dropped(seq, t, new) => /\ new \in Seq(S)
                                               /\ Lines(new, A \ {t})
         /\ \A t : Pop(seq, t) => /\ t \in A
                                 /\ Tail(seq) \in Seq(S)
                                 /\ Lines(Tail(seq), A \ {t})
<1>1. ASSUME NEW t \in S, t \notin A
      PROVE  Append(seq, t) \in Seq(S) /\ Lines(Append(seq, t), A \cup {t})
  BY <1>1, JoinLine DEF Lines
<1>2. ASSUME NEW t, NEW new, Dropped(seq, t, new)
      PROVE  new \in Seq(S) /\ Lines(new, A \ {t})
  <2>1. Distinct(seq)
    BY DEF Lines
  <2>2. new \in Seq(S) /\ Distinct(new)
    BY <1>2, <2>1, LeaveLine
  <2>3. \A u : Stands(new, u) <=> u # t /\ Stands(seq, u)
    BY <1>2, <2>1, LeaveLine
  <2> QED
    BY <2>2, <2>3 DEF Lines
<1>3. ASSUME NEW t, Pop(seq, t)
      PROVE  t \in A /\ Tail(seq) \in Seq(S) /\ Lines(Tail(seq), A \ {t})
  <2>1. /\ seq[1] = t /\ 1 \in 1..Len(seq)
        /\ Dropped(seq, t, Tail(seq))
    BY <1>3, HeadLeaves DEF Pop
  <2>2. t \in A
    BY <2>1 DEF Lines, Stands
  <2> QED
    BY <1>2, <2>1, <2>2
<1> QED
  BY <1>1, <1>2, <1>3

-----------------------------------------------------------------------------
(* Lemmas about the steps.                                                 *)

\* A caller that moves changes its own place and nobody else's.
LEMMA Moves ==
  ASSUME NEW t \in Callers, NEW place \in Places, pc \in [Callers -> Places],
         pc' = [pc EXCEPT ![t] = place]
  PROVE  /\ pc' \in [Callers -> Places]
         /\ pc'[t] = place
         /\ \A u \in Callers : u # t => pc'[u] = pc[u]
         /\ \A p : At(p)' = IF p = place THEN At(p) \cup {t} ELSE At(p) \ {t}
         /\ Holders' = IF place \in {"pacing", "sleeping", "calling"}
                       THEN Holders \cup {t} ELSE Holders \ {t}
         /\ \A p : p # place /\ pc[t] # p => At(p)' = At(p)
         /\ (t \in Holders <=> place \in {"pacing", "sleeping", "calling"}) => Holders' = Holders
<1>1. /\ pc' \in [Callers -> Places]
      /\ pc'[t] = place
      /\ \A u \in Callers : u # t => pc'[u] = pc[u]
  OBVIOUS
<1>2. ASSUME NEW p PROVE At(p)' = IF p = place THEN At(p) \cup {t} ELSE At(p) \ {t}
  BY <1>1 DEF At
<1>3. Holders' = IF place \in {"pacing", "sleeping", "calling"}
                 THEN Holders \cup {t} ELSE Holders \ {t}
  BY <1>1 DEF Holders, Holds
<1>4. \A p : p # place /\ pc[t] # p => At(p)' = At(p)
  BY <1>2 DEF At
<1>5. (t \in Holders <=> place \in {"pacing", "sleeping", "calling"}) => Holders' = Holders
  BY <1>3
<1> QED
  BY <1>1, <1>2, <1>3, <1>4, <1>5

\* The semaphore's arithmetic: a permit for each holder.
LEMMA PermitStep ==
  ASSUME NEW t \in Callers, TypeOK, PermitsConserved,
         \/ Holders' = Holders /\ permits' = permits
         \/ Holders' = Holders \cup {t} /\ t \notin Holders /\ permits > 0 /\ permits' = permits - 1
         \/ Holders' = Holders \ {t} /\ t \in Holders /\ permits' = permits + 1
  PROVE  PermitsConserved' /\ permits' \in 0..MaxConcurrency
<1>1. /\ IsFiniteSet(Holders)
      /\ Cardinality(Holders) \in Nat
      /\ permits + Cardinality(Holders) = MaxConcurrency
      /\ permits \in 0..MaxConcurrency /\ MaxConcurrency \in Nat
  BY RateLimiterAssumption, FS_Subset, FS_CardinalityType DEF Holders, PermitsConserved, TypeOK
<1>2. /\ Cardinality(Holders \cup {t}) = IF t \in Holders THEN Cardinality(Holders)
                                         ELSE Cardinality(Holders) + 1
      /\ Cardinality(Holders \ {t}) = IF t \in Holders THEN Cardinality(Holders) - 1
                                      ELSE Cardinality(Holders)
  BY <1>1, FS_AddElement, FS_RemoveElement
<1>3. IsFiniteSet(Holders') /\ Cardinality(Holders') \in Nat
  BY RateLimiterAssumption, FS_Subset, FS_CardinalityType DEF Holders
<1>4. permits' + Cardinality(Holders') = MaxConcurrency /\ permits' \in 0..MaxConcurrency
  <2> DEFINE n == Cardinality(Holders)
             m == Cardinality(Holders')
  <2>0. n \in Nat /\ m \in Nat /\ permits + n = MaxConcurrency
    BY <1>1, <1>3
  <2>1. \/ m = n /\ permits' = permits
        \/ m = n + 1 /\ permits > 0 /\ permits' = permits - 1
        \/ m = n - 1 /\ permits' = permits + 1
    BY <1>2
  <2> HIDE DEF n, m
  <2>2. permits' + m = MaxConcurrency /\ permits' \in 0..MaxConcurrency
    BY <1>1, <2>0, <2>1
  <2> QED
    BY <2>2 DEF m
<1> QED
  BY <1>4 DEF PermitsConserved, Holders

LEMMA InitLInv == Init => LInv
<1> SUFFICES ASSUME Init PROVE LInv
  OBVIOUS
<1> USE RateLimiterAssumption
<1>1. TypeOK
  <2>1. queue \in Seq(Callers) /\ lockQueue \in Seq(Callers)
    BY EmptySeq DEF Init
  <2>2. \A n \in Nat : 0 \in 0..n /\ n \in 0..n
    OBVIOUS
  <2>3. MinInterval + BackoffMax \in Nat /\ MaxRetries + 1 \in Nat
    OBVIOUS
  <2> QED
    BY <2>1, <2>2, <2>3 DEF Init, TypeOK, Places
<1>2. PermitsConserved
  <2>1. {t \in Callers : Holds(t)} = {}
    BY DEF Init, Holds
  <2>2. Cardinality({t \in Callers : Holds(t)}) = 0
    BY <2>1, FS_EmptySet, Zenon
  <2>3. permits + 0 = MaxConcurrency
    BY DEF Init
  <2> QED
    BY <2>2, <2>3 DEF PermitsConserved
<1>3. Lines(queue, At("queued")) /\ Lines(lockQueue, At("pacing"))
  BY DEF Init, Lines, At, Distinct, Stands
<1>4. SleeperHasLock /\ SleepIsLongEnough /\ CallsAreCounted /\ callAge = lastAge
  BY DEF Init, SleeperHasLock, SleepIsLongEnough, CallsAreCounted
<1> QED
  BY <1>1, <1>2, <1>3, <1>4 DEF LInv

\* Every step keeps the invariant.
LEMMA StepLInv == LInv /\ [Next]_vars => LInv'
<1> SUFFICES ASSUME LInv, [Next]_vars PROVE LInv'
  OBVIOUS
<1> USE RateLimiterAssumption
<1>0. /\ TypeOK /\ PermitsConserved
      /\ queue \in Seq(Callers) /\ Lines(queue, At("queued"))
      /\ lockQueue \in Seq(Callers) /\ Lines(lockQueue, At("pacing"))
      /\ pc \in [Callers -> Places]
      /\ {"idle", "queued", "pacing", "sleeping", "calling", "backoff"} = Places
  BY DEF LInv, TypeOK, Places
<1>a. /\ \A t \in Callers : t \notin At("queued") =>
           Append(queue, t) \in Seq(Callers) /\ Lines(Append(queue, t), At("queued") \cup {t})
      /\ \A t, new : Dropped(queue, t, new) =>
           new \in Seq(Callers) /\ Lines(new, At("queued") \ {t})
  BY <1>0, LineSteps
<1>b. /\ \A t \in Callers : t \notin At("pacing") =>
           Append(lockQueue, t) \in Seq(Callers) /\ Lines(Append(lockQueue, t), At("pacing") \cup {t})
      /\ \A t, new : Dropped(lockQueue, t, new) =>
           new \in Seq(Callers) /\ Lines(new, At("pacing") \ {t})
  BY <1>0, LineSteps
<1>1. ASSUME NEW t \in Callers, Request(t) PROVE LInv'
  <2>1. /\ pc[t] = "idle" /\ pc' = [pc EXCEPT ![t] = "queued"]
        /\ t \notin At("queued") /\ t \notin Holders
    BY <1>1 DEF Request, At, Holders, Holds
  <2>2. queue' \in Seq(Callers) /\ Lines(queue', At("queued")')
    <3>1. At("queued")' = At("queued") \cup {t}
      BY <1>0, <2>1 DEF At
    <3> QED
      BY <1>1, <1>a, <2>1, <3>1 DEF Request
  <2>3. Lines(lockQueue', At("pacing")')
    <3>1. At("pacing")' = At("pacing")
      BY <1>0, <2>1 DEF At
    <3> QED
      BY <1>0, <1>1, <3>1 DEF Request
  <2>4. PermitsConserved'
    BY <1>0, <1>1, <2>1, Moves, PermitStep DEF Request
  <2>5. TypeOK'
    BY <1>0, <1>1, <2>1, <2>2, Moves DEF Request, TypeOK
  <2>6. SleeperHasLock' /\ SleepIsLongEnough'
    BY <1>0, <1>1, <2>1, Moves DEF Request, LInv, SleeperHasLock, SleepIsLongEnough
  <2>7. CallsAreCounted'
    BY <1>0, <1>1, <2>1, Moves DEF Request, LInv, CallsAreCounted, TypeOK
  <2> QED
    BY <1>1, <2>2, <2>3, <2>4, <2>5, <2>6, <2>7 DEF Request, LInv
<1>2. ASSUME NEW t \in Callers, Acquire(t) PROVE LInv'
  <2>0. t \in At("queued") /\ Tail(queue) \in Seq(Callers) /\ Lines(Tail(queue), At("queued") \ {t})
    BY <1>0, <1>2, LineSteps DEF Acquire
  <2>1. /\ pc[t] = "queued" /\ pc' = [pc EXCEPT ![t] = "pacing"]
        /\ t \notin At("pacing") /\ t \notin Holders
    BY <1>2, <2>0 DEF Acquire, At, Holders, Holds
  <2>2. queue' \in Seq(Callers) /\ Lines(queue', At("queued")')
    <3>1. At("queued")' = At("queued") \ {t}
      BY <1>0, <2>1 DEF At
    <3> QED
      BY <1>2, <2>0, <3>1 DEF Acquire
  <2>3. lockQueue' \in Seq(Callers) /\ Lines(lockQueue', At("pacing")')
    <3>1. At("pacing")' = At("pacing") \cup {t}
      BY <1>0, <2>1 DEF At
    <3> QED
      BY <1>2, <1>b, <2>1, <3>1 DEF Acquire
  <2>4. PermitsConserved' /\ permits' \in 0..MaxConcurrency
    BY <1>0, <1>2, <2>1, Moves, PermitStep DEF Acquire
  <2>5. TypeOK'
    BY <1>0, <1>2, <2>1, <2>2, <2>3, <2>4, Moves DEF Acquire, TypeOK
  <2>6. SleeperHasLock' /\ SleepIsLongEnough'
    BY <1>0, <1>2, <2>1, Moves DEF Acquire, LInv, SleeperHasLock, SleepIsLongEnough
  <2>7. CallsAreCounted'
    BY <1>0, <1>2, <2>1, Moves DEF Acquire, LInv, CallsAreCounted
  <2> QED
    BY <1>2, <2>2, <2>3, <2>4, <2>5, <2>6, <2>7 DEF Acquire, LInv
<1>3. ASSUME NEW t \in Callers, Measure(t) PROVE LInv'
  <2>0. /\ t \in At("pacing")
        /\ Tail(lockQueue) \in Seq(Callers) /\ Lines(Tail(lockQueue), At("pacing") \ {t})
    BY <1>0, <1>3, LineSteps DEF Measure
  <2>1. /\ pc[t] = "pacing" /\ pc' = [pc EXCEPT ![t] = "sleeping"]
        /\ t \in Holders
    BY <1>3, <2>0 DEF Measure, At, Holders, Holds
  <2>2. lockQueue' \in Seq(Callers) /\ Lines(lockQueue', At("pacing")')
    <3>1. At("pacing")' = At("pacing") \ {t}
      BY <1>0, <2>1 DEF At
    <3> QED
      BY <1>3, <2>0, <3>1 DEF Measure
  <2>3. Lines(queue', At("queued")')
    <3>1. At("queued")' = At("queued")
      BY <1>0, <2>1 DEF At
    <3> QED
      BY <1>0, <1>3, <3>1 DEF Measure
  <2>4. PermitsConserved'
    BY <1>0, <1>3, <2>1, Moves, PermitStep DEF Measure
  <2>5. TypeOK'
    <3>1. MinInterval - lastAge \in 0..(MinInterval + BackoffMax)
      BY <1>0 DEF TypeOK
    <3> QED
      BY <1>0, <1>3, <2>1, <2>2, <3>1, Moves DEF Measure, TypeOK
  <2>6. SleeperHasLock'
    BY <1>0, <1>3, <2>1, Moves DEF Measure, LInv, SleeperHasLock
  <2>7. SleepIsLongEnough'
    <3>1. ASSUME NEW u \in Callers, pc'[u] = "sleeping" PROVE u = t
      BY <1>0, <1>3, <2>1, <3>1, Moves DEF Measure, LInv, SleeperHasLock
    <3>2. lastAge' + delay'[t] >= MinInterval
      BY <1>0, <1>3 DEF Measure, TypeOK
    <3> QED
      BY <3>1, <3>2 DEF SleepIsLongEnough
  <2>8. CallsAreCounted'
    BY <1>0, <1>3, <2>1, Moves DEF Measure, LInv, CallsAreCounted
  <2> QED
    BY <1>3, <2>2, <2>3, <2>4, <2>5, <2>6, <2>7, <2>8 DEF Measure, LInv
<1>4. ASSUME NEW t \in Callers, Start(t) PROVE LInv'
  <2>1. /\ pc[t] = "sleeping" /\ pc' = [pc EXCEPT ![t] = "calling"]
        /\ t \in Holders
    BY <1>4 DEF Start, Holders, Holds
  <2>2. Lines(queue', At("queued")') /\ Lines(lockQueue', At("pacing")')
    <3>1. At("queued")' = At("queued") /\ At("pacing")' = At("pacing")
      BY <1>0, <2>1 DEF At
    <3> QED
      BY <1>0, <1>4, <3>1 DEF Start
  <2>3. PermitsConserved'
    BY <1>0, <1>4, <2>1, Moves, PermitStep DEF Start
  <2>4. calls[t] = attempt[t] /\ calls[t] + 1 \in 0..(MaxRetries + 1)
    BY <1>0, <2>1 DEF LInv, CallsAreCounted, TypeOK
  <2>5. TypeOK'
    <3>1. calls' \in [Callers -> 0..(MaxRetries + 1)]
      BY <1>4, <1>0, <2>4 DEF Start, TypeOK
    <3>2. lastAge' \in 0..MinInterval /\ callAge' \in 0..MinInterval
      BY <1>4 DEF Start
    <3>3. pc' \in [Callers -> Places]
      BY <1>0, <2>1, Moves
    <3> QED
      BY <1>0, <1>4, <3>1, <3>2, <3>3 DEF Start, TypeOK
  <2>6. SleeperHasLock' /\ SleepIsLongEnough'
    <3>1. ASSUME NEW u \in Callers PROVE pc'[u] # "sleeping"
      BY <1>0, <1>4, <2>1, Moves DEF LInv, SleeperHasLock
    <3> QED
      BY <1>4, <3>1 DEF Start, SleeperHasLock, SleepIsLongEnough
  <2>7. CallsAreCounted'
    <3>1. ASSUME NEW u \in Callers, u # t
          PROVE  calls'[u] = calls[u] /\ attempt'[u] = attempt[u] /\ pc'[u] = pc[u]
      BY <1>0, <1>4, <2>1, <3>1, Moves DEF Start, TypeOK
    <3>2. calls'[t] = attempt'[t] + 1 /\ pc'[t] = "calling"
      BY <1>0, <1>4, <2>1, <2>4, Moves DEF Start, TypeOK
    <3>3. attempt'[t] \in Nat
      BY <2>5 DEF TypeOK
    <3> QED
      BY <3>1, <3>2, <3>3 DEF LInv, CallsAreCounted
  <2> QED
    BY <1>4, <2>2, <2>3, <2>5, <2>6, <2>7 DEF Start, LInv
<1>5. ASSUME NEW t \in Callers, Finish(t) PROVE LInv'
  <2>1. /\ pc[t] = "calling" /\ pc' = [pc EXCEPT ![t] = "idle"]
        /\ t \in Holders
    BY <1>5 DEF Finish, Holders, Holds
  <2>2. Lines(queue', At("queued")') /\ Lines(lockQueue', At("pacing")')
    <3>1. At("queued")' = At("queued") /\ At("pacing")' = At("pacing")
      BY <1>0, <2>1 DEF At
    <3> QED
      BY <1>0, <1>5, <3>1 DEF Finish
  <2>3. PermitsConserved' /\ permits' \in 0..MaxConcurrency
    BY <1>0, <1>5, <2>1, Moves, PermitStep DEF Finish
  <2>4. TypeOK'
    BY <1>0, <1>5, <2>1, <2>3, Moves DEF Finish, TypeOK
  <2>5. SleeperHasLock' /\ SleepIsLongEnough' /\ CallsAreCounted'
    BY <1>0, <1>5, <2>1, Moves
       DEF Finish, LInv, SleeperHasLock, SleepIsLongEnough, CallsAreCounted
  <2> QED
    BY <1>5, <2>2, <2>3, <2>4, <2>5 DEF Finish, LInv
<1>6. ASSUME NEW t \in Callers, Throttled(t) PROVE LInv'
  <2>1. /\ pc[t] = "calling" /\ t \in Holders /\ permits' = permits + 1
        /\ UNCHANGED <<queue, lockQueue, locked, lastAge, calls, callAge>>
    BY <1>6 DEF Throttled, Holders, Holds
  <2>2. PICK place \in {"idle", "backoff"} :
          /\ pc' = [pc EXCEPT ![t] = place]
          /\ \/ place = "idle" /\ UNCHANGED <<delay, attempt>>
             \/ /\ place = "backoff" /\ ~(attempt[t] >= MaxRetries)
                /\ attempt' = [attempt EXCEPT ![t] = @ + 1]
                /\ \E d \in 0..BackoffMax : delay' = [delay EXCEPT ![t] = d]
    BY <1>6 DEF Throttled, BackoffDelays
  <2>3. Lines(queue', At("queued")') /\ Lines(lockQueue', At("pacing")')
    <3>1. At("queued")' = At("queued") /\ At("pacing")' = At("pacing")
      BY <1>0, <2>1, <2>2 DEF At
    <3> QED
      BY <1>0, <2>1, <3>1
  <2>4. PermitsConserved' /\ permits' \in 0..MaxConcurrency
    BY <1>0, <2>1, <2>2, Moves, PermitStep
  <2>5. /\ attempt' \in [Callers -> 0..MaxRetries]
        /\ delay' \in [Callers -> 0..(MinInterval + BackoffMax)]
        /\ \A u \in Callers : u # t => attempt'[u] = attempt[u] /\ delay'[u] = delay[u]
        /\ attempt'[t] = attempt[t] \/ (attempt'[t] = attempt[t] + 1 /\ pc'[t] = "backoff")
        /\ pc'[t] = "backoff" => attempt'[t] = attempt[t] + 1
    <3>0. pc'[t] = place
      BY <1>0, <2>2, Moves
    <3>1. CASE place = "idle" /\ UNCHANGED <<delay, attempt>>
      BY <1>0, <3>0, <3>1 DEF TypeOK
    <3>2. CASE ~(attempt[t] >= MaxRetries) /\ place = "backoff"
      <4>1. /\ attempt' = [attempt EXCEPT ![t] = @ + 1]
            /\ \E d \in 0..BackoffMax : delay' = [delay EXCEPT ![t] = d]
        BY <2>2, <3>2
      <4>2. attempt[t] + 1 \in 0..MaxRetries
        BY <1>0, <3>2 DEF TypeOK
      <4>3. \A d \in 0..BackoffMax : d \in 0..(MinInterval + BackoffMax)
        OBVIOUS
      <4> QED
        BY <1>0, <3>0, <3>2, <4>1, <4>2, <4>3 DEF TypeOK
    <3> QED
      BY <2>2, <3>1, <3>2
  <2>6. TypeOK'
    BY <1>0, <2>1, <2>2, <2>4, <2>5, Moves DEF TypeOK
  <2>7. SleeperHasLock' /\ SleepIsLongEnough'
    BY <1>0, <2>1, <2>2, <2>5, Moves DEF LInv, SleeperHasLock, SleepIsLongEnough
  <2>8. CallsAreCounted'
    <3>1. \A u \in Callers : u # t => /\ calls'[u] = calls[u] /\ attempt'[u] = attempt[u]
                                       /\ pc'[u] = pc[u]
      BY <1>0, <2>1, <2>2, <2>5, Moves
    <3>2. calls'[t] = calls[t] /\ calls[t] \in Nat /\ attempt[t] \in Nat /\ attempt'[t] \in Nat
      BY <1>0, <2>1, <2>6 DEF TypeOK
    <3>3. calls'[t] <= attempt'[t] + 1
      BY <2>5, <3>2 DEF LInv, CallsAreCounted
    <3>4. pc'[t] = "idle" \/ pc'[t] = "backoff"
      BY <1>0, <2>2, Moves
    <3>5. calls[t] = attempt[t] + 1
      BY <2>1 DEF LInv, CallsAreCounted
    <3> QED
      BY <2>5, <3>1, <3>2, <3>3, <3>4, <3>5 DEF LInv, CallsAreCounted
  <2> QED
    BY <2>1, <2>3, <2>4, <2>6, <2>7, <2>8 DEF LInv
<1>7. ASSUME NEW t \in Callers, Retry(t) PROVE LInv'
  <2>1. /\ pc[t] = "backoff" /\ pc' = [pc EXCEPT ![t] = "queued"]
        /\ t \notin At("queued") /\ t \notin Holders
    BY <1>7 DEF Retry, At, Holders, Holds
  <2>2. queue' \in Seq(Callers) /\ Lines(queue', At("queued")')
    <3>1. At("queued")' = At("queued") \cup {t}
      BY <1>0, <2>1 DEF At
    <3> QED
      BY <1>7, <1>a, <2>1, <3>1 DEF Retry
  <2>3. Lines(lockQueue', At("pacing")')
    <3>1. At("pacing")' = At("pacing")
      BY <1>0, <2>1 DEF At
    <3> QED
      BY <1>0, <1>7, <3>1 DEF Retry
  <2>4. PermitsConserved'
    BY <1>0, <1>7, <2>1, Moves, PermitStep DEF Retry
  <2>5. TypeOK'
    BY <1>0, <1>7, <2>1, <2>2, Moves DEF Retry, TypeOK
  <2>6. SleeperHasLock' /\ SleepIsLongEnough' /\ CallsAreCounted'
    BY <1>0, <1>7, <2>1, Moves
       DEF Retry, LInv, SleeperHasLock, SleepIsLongEnough, CallsAreCounted
  <2> QED
    BY <1>7, <2>2, <2>3, <2>4, <2>5, <2>6 DEF Retry, LInv
<1>8. ASSUME NEW t \in Callers, Cancel(t) PROVE LInv'
  <2>1. pc' = [pc EXCEPT ![t] = "idle"] /\ pc[t] # "idle"
    BY <1>8 DEF Cancel
  <2>2. queue' \in Seq(Callers) /\ Lines(queue', At("queued")')
    <3>1. CASE pc[t] = "queued"
      <4>1. At("queued")' = At("queued") \ {t}
        BY <1>0, <2>1 DEF At
      <4> QED
        BY <1>8, <1>a, <3>1, <4>1 DEF Cancel
    <3>2. CASE pc[t] # "queued"
      <4>1. At("queued")' = At("queued")
        BY <1>0, <2>1, <3>2 DEF At
      <4> QED
        BY <1>0, <1>8, <3>2, <4>1 DEF Cancel
    <3> QED
      BY <3>1, <3>2
  <2>3. lockQueue' \in Seq(Callers) /\ Lines(lockQueue', At("pacing")')
    <3>1. CASE pc[t] = "pacing"
      <4>1. At("pacing")' = At("pacing") \ {t}
        BY <1>0, <2>1 DEF At
      <4> QED
        BY <1>8, <1>b, <3>1, <4>1 DEF Cancel
    <3>2. CASE pc[t] # "pacing"
      <4>1. At("pacing")' = At("pacing")
        BY <1>0, <2>1, <3>2 DEF At
      <4> QED
        BY <1>0, <1>8, <3>2, <4>1 DEF Cancel
    <3> QED
      BY <3>1, <3>2
  <2>4. PermitsConserved' /\ permits' \in 0..MaxConcurrency
    <3>1. CASE Holds(t)
      BY <1>0, <1>8, <2>1, <3>1, Moves, PermitStep DEF Cancel, Holders
    <3>2. CASE ~Holds(t)
      BY <1>0, <1>8, <2>1, <3>2, Moves, PermitStep DEF Cancel, Holders
    <3> QED
      BY <3>1, <3>2
  <2>5. TypeOK'
    BY <1>0, <1>8, <2>1, <2>2, <2>3, <2>4, Moves DEF Cancel, TypeOK
  <2>6. SleeperHasLock'
    BY <1>0, <1>8, <2>1, Moves DEF Cancel, LInv, SleeperHasLock
  <2>7. SleepIsLongEnough' /\ CallsAreCounted'
    BY <1>0, <1>8, <2>1, Moves DEF Cancel, LInv, SleepIsLongEnough, CallsAreCounted
  <2> QED
    BY <1>8, <2>2, <2>3, <2>4, <2>5, <2>6, <2>7 DEF Cancel, LInv
<1>9. CASE Tick
  <2>1. At("queued")' = At("queued") /\ At("pacing")' = At("pacing")
    BY <1>9 DEF Tick, At
  <2>2. PermitsConserved'
    BY <1>0, <1>9 DEF Tick, PermitsConserved, Holds
  <2>3. /\ lastAge' \in 0..MinInterval
        /\ callAge' = lastAge'
        /\ lastAge' = MinInterval \/ lastAge' = lastAge + 1
    BY <1>0, <1>9 DEF Tick, Least, TypeOK, LInv
  <2>4. /\ delay' \in [Callers -> 0..(MinInterval + BackoffMax)]
        /\ \A t \in Callers : delay'[t] \in Nat /\ delay'[t] >= delay[t] - 1
    <3>0. MinInterval + BackoffMax \in Nat
      OBVIOUS
    <3>1. \A d \in 0..(MinInterval + BackoffMax) :
            LET e == IF d > 0 THEN d - 1 ELSE 0
            IN e \in 0..(MinInterval + BackoffMax) /\ e \in Nat /\ e >= d - 1
      BY <3>0
    <3>2. \A t \in Callers : /\ delay[t] \in 0..(MinInterval + BackoffMax)
                             /\ delay'[t] = IF delay[t] > 0 THEN delay[t] - 1 ELSE 0
      BY <1>0, <1>9 DEF Tick, TypeOK
    <3>3. \A t \in Callers : /\ delay'[t] \in 0..(MinInterval + BackoffMax)
                             /\ delay'[t] \in Nat /\ delay'[t] >= delay[t] - 1
      BY <3>1, <3>2
    <3>4. delay' = [t \in Callers |-> delay'[t]]
      BY <1>9 DEF Tick
    <3> HIDE DEF Tick
    <3> QED
      BY <3>3, <3>4
  <2>5. TypeOK'
    BY <1>0, <1>9, <2>3, <2>4 DEF Tick, TypeOK
  <2>6. SleepIsLongEnough'
    <3>1. ASSUME NEW t \in Callers, pc'[t] = "sleeping" PROVE lastAge' + delay'[t] >= MinInterval
      <4>1. lastAge + delay[t] >= MinInterval
        BY <1>9, <3>1 DEF Tick, LInv, SleepIsLongEnough
      <4>2. /\ lastAge \in Nat /\ delay[t] \in Nat
            /\ delay'[t] \in Nat /\ delay'[t] >= delay[t] - 1
        BY <1>0, <2>4 DEF TypeOK
      <4> QED
        BY <2>3, <4>1, <4>2
    <3> QED
      BY <3>1 DEF SleepIsLongEnough
  <2>7. SleeperHasLock' /\ CallsAreCounted'
    BY <1>9 DEF Tick, LInv, SleeperHasLock, CallsAreCounted
  <2> QED
    BY <1>0, <1>9, <2>1, <2>2, <2>3, <2>5, <2>6, <2>7 DEF Tick, LInv
<1>10. CASE UNCHANGED vars
  <2>1. At("queued")' = At("queued") /\ At("pacing")' = At("pacing")
    BY <1>10 DEF vars, At
  <2> QED
    BY <1>0, <1>10, <2>1
       DEF vars, LInv, TypeOK, PermitsConserved, Holds, SleeperHasLock, SleepIsLongEnough,
           CallsAreCounted
<1> QED
  BY <1>1, <1>2, <1>3, <1>4, <1>5, <1>6, <1>7, <1>8, <1>9, <1>10 DEF Next, Step

-----------------------------------------------------------------------------
(* Theorems.                                                               *)

\* The strengthened invariant holds throughout.
THEOREM LimiterInvariant == Spec => []LInv
BY InitLInv, StepLInv, PTL DEF Spec

\* Every variable keeps its type: retries and calls stay within their bounds,
\* and the semaphore's value between 0 and max_concurrency.
THEOREM LimiterTypes == Spec => []TypeOK
<1>1. LInv => TypeOK
  BY DEF LInv
<1> QED
  BY <1>1, LimiterInvariant, PTL

\* No permit is lost or doubled by an error, a retry or a cancellation.
THEOREM PermitsAreConserved == Spec => []PermitsConserved
<1>1. LInv => PermitsConserved
  BY DEF LInv
<1> QED
  BY <1>1, LimiterInvariant, PTL

\* The pacing lock is held exactly while one caller sleeps under it.
THEOREM SleepsAlone == Spec => []OneSleeper
<1>1. LInv => OneSleeper
  <2> SUFFICES ASSUME LInv PROVE OneSleeper
    OBVIOUS
  <2> DEFINE sleepers == {t \in Callers : pc[t] = "sleeping"}
  <2>1. CASE locked
    <3>1. PICK t \in Callers : pc[t] = "sleeping"
      BY <2>1 DEF LInv, SleeperHasLock
    <3>2. sleepers = {t}
      BY <3>1 DEF LInv, SleeperHasLock
    <3> QED
      BY <2>1, <3>2, FS_Singleton DEF OneSleeper
  <2>2. CASE ~locked
    <3>1. sleepers = {}
      BY <2>2 DEF LInv, SleeperHasLock
    <3> QED
      BY <2>2, <3>1, FS_EmptySet DEF OneSleeper
  <2> QED
    BY <2>1, <2>2
<1> QED
  BY <1>1, LimiterInvariant, PTL

-----------------------------------------------------------------------------
(* The limiter implements RequestThrottle.                                 *)

LEMMA InitThrottle == Init => Throttle!ThrottleInit
BY DEF Init, Throttle!ThrottleInit

\* Every step is a step of the throttle, or none: Start issues a request, the
\* end or the cancellation of a call answers it, Request begins an execute().
LEMMA StepThrottle ==
  LInv /\ [Next]_vars => [Throttle!ThrottleNext]_(Throttle!throttleVars)
<1> SUFFICES ASSUME LInv, [Next]_vars
             PROVE  [Throttle!ThrottleNext]_(Throttle!throttleVars)
  OBVIOUS
<1> USE RateLimiterAssumption
<1> DEFINE open == At("calling")
<1>0. TypeOK /\ pc \in [Callers -> Places]
      /\ {"idle", "queued", "pacing", "sleeping", "calling", "backoff"} = Places
      /\ open = {t \in Callers : pc[t] = "calling"}
  BY DEF LInv, TypeOK, At, Places
<1>1. ASSUME open' = open, UNCHANGED <<callAge, calls>>
      PROVE  [Throttle!ThrottleNext]_(Throttle!throttleVars)
  BY <1>1 DEF Throttle!throttleVars, At
<1>2. ASSUME NEW t \in Callers, t \in open, open' = open \ {t}, UNCHANGED <<callAge, calls>>
      PROVE  [Throttle!ThrottleNext]_(Throttle!throttleVars)
  BY <1>2 DEF Throttle!ThrottleNext, Throttle!Answered, At
<1>3. ASSUME NEW t \in Callers, Request(t)
      PROVE  [Throttle!ThrottleNext]_(Throttle!throttleVars)
  <2>1. t \notin open /\ open' = open
    BY <1>0, <1>3, Moves DEF Request, At
  <2>2. Throttle!Begin(t)
    BY <1>3, <2>1 DEF Request, Throttle!Begin, At
  <2> QED
    BY <2>2 DEF Throttle!ThrottleNext
<1>4. ASSUME NEW t \in Callers, Start(t)
      PROVE  [Throttle!ThrottleNext]_(Throttle!throttleVars)
  <2>1. pc[t] = "sleeping" /\ t \notin open /\ open' = open \cup {t}
    BY <1>0, <1>4, Moves DEF Start, At
  <2>2. Cardinality(open) < MaxConcurrency
    <3>1. IsFiniteSet(Holders) /\ IsFiniteSet(open)
      BY FS_Subset DEF Holders, At
    <3>2. (open \cup {t}) \in SUBSET Holders
      BY <2>1 DEF Holders, Holds, At
    <3>3. Cardinality(open \cup {t}) = Cardinality(open) + 1
      BY <2>1, <3>1, FS_AddElement
    <3>4. Cardinality(open \cup {t}) <= Cardinality(Holders)
      BY <3>1, <3>2, FS_Subset
    <3>5. permits + Cardinality(Holders) = MaxConcurrency /\ permits \in Nat
      BY <1>0 DEF LInv, PermitsConserved, TypeOK, Holders
    <3>6. Cardinality(open) \in Nat /\ Cardinality(Holders) \in Nat
      BY <3>1, FS_CardinalityType
    <3> HIDE DEF open
    <3> QED
      BY <3>3, <3>4, <3>5, <3>6
  <2>3. callAge = MinInterval
    BY <1>0, <1>4 DEF Start, LInv, SleepIsLongEnough, TypeOK
  <2>4. calls[t] <= MaxRetries
    BY <1>0, <2>1 DEF LInv, CallsAreCounted, TypeOK
  <2>5. Throttle!Issue(t)
    <3>1. /\ t \notin {u \in Callers : pc[u] = "calling"}
          /\ Cardinality({u \in Callers : pc[u] = "calling"}) < MaxConcurrency
      BY <2>1, <2>2 DEF At
    <3>2. {u \in Callers : pc[u] = "calling"}' = {u \in Callers : pc[u] = "calling"} \cup {t}
      BY <2>1 DEF At
    <3>3. calls' = [calls EXCEPT ![t] = @ + 1] /\ callAge' = 0
      BY <1>4 DEF Start
    <3>4. Throttle!Cardinality({u \in Callers : pc[u] = "calling"})
            = Cardinality({u \in Callers : pc[u] = "calling"})
      BY Zenon DEF Throttle!Cardinality, Cardinality
    <3> QED
      BY <2>3, <2>4, <3>1, <3>2, <3>3, <3>4 DEF Throttle!Issue
  <2> QED
    BY <2>5 DEF Throttle!ThrottleNext
<1>5. ASSUME NEW t \in Callers, Acquire(t) \/ Measure(t) \/ Retry(t)
      PROVE  [Throttle!ThrottleNext]_(Throttle!throttleVars)
  <2>1. CASE Acquire(t)
    <3>1. t \in At("queued") /\ pc' = [pc EXCEPT ![t] = "pacing"]
      BY <1>0, <2>1, LineSteps DEF Acquire, LInv, TypeOK
    <3>2. open' = open
      BY <1>0, <3>1, Moves DEF At
    <3> QED
      BY <1>1, <2>1, <3>2 DEF Acquire
  <2>2. CASE Measure(t)
    <3>1. t \in At("pacing") /\ pc' = [pc EXCEPT ![t] = "sleeping"]
      BY <1>0, <2>2, LineSteps DEF Measure, LInv, TypeOK
    <3>2. open' = open
      BY <1>0, <3>1, Moves DEF At
    <3> QED
      BY <1>1, <2>2, <3>2 DEF Measure
  <2>3. CASE Retry(t)
    <3>2. open' = open
      BY <1>0, <2>3, Moves DEF Retry, At
    <3> QED
      BY <1>1, <2>3, <3>2 DEF Retry
  <2> QED
    BY <1>5, <2>1, <2>2, <2>3
<1>6. ASSUME NEW t \in Callers, Finish(t) \/ Throttled(t)
      PROVE  [Throttle!ThrottleNext]_(Throttle!throttleVars)
  <2>1. /\ t \in open /\ UNCHANGED <<callAge, calls>>
        /\ \E place \in {"idle", "backoff"} : pc' = [pc EXCEPT ![t] = place]
    BY <1>6 DEF Finish, Throttled, At
  <2>2. open' = open \ {t}
    BY <1>0, <2>1, Moves
  <2> QED
    BY <1>2, <2>1, <2>2
<1>7. ASSUME NEW t \in Callers, Cancel(t)
      PROVE  [Throttle!ThrottleNext]_(Throttle!throttleVars)
  <2>1. open' = open \ {t} /\ UNCHANGED <<callAge, calls>>
    BY <1>0, <1>7, Moves DEF Cancel
  <2>2. CASE t \in open
    BY <1>2, <2>1, <2>2
  <2>3. CASE t \notin open
    BY <1>1, <2>1, <2>3
  <2> QED
    BY <2>2, <2>3
<1>8. CASE Tick
  <2>1. open' = open /\ calls' = calls
    BY <1>8 DEF Tick, At
  <2>2. callAge' = callAge \/ (callAge < MinInterval /\ callAge' = callAge + 1)
    BY <1>0, <1>8 DEF Tick, Least, TypeOK
  <2>3. CASE callAge' = callAge
    BY <1>1, <2>1, <2>3
  <2>4. CASE callAge < MinInterval /\ callAge' = callAge + 1
    BY <2>1, <2>4 DEF Throttle!ThrottleNext, Throttle!Ages, At
  <2> QED
    BY <2>2, <2>3, <2>4
<1>9. CASE UNCHANGED vars
  BY <1>1, <1>9 DEF vars, At
<1> QED
  BY <1>3, <1>4, <1>5, <1>6, <1>7, <1>8, <1>9 DEF Next, Step

\* Whatever the callers, the provider and the scheduler do, the limiter never has
\* more than max_concurrency requests open, never issues two within the minimum
\* interval, and never issues more than max_retries + 1 for one execute().
THEOREM LimiterImplementsThrottle == Spec => ImplementsThrottle
BY InitThrottle, StepThrottle, LimiterInvariant, PTL
   DEF Spec, ImplementsThrottle, Throttle!ThrottleSpec
=============================================================================
