------------------------- MODULE TransferJobsProofs -------------------------
(***************************************************************************)
(* Proofs about TransferJobs for any operations, workers, delays and       *)
(* bounds: its types, its inductive invariant, and the safety properties   *)
(* that follow from it.                                                    *)
(***************************************************************************)
EXTENDS TransferJobs, FiniteSetTheorems, TLAPS

-----------------------------------------------------------------------------
(* The inductive invariant.                                                *)

\* A running attempt was due when it began, and nothing puts it off meanwhile.
RunningWasDue == \A op \in Ops : active[op] # "no" => row[op].next <= 0

\* An attempt that has read its row and missed a change is tagged, or its
\* change's caller has yet to wake it, or was told that it could not.
MissedIsTagged ==
    \A op \in Ops :
        row[op].news /\ row[op].phase = "open" /\ life = "up"
        /\ attempt[op] \in {"waiting", "failed", "ended"}
        => op \in unwoken \union unrecorded \/ active[op] = "woken"

\* Attempts are counted under the lock, and dispatched up to the slots.
Counted ==
    /\ Cardinality(Running) <= Workers
    /\ \A op \in Ops : /\ attempt[op] # "none" => active[op] # "no"
                       /\ active[op] # "no" /\ life = "up" => attempt[op] # "none"

\* What is over stays over.
Over ==
    /\ life \in {"joined", "down"} =>
          loop.pc = "exited" /\ tails = 0 /\ \A op \in Ops : attempt[op] = "none"
    /\ life = "down" => \A op \in Ops : active[op] = "no"

Safe == RunningWasDue /\ MissedIsTagged /\ Counted /\ Over /\ NothingForgotten

IInv == TypeOK /\ Safe /\ NeverSleepsOverWork

-----------------------------------------------------------------------------
(* Numbers, and the order of the queue.                                    *)

LEMMA LongestDelay ==
  /\ Max(Delays) \in Nat \ {0}
  /\ \A d \in Delays : d \in 1 .. Max(Delays)
<1>1. PICK longest \in Delays : \A d \in Delays : d <= longest
  BY DelaysAssumption
<1>2. \E x \in Delays : \A y \in Delays : x >= y
  BY <1>1, DelaysAssumption
<1>3. Max(Delays) \in Delays /\ \A d \in Delays : Max(Delays) >= d
  BY <1>2 DEF Max
<1>4. Max(Delays) \in Nat \ {0}
  BY <1>3, DelaysAssumption
<1>5. ASSUME NEW d \in Delays
      PROVE  d \in 1 .. Max(Delays)
  <2>1. d \in Nat \ {0} /\ d <= Max(Delays)
    BY <1>3, <1>4, DelaysAssumption
  <2> QED BY <1>4, <2>1
<1> QED BY <1>4, <1>5

LEMMA Numbers ==
  /\ Cardinality(Ops) \in Nat /\ Overdue \in Int /\ Overdue <= 0 /\ Woken \in Int /\ Woken < 0
  /\ Parked \in Nat /\ Parked > 1 /\ NoTimer = Parked /\ Parked = Max(Delays) + 1
  /\ \A time \in Times : time \in Int /\ time < Parked
  /\ \A time \in Overdue .. Max(Delays) : time \in Times
  /\ Woken = Overdue - 1 /\ Overdue = -Cardinality(Ops)
<1>1. Cardinality(Ops) \in Nat
  BY OpsAssumption, FS_CardinalityType
<1> QED BY <1>1, LongestDelay DEF Overdue, Woken, Parked, NoTimer, Times

LEMMA Literals ==
  /\ AtDispatch \in Loops
  /\ Exited \in Loops
  /\ AtDispatch.pc = "dispatch" /\ Exited.pc = "exited"
  /\ \A timer \in 0 .. Max(Delays) + 1, paused \in BOOLEAN :
        /\ Waiting(timer, paused) \in Loops
        /\ Waiting(timer, paused).pc = "wait" /\ Waiting(timer, paused).timer = timer
        /\ Waiting(timer, paused).paused = paused
  BY Numbers, LongestDelay DEF AtDispatch, Exited, Waiting, Loops

\* The types, field by field.
LEMMA Shape ==
  ASSUME TypeOK
  PROVE  /\ \A op \in Ops : /\ op \in Nat
                            /\ row[op].phase \in {"unready", "open", "done"}
                            /\ row[op].next \in Int /\ row[op].next <= Parked
                            /\ row[op].next \in Times \union {Woken, Parked}
                            /\ row[op].news \in BOOLEAN
                            /\ active[op] \in {"no", "running", "woken"}
                            /\ attempt[op] \in {"none", "started", "waiting", "failed", "ended"}
         /\ tails \in Nat /\ callers \in Nat /\ retryAfter \in Nat /\ retryAfter < Parked
         /\ loop.pc \in {"dispatch", "wait", "exited"}
         /\ loop.timer \in Nat /\ loop.timer <= Parked /\ loop.paused \in BOOLEAN
  BY Numbers, OpsAssumption, BoundsAssumption DEF TypeOK, Rows, Loops

LEMMA Sets ==
  ASSUME NEW S \in SUBSET Ops
  PROVE  IsFiniteSet(S) /\ Cardinality(S) \in Nat
  BY OpsAssumption, FS_Subset, FS_CardinalityType

\* The number of its predecessors numbers the members of a set of rows.
LEMMA Ranks ==
  ASSUME TypeOK, NEW S \in SUBSET Ops
  PROVE  /\ \A x \in S : Cardinality({b \in S : Before(b, x)}) \in 0 .. Cardinality(S) - 1
         /\ \A x, y \in S : Cardinality({b \in S : Before(b, x)}) = Cardinality({b \in S : Before(b, y)})
                              => x = y
         /\ \A n \in 0 .. Cardinality(S) - 1 :
               \E x \in S : Cardinality({b \in S : Before(b, x)}) = n
<1> DEFINE Ahead(x) == {b \in S : Before(b, x)}
           rank == [x \in S |-> Cardinality(Ahead(x))]
           n == Cardinality(S)
<1>1. IsFiniteSet(S) /\ n \in Nat
  BY Sets
<1>2. ASSUME NEW x \in S
      PROVE  IsFiniteSet(Ahead(x)) /\ Cardinality(Ahead(x)) \in 0 .. n - 1
  <2>1. x \notin Ahead(x)
    BY Shape DEF Before
  <2>2. Ahead(x) \in SUBSET (S \ {x})
    BY <2>1
  <2>3. IsFiniteSet(S \ {x}) /\ Cardinality(S \ {x}) = n - 1
    BY <1>1, FS_RemoveElement
  <2>4. IsFiniteSet(Ahead(x)) /\ Cardinality(Ahead(x)) <= n - 1
    BY <2>2, <2>3, FS_Subset
  <2>5. Cardinality(Ahead(x)) \in Nat
    BY <2>4, FS_CardinalityType
  <2> QED BY <1>1, <2>4, <2>5
<1>3. ASSUME NEW x \in S, NEW y \in S, Before(x, y)
      PROVE  Cardinality(Ahead(x)) # Cardinality(Ahead(y))
  <2>1. x \notin Ahead(x) /\ x \in Ahead(y)
    BY <1>3, Shape DEF Before
  <2>2. Ahead(x) \in SUBSET Ahead(y)
    BY <1>3, Shape DEF Before
  <2>3. Cardinality(Ahead(y)) = Cardinality(Ahead(x)) => Ahead(y) = Ahead(x)
    BY <1>2, <2>2, FS_Subset
  <2> QED BY <2>1, <2>3
<1>4. ASSUME NEW x \in S, NEW y \in S, x # y
      PROVE  Before(x, y) \/ Before(y, x)
  BY <1>4, Shape DEF Before
<1>5. \A x, y \in S : Cardinality(Ahead(x)) = Cardinality(Ahead(y)) => x = y
  BY <1>3, <1>4
<1>6. rank \in Injection(S, 0 .. n - 1)
  <2>1. rank \in [S -> 0 .. n - 1]
    BY <1>2
  <2>2. \A x, y \in S : rank[x] = rank[y] => x = y
    BY <1>5
  <2> QED BY <2>1, <2>2 DEF Injection, IsInjective
<1>7. IsFiniteSet(0 .. n - 1) /\ Cardinality(0 .. n - 1) = n
  <2> HIDE DEF n
  <2>1. n \in Nat /\ n - 1 \in Int /\ 0 \in Int
    BY <1>1
  <2>2. /\ IsFiniteSet(0 .. n - 1)
        /\ Cardinality(0 .. n - 1) = IF 0 > n - 1 THEN 0 ELSE n - 1 - 0 + 1
    BY <2>1, FS_Interval
  <2> QED BY <2>1, <2>2
<1>8. rank \in Surjection(S, 0 .. n - 1)
  BY <1>6, <1>7, FS_Injection
<1>9. \A m \in 0 .. n - 1 : \E x \in S : Cardinality(Ahead(x)) = m
  BY <1>8 DEF Surjection
<1> QED BY <1>2, <1>5, <1>9

\* dispatch starts due rows up to the slots, and leaves one only for want of a slot.
LEMMA Starts ==
  ASSUME TypeOK, Cardinality(Running) <= Workers
  PROVE  /\ Starting \subseteq Offered \ Running
         /\ \A op \in Starting : row[op].next <= 0
         /\ Cardinality(Running \union Starting) <= Workers
         /\ \A op \in Offered \ (Running \union Starting) :
               row[op].next <= 0 => Cardinality(Running \union Starting) = Workers
<1> DEFINE due == {op \in Offered \ Running : row[op].next <= 0}
           Rank(x) == Cardinality({b \in due : Before(b, x)})
           free == Workers - Cardinality(Running)
           m == Cardinality(due)
<1>1. Starting = {op \in due : Rank(op) < free}
  BY DEF Starting
<1>2. due \in SUBSET Ops /\ Running \in SUBSET Ops /\ Starting \in SUBSET Ops
  BY <1>1 DEF Offered, Running
<1>3. /\ IsFiniteSet(due) /\ IsFiniteSet(Running) /\ IsFiniteSet(Starting)
      /\ m \in Nat /\ Cardinality(Running) \in Nat /\ Cardinality(Starting) \in Nat
  BY <1>2, Sets
<1>4. free \in Nat
  BY <1>3, WorkersAssumption
<1>5. /\ \A x \in due : Rank(x) \in 0 .. m - 1
      /\ \A x, y \in due : Rank(x) = Rank(y) => x = y
      /\ \A n \in 0 .. m - 1 : \E x \in due : Rank(x) = n
  <2> HIDE DEF due
  <2> QED BY <1>2, Ranks
<1> HIDE DEF due, Rank, free, m
<1>6. Cardinality(0 .. free - 1) = free /\ IsFiniteSet(0 .. free - 1)
  <2>1. free - 1 \in Int /\ 0 \in Int
    BY <1>4
  <2>2. /\ IsFiniteSet(0 .. free - 1)
        /\ Cardinality(0 .. free - 1) = IF 0 > free - 1 THEN 0 ELSE free - 1 - 0 + 1
    BY <2>1, FS_Interval
  <2> QED BY <1>4, <2>2
<1> DEFINE rank == [x \in Starting |-> Rank(x)]
<1>7. \A x \in Starting : x \in due /\ Rank(x) \in 0 .. free - 1
  BY <1>1, <1>3, <1>4, <1>5
<1>8. Cardinality(Starting) <= free
  <2>1. rank \in [Starting -> 0 .. free - 1]
    BY <1>7
  <2>2. \A x, y \in Starting : rank[x] = rank[y] => x = y
    BY <1>5, <1>7
  <2>3. rank \in Injection(Starting, 0 .. free - 1)
    BY <2>1, <2>2 DEF Injection, IsInjective
  <2> QED BY <1>6, <2>3, FS_Injection
<1>9. ASSUME NEW op \in due, op \notin Starting
      PROVE  Cardinality(Starting) = free
  <2>1. Rank(op) >= free /\ Rank(op) \in 0 .. m - 1
    BY <1>1, <1>3, <1>4, <1>5, <1>9
  <2>2. free <= m
    BY <2>1, <1>3, <1>4
  <2>3. ASSUME NEW n \in 0 .. free - 1
        PROVE  \E x \in Starting : rank[x] = n
    <3>1. PICK x \in due : Rank(x) = n
      BY <1>3, <1>4, <1>5, <2>2
    <3>2. x \in Starting
      BY <1>1, <1>4, <3>1
    <3> QED BY <3>1, <3>2
  <2>4. rank \in Surjection(Starting, 0 .. free - 1)
    BY <1>7, <2>3 DEF Surjection
  <2>5. free <= Cardinality(Starting)
    BY <1>3, <1>6, <2>4, FS_Surjection
  <2> QED BY <1>3, <1>4, <1>8, <2>5
<1>10. Cardinality(Running \union Starting) = Cardinality(Running) + Cardinality(Starting)
  <2>1. Running \cap Starting = {}
    BY <1>1 DEF due
  <2>2. Cardinality({}) = 0
    BY FS_EmptySet
  <2>3. Cardinality(Running \union Starting)
          = Cardinality(Running) + Cardinality(Starting) - Cardinality(Running \cap Starting)
    BY <1>3, FS_Union
  <2>4. Cardinality(Running \cap Starting) = 0
    BY <2>1, <2>2
  <2> QED BY <1>3, <2>3, <2>4
<1>11. Starting \subseteq Offered \ Running /\ \A op \in Starting : row[op].next <= 0
  BY <1>7 DEF due
<1>12. ASSUME NEW op \in Offered \ (Running \union Starting), row[op].next <= 0
       PROVE  Cardinality(Starting) = free
  BY <1>9, <1>12 DEF due
<1>13. Cardinality(Running) + free = Workers
  BY <1>3, WorkersAssumption DEF free
<1>14. Cardinality(Running \union Starting) <= Workers
  BY <1>3, <1>4, <1>8, <1>10, <1>13
<1>15. \A op \in Offered \ (Running \union Starting) :
          row[op].next <= 0 => Cardinality(Running \union Starting) = Workers
  BY <1>10, <1>12, <1>13
<1> QED BY <1>11, <1>14, <1>15

\* The timer is early enough for every idle row that has a time.
LEMMA Timers ==
  ASSUME TypeOK
  PROVE  /\ NextTimer \in 0 .. Max(Delays) + 1
         /\ \A op \in Offered \ Running :
               row[op].next > 0 /\ row[op].next # Parked /\ Cardinality(Running \union Starting) # Workers
               => NextTimer # NoTimer /\ NextTimer <= row[op].next
<1> DEFINE later == {o \in Offered \ Running : row[o].next > 0}
           ahead == {row[op].next : op \in later}
<1>1. later \in SUBSET Ops /\ \A time \in ahead : time \in Nat \ {0} /\ time <= Parked
  <2>1. later \in SUBSET Ops
    BY DEF Offered
  <2>2. \A op \in later : row[op].next \in Int /\ row[op].next > 0 /\ row[op].next <= Parked
    BY <2>1, Shape
  <2> QED BY <2>1, <2>2, Numbers
<1>2. ASSUME ahead # {}
      PROVE  Min(ahead) \in ahead /\ \A time \in ahead : Min(ahead) <= time
  <2>1. IsFiniteSet(later) /\ Cardinality(later) \in Nat /\ later # {}
    BY <1>1, <1>2, Sets
  <2>2. 0 \in 0 .. Cardinality(later) - 1
    BY <2>1, FS_EmptySet
  <2>3. PICK x \in later : Cardinality({b \in later : Before(b, x)}) = 0
    <3> HIDE DEF later
    <3> QED BY <1>1, <2>2, Ranks
  <2>4. \A b \in later : ~Before(b, x)
    <3>1. {b \in later : Before(b, x)} \in SUBSET Ops
      BY <1>1
    <3>2. IsFiniteSet({b \in later : Before(b, x)})
      BY <3>1, Sets
    <3> QED BY <2>3, <3>2, FS_EmptySet
  <2>5. \A b \in later : row[x].next <= row[b].next
    BY <1>1, <2>3, <2>4, Shape DEF Before
  <2>6. \E time \in ahead : \A other \in ahead : time <= other
    BY <2>3, <2>5
  <2> HIDE DEF ahead
  <2> QED BY <2>6 DEF Min
<1>3. NextTimer = IF Cardinality(Running \union Starting) = Workers \/ ahead \subseteq {Parked}
                  THEN NoTimer ELSE Min(ahead)
  BY DEF NextTimer
<1>4. ASSUME NEW op \in Offered \ Running, row[op].next > 0, row[op].next # Parked
      PROVE  row[op].next \in ahead /\ row[op].next < Parked
  BY <1>4, Shape, Numbers DEF Offered
<1> HIDE DEF ahead, later
<1>5. CASE Cardinality(Running \union Starting) = Workers \/ ahead \subseteq {Parked}
  <2>1. NextTimer = Parked /\ Parked \in 0 .. Max(Delays) + 1
    BY <1>3, <1>5, Numbers, LongestDelay
  <2>2. ASSUME NEW op \in Offered \ Running, row[op].next > 0, row[op].next # Parked
        PROVE  Cardinality(Running \union Starting) = Workers
    BY <1>4, <1>5, <2>2
  <2> QED BY <2>1, <2>2
<1>6. CASE ~(Cardinality(Running \union Starting) = Workers \/ ahead \subseteq {Parked})
  <2>1. Min(ahead) \in Nat /\ Min(ahead) <= Parked /\ \A time \in ahead : Min(ahead) <= time
    BY <1>1, <1>2, <1>6
  <2>2. NextTimer = Min(ahead)
    BY <1>3, <1>6
  <2>3. NextTimer \in 0 .. Max(Delays) + 1
    BY <2>1, <2>2, Numbers, LongestDelay
  <2>4. ASSUME NEW op \in Offered \ Running, row[op].next > 0, row[op].next # Parked
        PROVE  NextTimer # NoTimer /\ NextTimer <= row[op].next
    <3>1. NextTimer <= row[op].next /\ row[op].next < Parked /\ row[op].next \in Int
      BY <1>1, <1>4, <2>1, <2>2, <2>4
    <3> QED BY <2>1, <2>2, <3>1, Numbers
  <2> QED BY <2>3, <2>4
<1> QED BY <1>5, <1>6

\* What a tick makes of a row's time.
LEMMA Ageing ==
  ASSUME TypeOK, NEW op \in Ops
  PROVE  /\ Aged(op) \in Times \union {Woken, Parked}
         /\ row[op].next <= 0 => Aged(op) <= 0
         /\ row[op].next > 1 /\ row[op].next # Parked => Aged(op) = row[op].next - 1
         /\ row[op].next = Parked <=> Aged(op) = Parked
<1> DEFINE nexts == {row[o].next : o \in Ops}
           past == nexts \ {Woken}
           later == {time \in past : row[op].next < time /\ time <= 1}
<1>1. IsFiniteSet(nexts) /\ Cardinality(nexts) <= Cardinality(Ops)
  <2> DEFINE at == [o \in Ops |-> row[o].next]
  <2>1. at \in Surjection(Ops, nexts)
    BY DEF Surjection
  <2> QED BY <2>1, OpsAssumption, FS_Surjection
<1>2. later \in SUBSET nexts
  OBVIOUS
<1>3. IsFiniteSet(later) /\ Cardinality(later) <= Cardinality(nexts)
  BY <1>1, <1>2, FS_Subset
<1>4. Cardinality(later) \in Nat /\ Cardinality(nexts) \in Nat
  BY <1>1, <1>3, FS_CardinalityType
<1>5. -Cardinality(later) \in Times /\ -Cardinality(later) <= 0
  <2>1. -Cardinality(later) \in Int /\ -Cardinality(later) <= 0 /\ Overdue <= -Cardinality(later)
    BY <1>1, <1>3, <1>4, Numbers
  <2> QED BY <2>1, Numbers, LongestDelay
<1>6. Aged(op) = IF row[op].next \in {Woken, Parked} THEN row[op].next
                 ELSE IF row[op].next > 1 THEN row[op].next - 1 ELSE -Cardinality(later)
  BY DEF Aged
<1> HIDE DEF later, past, nexts
<1>7. /\ row[op].next \in Int /\ row[op].next <= Parked
      /\ row[op].next \in Times \union {Woken, Parked}
  BY Shape
<1>8. CASE row[op].next \in {Woken, Parked}
  BY <1>6, <1>7, <1>8, Numbers
<1>9. CASE row[op].next \notin {Woken, Parked} /\ row[op].next > 1
  <2>1. row[op].next - 1 \in Times
    <3>1. row[op].next \in Int /\ row[op].next < Parked
      BY <1>7, <1>9, Numbers
    <3> QED BY <1>9, <3>1, Numbers, LongestDelay
  <2>2. row[op].next - 1 < Parked
    BY <2>1, Numbers
  <2> QED BY <1>6, <1>7, <1>9, <2>1, <2>2, Numbers
<1>10. CASE row[op].next \notin {Woken, Parked} /\ row[op].next <= 1
  BY <1>5, <1>6, <1>7, <1>10, Numbers
<1> QED BY <1>7, <1>8, <1>9, <1>10

LEMMA Closing ==
  ASSUME NEW time \in 0 .. Max(Delays) + 1
  PROVE  /\ Closer(time) \in 0 .. Max(Delays) + 1
         /\ time \in 0 .. Max(Delays) => Closer(time) \in 0 .. Max(Delays)
         /\ time = Parked <=> Closer(time) = Parked
         /\ time \notin {0, Parked} => Closer(time) = time - 1
         /\ time = 0 => Closer(time) = 0
  BY Numbers, LongestDelay DEF Closer

-----------------------------------------------------------------------------
(* Types.                                                                  *)

LEMMA TypeInit == Init => TypeOK
<1> SUFFICES ASSUME Init
             PROVE  TypeOK
  OBVIOUS
<1>1. row \in [Ops -> Rows]
  BY DEF Init, Rows
<1>2. loop \in Loops
  BY Literals DEF Init
<1>3. /\ tails \in 0 .. MaxTails /\ news \in 0 .. MaxNews /\ callers \in Nat
      /\ retryAfter \in 0 .. Max(Delays)
  BY LongestDelay, BoundsAssumption DEF Init, Nobody
<1>4. /\ active \in [Ops -> {"no", "running", "woken"}]
      /\ attempt \in [Ops -> {"none", "started", "waiting", "failed", "ended"}]
  BY DEF Init, Nobody
<1> QED BY <1>1, <1>2, <1>3, <1>4 DEF Init, Nobody, TypeOK

\* A row with another time, or read by an attempt, is a row.
LEMMA RowUpdates ==
  ASSUME TypeOK, NEW op \in Ops
  PROVE  /\ row[op] \in Rows
         /\ \A next \in Times \union {Woken, Parked} :
               /\ [row[op] EXCEPT !.next = next] \in Rows
               /\ [row EXCEPT ![op].next = next] \in [Ops -> Rows]
         /\ \A phase \in {"unready", "open", "done"}, fresh \in BOOLEAN :
               [row EXCEPT ![op].phase = phase, ![op].news = fresh] \in [Ops -> Rows]
<1>1. row \in [Ops -> Rows] /\ row[op] \in Rows
  BY DEF TypeOK
<1>2. ASSUME NEW next \in Times \union {Woken, Parked}
      PROVE  [row[op] EXCEPT !.next = next] \in Rows
  BY <1>1 DEF Rows
<1>3. ASSUME NEW phase \in {"unready", "open", "done"}, NEW fresh \in BOOLEAN
      PROVE  [row[op] EXCEPT !.phase = phase, !.news = fresh] \in Rows
  BY <1>1 DEF Rows
<1>4. ASSUME NEW next \in Times \union {Woken, Parked}
      PROVE  [row EXCEPT ![op].next = next] \in [Ops -> Rows]
  BY <1>1, <1>2
<1>5. ASSUME NEW phase \in {"unready", "open", "done"}, NEW fresh \in BOOLEAN
      PROVE  [row EXCEPT ![op].phase = phase, ![op].news = fresh] \in [Ops -> Rows]
  BY <1>1, <1>3
<1> QED BY <1>1, <1>2, <1>4, <1>5

LEMMA TypeCallers ==
  ASSUME TypeOK,
         CallerSignals \/ WorkerSignals
         \/ \E op \in Ops : Change(op) \/ Wake(op) \/ WakeFails(op)
  PROVE  TypeOK'
<1>1. CASE CallerSignals
  <2>1. callers' \in Nat
    BY <1>1, Shape DEF CallerSignals
  <2> QED BY <1>1, <2>1 DEF TypeOK, CallerSignals
<1>2. CASE WorkerSignals
  <2>1. tails' \in 0 .. MaxTails
    BY <1>2, BoundsAssumption DEF WorkerSignals, TypeOK
  <2> QED BY <1>2, <2>1 DEF TypeOK, WorkerSignals
<1>3. ASSUME NEW op \in Ops, Change(op)
      PROVE  TypeOK'
  <2>1. row' \in [Ops -> Rows]
    BY <1>3, RowUpdates DEF Change
  <2>2. news' \in 0 .. MaxNews
    BY <1>3, BoundsAssumption DEF Change, TypeOK
  <2> QED BY <1>3, <2>1, <2>2 DEF TypeOK, Change, memory
<1>4. ASSUME NEW op \in Ops
      PROVE  Tagged(op) \in [Ops -> {"no", "running", "woken"}]
  BY DEF Tagged, TypeOK
<1>5. ASSUME NEW op \in Ops, Wake(op)
      PROVE  TypeOK'
  <2>1. row' \in [Ops -> Rows]
    <3>1. Woken \in Times \union {Woken, Parked}
      OBVIOUS
    <3>2. [row EXCEPT ![op].next = Woken] \in [Ops -> Rows] /\ row \in [Ops -> Rows]
      BY <3>1, RowUpdates DEF TypeOK
    <3>3. row' = row \/ row' = [row EXCEPT ![op].next = Woken]
      BY <1>5 DEF Wake
    <3> QED BY <3>2, <3>3
  <2>2. active' \in [Ops -> {"no", "running", "woken"}] /\ callers' \in Nat
    BY <1>4, <1>5, Shape DEF TypeOK, Wake
  <2> QED BY <1>5, <2>1, <2>2 DEF TypeOK, Wake
<1>6. ASSUME NEW op \in Ops, WakeFails(op)
      PROVE  TypeOK'
  <2>1. active' \in [Ops -> {"no", "running", "woken"}] /\ callers' \in Nat
    BY <1>4, <1>6, Shape DEF WakeFails
  <2> QED BY <1>6, <2>1 DEF TypeOK, WakeFails
<1> QED BY <1>1, <1>2, <1>3, <1>5, <1>6

LEMMA TypeLoop ==
  ASSUME TypeOK, Cardinality(Running) <= Workers, LoopNext \/ DispatchFails
  PROVE  TypeOK'
<1>1. CASE Dispatch
  <2>1. retryAfter \in 0 .. Max(Delays) + 1 /\ NextTimer \in 0 .. Max(Delays) + 1
    BY LongestDelay, Timers DEF TypeOK
  <2>2. loop' \in Loops
    BY <1>1, <2>1, Literals DEF Dispatch
  <2>3. /\ active' \in [Ops -> {"no", "running", "woken"}]
        /\ attempt' \in [Ops -> {"none", "started", "waiting", "failed", "ended"}]
    BY <1>1 DEF Dispatch, TypeOK
  <2> QED BY <1>1, <2>2, <2>3 DEF Dispatch, TypeOK
<1>2. CASE DispatchFails
  <2>1. \A d \in Delays : d \in 0 .. Max(Delays) + 1
    BY LongestDelay
  <2>2. loop' \in Loops
    BY <1>2, <2>1, Literals DEF DispatchFails
  <2> QED BY <1>2, <2>2 DEF DispatchFails, TypeOK
<1>3. CASE Resume
  <2>1. loop' \in Loops
    BY <1>3, Literals DEF Resume
  <2>2. wake' \in BOOLEAN
    BY <1>3 DEF Resume, TypeOK
  <2> QED BY <1>3, <2>1, <2>2 DEF Resume, TypeOK
<1>4. CASE LoopExits
  <2>1. loop' \in Loops
    BY <1>4, Literals DEF LoopExits
  <2> QED BY <1>4, <2>1 DEF LoopExits, TypeOK
<1> QED BY <1>1, <1>2, <1>3, <1>4 DEF LoopNext

LEMMA NextTimes ==
  ASSUME TypeOK, NEW op \in Ops, NEW next \in NextAttempts(op)
  PROVE  next \in Times \union {Woken, Parked} /\ (active[op] = "woken" => next = Woken)
<1>1. Delays \subseteq Times
  BY LongestDelay, Numbers
<1>2. CASE active[op] = "woken"
  BY <1>2 DEF NextAttempts
<1>3. CASE active[op] # "woken" /\ (attempt[op] = "failed" \/ (attempt[op] = "waiting" /\ op \in Outgoing))
  BY <1>1, <1>3 DEF NextAttempts
<1>4. CASE active[op] # "woken" /\ ~(attempt[op] = "failed" \/ (attempt[op] = "waiting" /\ op \in Outgoing))
  BY <1>4 DEF NextAttempts
<1> QED BY <1>2, <1>3, <1>4

LEMMA TypeAttempts ==
  ASSUME TypeOK, NEW op \in Ops, AttemptNext(op) \/ FinishFails(op)
  PROVE  TypeOK'
<1>1. CASE Read(op)
  <2>1. row' \in [Ops -> Rows]
    <3>1. PICK phase \in {row[op].phase, "done"} :
             row' = [row EXCEPT ![op].phase = phase, ![op].news = FALSE]
      BY <1>1 DEF Read
    <3>2. phase \in {"unready", "open", "done"}
      BY <3>1, Shape
    <3> QED BY <3>1, <3>2, RowUpdates
  <2>2. attempt' \in [Ops -> {"none", "started", "waiting", "failed", "ended"}]
    BY <1>1 DEF Read, TypeOK
  <2> QED BY <1>1, <2>1, <2>2 DEF Read, TypeOK
<1>2. CASE Abandoned(op)
  BY <1>2 DEF Abandoned, TypeOK
<1>3. CASE Finish(op)
  <2>1. row' \in [Ops -> Rows]
    <3>1. PICK next \in NextAttempts(op) :
             row' = IF row[op].phase = "done" THEN row ELSE [row EXCEPT ![op].next = next]
      BY <1>3 DEF Finish
    <3>2. [row EXCEPT ![op].next = next] \in [Ops -> Rows] /\ row \in [Ops -> Rows]
      BY NextTimes, RowUpdates DEF TypeOK
    <3> QED BY <3>1, <3>2
  <2>2. tails' \in 0 .. MaxTails
    BY <1>3, BoundsAssumption DEF Finish, TypeOK
  <2>3. /\ active' \in [Ops -> {"no", "running", "woken"}]
        /\ attempt' \in [Ops -> {"none", "started", "waiting", "failed", "ended"}]
    BY <1>3 DEF Finish, TypeOK
  <2> QED BY <1>3, <2>1, <2>2, <2>3 DEF Finish, TypeOK
<1>4. CASE FinishFails(op)
  <2>1. retryAfter' \in 0 .. Max(Delays)
    BY <1>4, LongestDelay DEF FinishFails
  <2>2. tails' \in 0 .. MaxTails
    BY <1>4, BoundsAssumption DEF FinishFails, TypeOK
  <2>3. /\ active' \in [Ops -> {"no", "running", "woken"}]
        /\ attempt' \in [Ops -> {"none", "started", "waiting", "failed", "ended"}]
    BY <1>4 DEF FinishFails, TypeOK
  <2> QED BY <1>4, <2>1, <2>2, <2>3 DEF FinishFails, TypeOK
<1> QED BY <1>1, <1>2, <1>3, <1>4 DEF AttemptNext

LEMMA TypeLife ==
  ASSUME TypeOK, Cancel \/ Join \/ Crash \/ Start \/ Tick
  PROVE  TypeOK'
<1>1. CASE Cancel \/ Join
  BY <1>1 DEF Cancel, Join, TypeOK, memory
<1>2. CASE Crash
  <2>1. loop' \in Loops
    BY <1>2, Literals DEF Crash
  <2>2. tails' \in 0 .. MaxTails /\ callers' \in Nat /\ retryAfter' \in 0 .. Max(Delays)
    BY <1>2, LongestDelay, BoundsAssumption DEF Crash
  <2>3. /\ active' \in [Ops -> {"no", "running", "woken"}]
        /\ attempt' \in [Ops -> {"none", "started", "waiting", "failed", "ended"}]
    BY <1>2 DEF Crash
  <2> QED BY <1>2, <2>1, <2>2, <2>3 DEF Crash, TypeOK
<1>3. CASE Start
  <2>1. row' \in [Ops -> Rows]
    BY <1>3, RowUpdates DEF Start
  <2>2. loop' \in Loops
    BY <1>3, Literals DEF Start
  <2> QED BY <1>3, <2>1, <2>2 DEF Start, TypeOK
<1>4. CASE Tick
  <2>1. \A op \in Ops : [row[op] EXCEPT !.next = Aged(op)] \in Rows
    BY Ageing, RowUpdates
  <2>2. row' \in [Ops -> Rows]
    BY <1>4, <2>1 DEF Tick
  <2>3. retryAfter' \in 0 .. Max(Delays)
    BY <1>4, Closing, LongestDelay DEF Tick, TypeOK
  <2>4. loop' \in Loops
    <3>1. Closer(loop.timer) \in 0 .. Max(Delays) + 1
      BY Closing DEF TypeOK, Loops
    <3> QED BY <1>4, <3>1 DEF Tick, TypeOK, Loops
  <2> QED BY <1>4, <2>2, <2>3, <2>4 DEF Tick, TypeOK
<1> QED BY <1>1, <1>2, <1>3, <1>4

LEMMA TypeStep ==
  ASSUME TypeOK, Cardinality(Running) <= Workers, [Next]_vars
  PROVE  TypeOK'
<1>1. CASE UNCHANGED vars
  BY <1>1 DEF TypeOK, vars, memory
<1>2. CASE Next
  BY <1>2, TypeCallers, TypeLoop, TypeAttempts, TypeLife DEF Next, CalmNext, FaultNext
<1> QED BY <1>1, <1>2

-----------------------------------------------------------------------------
(* The callers and the signals.                                            *)

LEMMA ChangeKeeps ==
  ASSUME IInv, NEW op \in Ops, Change(op)
  PROVE  Safe' /\ NeverSleepsOverWork'
<1> USE DEF IInv
<1>1. \A o \in Ops : row'[o].next = row[o].next /\ (o # op => row'[o] = row[o])
  BY DEF Change, TypeOK, Rows
<1>2. /\ UNCHANGED <<unrecorded, life, active, attempt, tails, callers, wake, loop>>
      /\ unwoken' = unwoken \union {op}
  BY DEF Change, memory
<1>3. RunningWasDue'
  BY <1>1, <1>2 DEF RunningWasDue, Safe
<1>4. MissedIsTagged'
  BY <1>1, <1>2 DEF MissedIsTagged, Safe
<1>5. Counted' /\ Over'
  BY <1>2 DEF Counted, Over, Running, Safe
<1>6. NothingForgotten'
  BY <1>1, <1>2 DEF NothingForgotten, Safe
<1>7. NeverSleepsOverWork'
  <2> SUFFICES ASSUME loop.pc = "wait", ~wake, tails = 0, callers = 0, life = "up",
                      NEW o \in (Offered \ Running)', row'[o].next # Parked
               PROVE  \/ Cardinality(Running') = Workers
                      \/ o \in unwoken'
                      \/ /\ loop.timer # NoTimer
                         /\ loop.paused \/ loop.timer <= 0 \/ loop.timer <= row'[o].next
    BY <1>2 DEF NeverSleepsOverWork
  <2>1. Running' = Running
    BY <1>2 DEF Running
  <2>2. CASE o = op
    BY <1>2, <2>2
  <2>3. CASE o # op
    <3>1. o \in Offered \ Running
      BY <1>1, <2>1, <2>3 DEF Offered
    <3> QED BY <1>1, <1>2, <2>1, <3>1 DEF NeverSleepsOverWork, Offered
  <2> QED BY <2>2, <2>3
<1> QED BY <1>3, <1>4, <1>5, <1>6, <1>7 DEF Safe

LEMMA Tags ==
  ASSUME TypeOK, NEW op \in Ops
  PROVE  \A o \in Ops : /\ Tagged(op)[o] = IF o = op /\ active[o] = "running" THEN "woken" ELSE active[o]
                        /\ active[op] # "no" => Tagged(op)[op] = "woken"
                        /\ Tagged(op)[o] = "no" <=> active[o] = "no"
  BY DEF Tagged, TypeOK

LEMMA WakeKeeps ==
  ASSUME IInv, NEW op \in Ops, Wake(op)
  PROVE  Safe' /\ NeverSleepsOverWork'
<1> USE DEF IInv
<1>1. CASE life # "up"
  <2>1. UNCHANGED <<row, active, callers, unrecorded, life, attempt, tails, wake, loop>>
    BY <1>1 DEF Wake
  <2> QED BY <1>1, <2>1 DEF Safe, RunningWasDue, MissedIsTagged, Counted, Over, Running,
                            NothingForgotten, NeverSleepsOverWork
<1>2. CASE life = "up"
  <2>1. /\ row' = IF row[op].phase = "done" THEN row ELSE [row EXCEPT ![op].next = Woken]
        /\ active' = Tagged(op) /\ unwoken' = unwoken \ {op} /\ callers' = callers + 1
        /\ UNCHANGED <<unrecorded, life, attempt, tails, loop>>
    BY <1>2 DEF Wake
  <2>2. \A o \in Ops : /\ row'[o].phase = row[o].phase /\ row'[o].news = row[o].news
                       /\ row'[o].next \in {row[o].next, Woken}
                       /\ o # op => row'[o].next = row[o].next
    BY <2>1 DEF TypeOK, Rows
  <2>3. row'[op].phase # "done" => row'[op].next = Woken
    BY <2>1 DEF TypeOK, Rows
  <2>4. /\ \A o \in Ops : (active'[o] = "no" <=> active[o] = "no")
                          /\ (active[o] = "woken" => active'[o] = "woken")
        /\ active[op] # "no" => active'[op] = "woken"
    BY <2>1, Tags
  <2>5. RunningWasDue'
    BY <2>2, <2>4, Numbers DEF RunningWasDue, Safe
  <2>6. MissedIsTagged'
    BY <1>2, <2>1, <2>2, <2>4 DEF MissedIsTagged, Counted, Safe
  <2>7. Running' = Running
    BY <2>4 DEF Running
  <2>8. Counted' /\ Over'
    BY <1>2, <2>1, <2>4, <2>7 DEF Counted, Over, Safe
  <2>9. NothingForgotten'
    BY <2>1, <2>2, <2>3, <2>4, Numbers DEF NothingForgotten, Safe
  <2>10. NeverSleepsOverWork'
    <3>1. callers' # 0
      BY <2>1, Shape
    <3> QED BY <3>1 DEF NeverSleepsOverWork
  <2> QED BY <2>5, <2>6, <2>8, <2>9, <2>10 DEF Safe
<1> QED BY <1>1, <1>2

LEMMA WakeFailsKeeps ==
  ASSUME IInv, NEW op \in Ops, WakeFails(op)
  PROVE  Safe' /\ NeverSleepsOverWork'
<1> USE DEF IInv
<1>1. /\ active' = Tagged(op) /\ callers' = callers + 1 /\ life = "up"
      /\ unwoken' = unwoken \ {op} /\ unrecorded' = unrecorded \union {op}
      /\ UNCHANGED <<row, life, attempt, tails, loop>>
  BY DEF WakeFails
<1>2. \A o \in Ops : /\ active'[o] = "no" <=> active[o] = "no"
                     /\ active[o] = "woken" => active'[o] = "woken"
  BY <1>1, Tags
<1>3. Running' = Running
  BY <1>2 DEF Running
<1>4. RunningWasDue' /\ MissedIsTagged' /\ NothingForgotten'
  BY <1>1, <1>2 DEF RunningWasDue, MissedIsTagged, NothingForgotten, Safe
<1>5. Counted' /\ Over'
  BY <1>1, <1>2, <1>3 DEF Counted, Over, Safe
<1>6. callers' # 0
  BY <1>1, Shape
<1> QED BY <1>4, <1>5, <1>6 DEF Safe, NeverSleepsOverWork

LEMMA SignalsKeep ==
  ASSUME IInv, CallerSignals \/ WorkerSignals
  PROVE  Safe' /\ NeverSleepsOverWork'
<1>1. /\ wake' = TRUE /\ tails' \in {tails, tails - 1} /\ (tails' = tails \/ tails > 0)
      /\ UNCHANGED <<row, unwoken, unrecorded, life, active, attempt, loop>>
  BY DEF CallerSignals, WorkerSignals
<1>2. Running' = Running
  BY <1>1 DEF Running
<1>3. RunningWasDue' /\ MissedIsTagged' /\ NothingForgotten' /\ Counted'
  BY <1>1, <1>2 DEF IInv, Safe, RunningWasDue, MissedIsTagged, NothingForgotten, Counted
<1>4. Over'
  BY <1>1 DEF IInv, Safe, Over
<1> QED BY <1>1, <1>3, <1>4 DEF Safe, NeverSleepsOverWork

-----------------------------------------------------------------------------
(* The loop.                                                               *)

LEMMA DispatchKeeps ==
  ASSUME IInv, Dispatch
  PROVE  Safe' /\ NeverSleepsOverWork'
<1> USE DEF IInv
<1>1. /\ UNCHANGED <<row, unwoken, unrecorded, life, tails, callers, wake, retryAfter>>
      /\ loop.pc = "dispatch"
  BY DEF Dispatch
<1>2. life \notin {"joined", "down"}
  BY <1>1 DEF Safe, Over
<1>3. CASE retryAfter > 0
  <2>1. UNCHANGED <<active, attempt>> /\ loop' = Waiting(retryAfter, TRUE)
    BY <1>3 DEF Dispatch
  <2>2. Running' = Running
    BY <2>1 DEF Running
  <2>3. RunningWasDue' /\ MissedIsTagged' /\ NothingForgotten' /\ Counted' /\ Over'
    BY <1>1, <1>2, <2>1, <2>2
      DEF Safe, RunningWasDue, MissedIsTagged, NothingForgotten, Counted, Over
  <2>4. loop'.timer # NoTimer /\ loop'.paused
    <3>1. retryAfter \in 0 .. Max(Delays) + 1 /\ retryAfter # NoTimer
      BY Shape, Numbers, LongestDelay
    <3> QED BY <2>1, <3>1, Literals
  <2> QED BY <2>3, <2>4 DEF Safe, NeverSleepsOverWork
<1>4. CASE ~(retryAfter > 0)
  <2>1. /\ loop' = Waiting(NextTimer, FALSE)
        /\ active' = [op \in Ops |-> IF op \in Starting THEN "running" ELSE active[op]]
        /\ attempt' = [op \in Ops |-> IF op \in Starting THEN "started" ELSE attempt[op]]
    BY <1>4 DEF Dispatch
  <2>2. Cardinality(Running) <= Workers
    BY DEF Safe, Counted
  <2>3. /\ Starting \subseteq Offered \ Running
        /\ \A op \in Starting : row[op].next <= 0
        /\ Cardinality(Running \union Starting) <= Workers
        /\ \A op \in Offered \ (Running \union Starting) :
              row[op].next <= 0 => Cardinality(Running \union Starting) = Workers
    BY <2>2, Starts
  <2>4. Running' = Running \union Starting /\ Offered' = Offered
    BY <1>1, <2>1, <2>3 DEF Running, Offered
  <2>5. RunningWasDue'
    BY <1>1, <2>1, <2>3 DEF RunningWasDue, Safe
  <2>6. MissedIsTagged'
    BY <1>1, <2>1, <2>3 DEF MissedIsTagged, Safe, Running
  <2>7. Counted' /\ Over'
    BY <1>1, <1>2, <2>1, <2>3, <2>4 DEF Counted, Over, Safe
  <2>8. NothingForgotten'
    BY <1>1, <2>1, <2>3 DEF NothingForgotten, Running, Safe
  <2>9. NeverSleepsOverWork'
    <3>1. /\ NextTimer \in 0 .. Max(Delays) + 1
          /\ \A op \in Offered \ Running :
                row[op].next > 0 /\ row[op].next # Parked /\ Cardinality(Running \union Starting) # Workers
                => NextTimer # NoTimer /\ NextTimer <= row[op].next
      BY Timers
    <3>2. loop'.timer = NextTimer
      BY <2>1, <3>1, Literals
    <3>3. ASSUME NEW op \in (Offered \ Running)', row'[op].next # Parked
          PROVE  \/ Cardinality(Running') = Workers
                 \/ loop'.timer # NoTimer /\ loop'.timer <= row'[op].next
      <4>1. op \in Offered \ (Running \union Starting) /\ op \in Ops
        BY <2>4 DEF Offered
      <4>2. row[op].next <= 0 \/ row[op].next > 0
        BY <4>1, Shape
      <4> QED BY <1>1, <2>3, <2>4, <3>1, <3>2, <3>3, <4>1, <4>2
    <3> QED BY <3>3 DEF NeverSleepsOverWork
  <2> QED BY <2>5, <2>6, <2>7, <2>8, <2>9 DEF Safe
<1> QED BY <1>3, <1>4

LEMMA LoopKeeps ==
  ASSUME IInv, DispatchFails \/ Resume \/ LoopExits
  PROVE  Safe' /\ NeverSleepsOverWork'
<1> USE DEF IInv
<1>1. /\ UNCHANGED <<row, unwoken, unrecorded, life, active, attempt, tails, callers>>
      /\ loop.pc # "exited"
  BY DEF DispatchFails, Resume, LoopExits
<1>2. Running' = Running
  BY <1>1 DEF Running
<1>3. RunningWasDue' /\ MissedIsTagged' /\ NothingForgotten' /\ Counted' /\ Over'
  BY <1>1, <1>2 DEF Safe, RunningWasDue, MissedIsTagged, NothingForgotten, Counted, Over
<1>4. CASE DispatchFails
  <2>1. PICK d \in Delays : loop' = Waiting(d, TRUE)
    BY <1>4 DEF DispatchFails
  <2>2. d \in 0 .. Max(Delays) + 1 /\ d # NoTimer
    BY LongestDelay, Numbers
  <2>3. loop'.timer # NoTimer /\ loop'.paused
    BY <2>1, <2>2, Literals
  <2> QED BY <1>3, <2>3 DEF Safe, NeverSleepsOverWork
<1>5. CASE Resume \/ LoopExits
  <2>1. loop'.pc # "wait"
    BY <1>5, Literals DEF Resume, LoopExits
  <2> QED BY <1>3, <2>1 DEF Safe, NeverSleepsOverWork
<1> QED BY <1>4, <1>5

-----------------------------------------------------------------------------
(* The attempts.                                                           *)

LEMMA ReadKeeps ==
  ASSUME IInv, NEW op \in Ops, Read(op)
  PROVE  Safe' /\ NeverSleepsOverWork'
<1> USE DEF IInv
<1>1. /\ UNCHANGED <<unwoken, life, active, tails, callers, wake, loop>>
      /\ unrecorded' = unrecorded \ {op} /\ attempt[op] = "started"
  BY DEF Read
<1>2. \A o \in Ops : o # op => row'[o] = row[o] /\ attempt'[o] = attempt[o]
  BY DEF Read, TypeOK
<1>3. row'[op].next = row[op].next /\ ~row'[op].news /\ attempt'[op] # "none"
  BY DEF Read, TypeOK, Rows
<1>4. row'[op].phase \in {row[op].phase, "done"}
  BY DEF Read, TypeOK, Rows
<1>5. Running' = Running
  BY <1>1 DEF Running
<1>6. RunningWasDue'
  BY <1>1, <1>2, <1>3 DEF RunningWasDue, Safe
<1>7. MissedIsTagged' /\ NothingForgotten'
  BY <1>1, <1>2, <1>3 DEF MissedIsTagged, NothingForgotten, Safe
<1>8. Counted' /\ Over'
  BY <1>1, <1>2, <1>3, <1>5 DEF Counted, Over, Safe
<1>9. NeverSleepsOverWork'
  <2>1. \A o \in Ops : row'[o].next = row[o].next /\ (row'[o].phase = "open" => row[o].phase = "open")
    BY <1>2, <1>3, <1>4
  <2> QED BY <1>1, <1>5, <2>1 DEF NeverSleepsOverWork, Offered
<1> QED BY <1>6, <1>7, <1>8, <1>9 DEF Safe

LEMMA AbandonedKeeps ==
  ASSUME IInv, NEW op \in Ops, Abandoned(op)
  PROVE  Safe' /\ NeverSleepsOverWork'
<1> USE DEF IInv
<1>1. /\ UNCHANGED <<row, unwoken, unrecorded, life, active, tails, callers, wake, loop>>
      /\ life = "closing"
  BY DEF Abandoned
<1>2. \A o \in Ops : attempt'[o] = IF o = op THEN "none" ELSE attempt[o]
  BY DEF Abandoned, TypeOK
<1>3. Running' = Running
  BY <1>1 DEF Running
<1> QED BY <1>1, <1>2, <1>3 DEF Safe, RunningWasDue, MissedIsTagged, NothingForgotten, Counted,
                                Over, NeverSleepsOverWork

\* The attempt leaves the lock, with its result written or not.
LEMMA FinishKeeps ==
  ASSUME IInv, NEW op \in Ops, Finish(op) \/ FinishFails(op)
  PROVE  Safe' /\ NeverSleepsOverWork'
<1> USE DEF IInv
<1>1. /\ UNCHANGED <<unwoken, unrecorded, life, callers, wake, loop>>
      /\ attempt[op] \in {"waiting", "failed", "ended"} /\ tails' = tails + 1
      /\ active' = [active EXCEPT ![op] = "no"] /\ attempt' = [attempt EXCEPT ![op] = "none"]
  BY DEF Finish, FinishFails
<1>2. \A o \in Ops : /\ active'[o] = IF o = op THEN "no" ELSE active[o]
                     /\ attempt'[o] = IF o = op THEN "none" ELSE attempt[o]
  BY <1>1 DEF TypeOK
<1>3. \A o \in Ops : /\ o # op => row'[o] = row[o]
                     /\ row'[o].phase = row[o].phase /\ row'[o].news = row[o].news
  BY DEF Finish, FinishFails, TypeOK, Rows
<1>4. RunningWasDue'
  BY <1>2, <1>3 DEF RunningWasDue, Safe
<1>5. MissedIsTagged'
  BY <1>1, <1>2, <1>3 DEF MissedIsTagged, Safe
<1>6. Running' \in SUBSET Running /\ Running \in SUBSET Ops
  BY <1>2 DEF Running
<1>7. Counted'
  <2>1. IsFiniteSet(Running) /\ Cardinality(Running) \in Nat /\ Cardinality(Running') \in Nat
    BY <1>6, Sets
  <2>2. Cardinality(Running') <= Cardinality(Running)
    BY <1>6, <2>1, FS_Subset
  <2>3. Cardinality(Running') <= Workers
    BY <2>1, <2>2, WorkersAssumption DEF Counted, Safe
  <2> QED BY <1>1, <1>2, <2>3 DEF Counted, Safe
<1>8. Over'
  BY <1>1 DEF Over, Safe
<1>9. NothingForgotten'
  <2>1. ASSUME row[op].news, row[op].phase = "open", life = "up", op \notin unwoken \union unrecorded
        PROVE  row'[op].next <= 0
    <3>1. active[op] = "woken"
      BY <1>1, <2>1 DEF MissedIsTagged, Safe
    <3>2. CASE Finish(op)
      <4>1. PICK next \in NextAttempts(op) :
               row' = IF row[op].phase = "done" THEN row ELSE [row EXCEPT ![op].next = next]
        BY <3>2 DEF Finish
      <4>2. next = Woken
        BY <3>1, NextTimes
      <4>3. row'[op].next = Woken
        BY <2>1, <4>1, <4>2 DEF TypeOK, Rows
      <4> QED BY <4>3, Numbers
    <3>3. CASE FinishFails(op)
      BY <3>1, <3>3 DEF FinishFails, RunningWasDue, Safe
    <3> QED BY <3>2, <3>3
  <2> QED BY <1>1, <1>2, <1>3, <2>1 DEF NothingForgotten, Safe
<1>10. NeverSleepsOverWork'
  <2>1. tails' # 0
    BY <1>1, Shape
  <2> QED BY <2>1 DEF NeverSleepsOverWork
<1> QED BY <1>4, <1>5, <1>7, <1>8, <1>9, <1>10 DEF Safe

-----------------------------------------------------------------------------
(* Life, crashes and time.                                                 *)

LEMMA EndsKeep ==
  ASSUME IInv, Cancel \/ Join
  PROVE  Safe' /\ NeverSleepsOverWork'
<1> USE DEF IInv
<1>1. UNCHANGED <<row, unwoken, unrecorded, active, attempt, tails, callers, wake, loop>>
  BY DEF Cancel, Join, memory
<1>2. /\ life' \in {"closing", "joined"} /\ life # "down"
      /\ life' = "joined" => loop.pc = "exited" /\ tails = 0 /\ \A op \in Ops : attempt[op] = "none"
  BY DEF Cancel, Join
<1>3. Running' = Running
  BY <1>1 DEF Running
<1> QED BY <1>1, <1>2, <1>3 DEF Safe, RunningWasDue, MissedIsTagged, NothingForgotten, Counted,
                                Over, NeverSleepsOverWork

LEMMA CrashKeeps ==
  ASSUME IInv, Crash
  PROVE  Safe' /\ NeverSleepsOverWork'
<1>1. /\ life' = "down" /\ tails' = 0 /\ loop'.pc = "exited"
      /\ \A op \in Ops : active'[op] = "no" /\ attempt'[op] = "none"
  BY Literals DEF Crash
<1>2. Running' = {}
  BY <1>1 DEF Running
<1>3. Cardinality(Running') <= Workers
  BY <1>2, FS_EmptySet, WorkersAssumption
<1> QED BY <1>1, <1>3 DEF Safe, RunningWasDue, MissedIsTagged, NothingForgotten, Counted, Over,
                          NeverSleepsOverWork

LEMMA StartKeeps ==
  ASSUME IInv, Start
  PROVE  Safe' /\ NeverSleepsOverWork'
<1> USE DEF IInv
<1>1. /\ life = "down" /\ life' = "up" /\ loop'.pc = "dispatch"
      /\ UNCHANGED <<unwoken, unrecorded, active, attempt, tails>>
  BY Literals DEF Start
<1>2. \A op \in Ops : active[op] = "no" /\ attempt[op] = "none"
  BY <1>1 DEF Over, Safe
<1>3. \A op \in Ops : row'[op].phase # "done" => row'[op].next = Woken
  BY DEF Start, TypeOK, Rows
<1>4. Running' = Running
  BY <1>1 DEF Running
<1>5. NothingForgotten'
  BY <1>3, Numbers DEF NothingForgotten
<1>6. Counted' /\ Over'
  BY <1>1, <1>2, <1>4 DEF Counted, Over, Safe
<1>7. RunningWasDue' /\ MissedIsTagged'
  BY <1>1, <1>2 DEF RunningWasDue, MissedIsTagged
<1> QED BY <1>1, <1>5, <1>6, <1>7 DEF Safe, NeverSleepsOverWork

LEMMA TickKeeps ==
  ASSUME IInv, Tick
  PROVE  Safe' /\ NeverSleepsOverWork'
<1> USE DEF IInv
<1>1. UNCHANGED <<unwoken, unrecorded, life, active, attempt, tails, callers, wake>>
  BY DEF Tick
<1>2. \A op \in Ops : /\ row'[op].phase = row[op].phase /\ row'[op].news = row[op].news
                      /\ row'[op].next = Aged(op)
  BY DEF Tick, TypeOK, Rows
<1>3. /\ loop'.pc = loop.pc /\ loop'.paused = loop.paused
      /\ loop'.timer = Closer(loop.timer)
  BY DEF Tick, TypeOK, Loops
<1>4. \A op \in Ops : row[op].next <= 0 => row'[op].next <= 0
  BY <1>2, Ageing
<1>5. Running' = Running /\ Offered' = Offered
  BY <1>1, <1>2 DEF Running, Offered
<1>6. RunningWasDue' /\ NothingForgotten'
  BY <1>1, <1>2, <1>4 DEF RunningWasDue, NothingForgotten, Safe
<1>7. MissedIsTagged'
  BY <1>1, <1>2 DEF MissedIsTagged, Safe
<1>8. Counted' /\ Over'
  BY <1>1, <1>3, <1>5 DEF Counted, Over, Safe
<1>9. NeverSleepsOverWork'
  <2> SUFFICES ASSUME loop.pc = "wait", ~wake, tails = 0, callers = 0, life = "up",
                      NEW op \in Offered \ Running, Aged(op) # Parked,
                      Cardinality(Running) # Workers, op \notin unwoken
               PROVE  /\ Closer(loop.timer) # NoTimer
                      /\ loop.paused \/ Closer(loop.timer) <= 0 \/ Closer(loop.timer) <= Aged(op)
    BY <1>1, <1>2, <1>3, <1>5 DEF NeverSleepsOverWork, Offered
  <2>1. op \in Ops /\ row[op].next # Parked
    BY Ageing DEF Offered
  <2>2. loop.timer # NoTimer /\ (loop.paused \/ loop.timer <= 0 \/ loop.timer <= row[op].next)
    BY <2>1 DEF NeverSleepsOverWork
  <2>3. loop.timer \in 0 .. Max(Delays) + 1 /\ loop.timer \in Nat /\ row[op].next \in Int
    BY <2>1, Shape DEF TypeOK, Loops
  <2>4. Closer(loop.timer) # NoTimer
    BY <2>2, <2>3, Closing, Numbers
  <2>5. CASE loop.timer <= 1
    <3>1. Closer(loop.timer) <= 0
      BY <2>2, <2>3, <2>5, Closing, Numbers
    <3> QED BY <2>4, <3>1
  <2>6. CASE loop.timer > 1 /\ loop.timer <= row[op].next
    <3>1. Closer(loop.timer) = loop.timer - 1
      BY <2>2, <2>3, <2>6, Closing, Numbers
    <3>2. Aged(op) = row[op].next - 1
      BY <2>1, <2>3, <2>6, Ageing
    <3> QED BY <2>3, <2>4, <2>6, <3>1, <3>2
  <2> QED BY <2>2, <2>3, <2>4, <2>5, <2>6
<1> QED BY <1>6, <1>7, <1>8, <1>9 DEF Safe

-----------------------------------------------------------------------------
(* The theorems.                                                           *)

LEMMA Initial == Init => IInv
<1> SUFFICES ASSUME Init
             PROVE  IInv
  OBVIOUS
<1>1. TypeOK
  BY TypeInit
<1>2. /\ life = "up" /\ loop.pc = "dispatch"
      /\ \A op \in Ops : /\ row[op].phase = "unready" /\ row[op].next = Woken
                         /\ active[op] = "no" /\ attempt[op] = "none"
  BY Literals DEF Init, Nobody
<1>3. Running = {}
  BY <1>2 DEF Running
<1>4. Cardinality(Running) <= Workers
  BY <1>3, FS_EmptySet, WorkersAssumption
<1> QED BY <1>1, <1>2, <1>4 DEF IInv, Safe, RunningWasDue, MissedIsTagged, NothingForgotten,
                                Counted, Over, NeverSleepsOverWork

LEMMA Step ==
  ASSUME IInv, [Next]_vars
  PROVE  IInv'
<1>1. TypeOK'
  BY TypeStep DEF IInv, Safe, Counted
<1>2. CASE UNCHANGED vars
  <2>1. UNCHANGED <<row, unwoken, unrecorded, life, active, attempt, tails, callers, wake, loop>>
    BY <1>2 DEF vars, memory
  <2>2. Running' = Running /\ Offered' = Offered
    BY <2>1 DEF Running, Offered
  <2> QED BY <1>1, <2>1, <2>2 DEF IInv, Safe, RunningWasDue, MissedIsTagged, NothingForgotten,
                                  Counted, Over, NeverSleepsOverWork
<1>3. CASE Next
  <2>1. Safe' /\ NeverSleepsOverWork'
    BY <1>3, ChangeKeeps, WakeKeeps, WakeFailsKeeps, SignalsKeep, DispatchKeeps, LoopKeeps,
       ReadKeeps, AbandonedKeeps, FinishKeeps, EndsKeep, CrashKeeps, StartKeeps, TickKeeps
      DEF Next, CalmNext, FaultNext, LoopNext, AttemptNext
  <2> QED BY <1>1, <2>1 DEF IInv
<1> QED BY <1>2, <1>3

\* The invariant is inductive: it holds at the start and every step keeps it.
THEOREM Inductive == Spec => []IInv
  BY Initial, Step, PTL DEF Spec

\* Every value the scheduler reaches has its type: in particular the tags, the
\* timer and the times in the journal stay in their ranges.
THEOREM TypeCorrect == Spec => []TypeOK
<1>1. IInv => TypeOK
  BY DEF IInv
<1> QED BY <1>1, Inductive, PTL

\* A change no attempt has read is never forgotten, with any number of operations
\* and workers, and whichever writes of the journal fail.
THEOREM NothingIsForgotten == Spec => []NothingForgotten
<1>1. IInv => NothingForgotten
  BY DEF IInv, Safe
<1> QED BY <1>1, Inductive, PTL

\* The loop never sleeps past the time of an idle row it could start.
THEOREM NeverOversleeps == Spec => []NeverSleepsOverWork
<1>1. IInv => NeverSleepsOverWork
  BY DEF IInv
<1> QED BY <1>1, Inductive, PTL

\* The attempts that run are those the lock counts, no more than the workers allow,
\* and a Close that has returned leaves none.
THEOREM CountIsTrue == Spec => []AttemptsAreCounted
<1>1. IInv => AttemptsAreCounted
  <2> SUFFICES ASSUME IInv
               PROVE  AttemptsAreCounted
    OBVIOUS
  <2> DEFINE going == {op \in Ops : attempt[op] # "none"}
  <2>1. going \in SUBSET Running /\ Running \in SUBSET Ops /\ going \in SUBSET Ops
    BY DEF IInv, Safe, Counted, Running
  <2>2. IsFiniteSet(Running) /\ Cardinality(Running) \in Nat /\ Cardinality(going) \in Nat
    BY <2>1, Sets
  <2>3. Cardinality(going) <= Cardinality(Running)
    BY <2>1, <2>2, FS_Subset
  <2>4. Cardinality(Running) <= Workers
    BY DEF IInv, Safe, Counted
  <2>5. Cardinality(going) <= Workers
    BY <2>2, <2>3, <2>4, WorkersAssumption
  <2> QED BY <2>5 DEF IInv, Safe, Counted, Over, AttemptsAreCounted
<1> QED BY <1>1, Inductive, PTL

=============================================================================
