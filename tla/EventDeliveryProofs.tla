-------------------------- MODULE EventDeliveryProofs --------------------------
(***************************************************************************)
(* Proofs about EventDelivery for any channels, caps and bounds: its       *)
(* types, and its safety properties.  The inductive invariant has five     *)
(* parts: the shape of a connection (Shape), the numbers that bound what   *)
(* is under way (Bounds), what was dispatched (Dispatching), the order of  *)
(* what is under way (Order), and where every frame above and below the    *)
(* cursors has gone (Delivery).                                            *)
(***************************************************************************)
EXTENDS EventDelivery, FiniteSetTheorems, SequenceTheorems, TLAPS

\* How many elements of S come before x, if R is the set of ordered pairs.
Rank(S, R, x) == Cardinality({b \in S : <<b, x>> \in R})

\* In a finite set with a strict total order, the elements are numbered from 0 by
\* how many come before them.
LEMMA Ranked ==
  ASSUME NEW S, IsFiniteSet(S), NEW R,
         \A x \in S : <<x, x>> \notin R,
         \A x, y \in S : x # y => <<x, y>> \in R \/ <<y, x>> \in R,
         \A x, y, z \in S : <<x, y>> \in R /\ <<y, z>> \in R => <<x, z>> \in R
  PROVE  /\ Cardinality(S) \in Nat
         /\ \A x \in S : Rank(S, R, x) \in 0 .. Cardinality(S) - 1
         /\ \A x, y \in S : <<x, y>> \in R => Rank(S, R, x) < Rank(S, R, y)
         /\ \A n \in 0 .. Cardinality(S) - 1 : \E x \in S : Rank(S, R, x) = n
<1> DEFINE Ahead(x) == {b \in S : <<b, x>> \in R}
           rank == [x \in S |-> Cardinality(Ahead(x))]
           n == Cardinality(S)
<1>1. n \in Nat
  BY FS_CardinalityType
<1>2. ASSUME NEW x \in S
      PROVE  IsFiniteSet(Ahead(x)) /\ Cardinality(Ahead(x)) \in 0 .. n - 1
  <2>1. Ahead(x) \in SUBSET (S \ {x})
    <3>1. <<x, x>> \notin R
      BY <1>2
    <3> QED BY <3>1
  <2>2. IsFiniteSet(S \ {x}) /\ Cardinality(S \ {x}) = n - 1
    BY <1>1, FS_RemoveElement
  <2>3. IsFiniteSet(Ahead(x)) /\ Cardinality(Ahead(x)) <= n - 1
    <3> HIDE DEF Ahead
    <3> QED BY <2>1, <2>2, FS_Subset
  <2>4. Cardinality(Ahead(x)) \in Nat
    BY <2>3, FS_CardinalityType
  <2> QED BY <1>1, <2>3, <2>4
<1>3. ASSUME NEW x \in S, NEW y \in S, <<x, y>> \in R
      PROVE  Cardinality(Ahead(x)) < Cardinality(Ahead(y))
  <2>1. x \notin Ahead(x) /\ x \in Ahead(y)
    BY <1>3
  <2>2. Ahead(x) \in SUBSET Ahead(y)
    BY <1>3
  <2>3. /\ Cardinality(Ahead(x)) <= Cardinality(Ahead(y))
        /\ Cardinality(Ahead(x)) = Cardinality(Ahead(y)) => Ahead(x) = Ahead(y)
    <3> HIDE DEF Ahead
    <3> QED BY <1>2, <2>2, FS_Subset
  <2>4. Ahead(x) # Ahead(y)
    BY <2>1
  <2> HIDE DEF Ahead
  <2> QED BY <1>1, <1>2, <2>3, <2>4
<1>4. ASSUME NEW x \in S, NEW y \in S, rank[x] = rank[y], x # y
      PROVE  FALSE
  <2> HIDE DEF Ahead
  <2>1. /\ Cardinality(Ahead(x)) \in Nat /\ Cardinality(Ahead(y)) \in Nat
        /\ Cardinality(Ahead(x)) = Cardinality(Ahead(y))
    BY <1>1, <1>2, <1>4
  <2>2. <<x, y>> \in R \/ <<y, x>> \in R
    BY <1>4
  <2> QED BY <1>3, <2>1, <2>2
<1>5. rank \in Injection(S, 0 .. n - 1)
  <2>1. rank \in [S -> 0 .. n - 1]
    BY <1>2
  <2>2. \A x, y \in S : rank[x] = rank[y] => x = y
    BY <1>4
  <2> QED BY <2>1, <2>2 DEF Injection, IsInjective
<1>6. IsFiniteSet(0 .. n - 1) /\ Cardinality(0 .. n - 1) = n
  <2> HIDE DEF n
  <2>1. n \in Nat /\ n - 1 \in Int /\ 0 \in Int
    BY <1>1
  <2>2. /\ IsFiniteSet(0 .. n - 1)
        /\ Cardinality(0 .. n - 1) = IF 0 > n - 1 THEN 0 ELSE n - 1 - 0 + 1
    BY <2>1, FS_Interval
  <2> QED BY <2>1, <2>2
<1>7. rank \in Surjection(S, 0 .. n - 1)
  BY <1>5, <1>6, FS_Injection
<1>8. \A m \in 0 .. n - 1 : \E x \in S : Cardinality(Ahead(x)) = m
  BY <1>7 DEF Surjection
<1> QED BY <1>1, <1>2, <1>3, <1>8 DEF Rank

\* Some number of a set of numbers up to n is its least.
LEMMA Least ==
  ASSUME NEW n \in Nat, NEW S \in SUBSET (0 .. n), S # {}
  PROVE  \E x \in S : \A y \in S : x <= y
<1> DEFINE R == {p \in S \X S : p[1] < p[2]}
<1>1. IsFiniteSet(0 .. n)
  BY FS_Interval
<1>2. IsFiniteSet(S)
  BY <1>1, FS_Subset
<1>3. Cardinality(S) \in Nat /\ Cardinality(S) # 0
  BY <1>2, FS_CardinalityType, FS_EmptySet
<1>4. \A x, y \in S : <<x, y>> \in R <=> x < y
  OBVIOUS
<1>5. PICK x \in S : Rank(S, R, x) = 0
  <2>1. \A y \in S : <<y, y>> \notin R
    BY <1>4
  <2>2. \A y, z \in S : y # z => <<y, z>> \in R \/ <<z, y>> \in R
    BY <1>4
  <2>3. \A y, z, w \in S : <<y, z>> \in R /\ <<z, w>> \in R => <<y, w>> \in R
    <3> S \subseteq Int
      OBVIOUS
    <3> HIDE DEF R
    <3> QED BY <1>4
  <2> HIDE DEF R
  <2>4. \A m \in 0 .. Cardinality(S) - 1 : \E y \in S : Rank(S, R, y) = m
    BY <1>2, <2>1, <2>2, <2>3, Ranked
  <2>5. 0 \in 0 .. Cardinality(S) - 1
    BY <1>3
  <2> QED BY <2>4, <2>5
<1>6. {b \in S : <<b, x>> \in R} \in SUBSET S
  OBVIOUS
<1>7. {b \in S : <<b, x>> \in R} = {}
  BY <1>2, <1>5, <1>6, FS_Subset, FS_EmptySet DEF Rank
<1>8. \A y \in S : ~(y < x)
  BY <1>4, <1>7
<1> QED BY <1>8

\* Induction up to n, over the set of the numbers that have the property.
LEMMA UpTo ==
  ASSUME NEW n \in Nat, NEW G, 0 \in G, \A k \in 0 .. n - 1 : k \in G => k + 1 \in G
  PROVE  \A k \in 0 .. n : k \in G
<1> SUFFICES ASSUME (0 .. n) \ G # {} PROVE FALSE
  OBVIOUS
<1>1. PICK x \in (0 .. n) \ G : \A y \in (0 .. n) \ G : x <= y
  BY Least
<1>2. x # 0 /\ x - 1 \in 0 .. n - 1 /\ x - 1 + 1 = x
  BY <1>1
<1>3. x - 1 \in G
  BY <1>1, <1>2
<1> QED BY <1>1, <1>2, <1>3

-----------------------------------------------------------------------------
(* What the client does with one frame.                                    *)

\* The greater of two numbers, and the lesser.
LEMMA MaxOfTwo ==
  ASSUME NEW a \in Int, NEW b \in Int
  PROVE  Max({a, b}) \in {a, b} /\ Max({a, b}) >= a /\ Max({a, b}) >= b
<1>1. \E x \in {a, b} : \A y \in {a, b} : x >= y
  OBVIOUS
<1> QED BY <1>1 DEF Max

\* ... and the lesser.
LEMMA MinOfTwo ==
  ASSUME NEW a \in Int, NEW b \in Int
  PROVE  Min({a, b}) \in {a, b} /\ Min({a, b}) <= a /\ Min({a, b}) <= b
<1>1. \E x \in {a, b} : \A y \in {a, b} : x =< y
  OBVIOUS
<1> QED BY <1>1 DEF Min

\* The kinds of frame that announce a loss.
Gappy(f) == f.kind \in {"gap", "stamped"}

\* What View returns of a channel.
ViewType == [cur : [seq : Nat, fresh : BOOLEAN], got : SUBSET Nat, lately : Seq(Nat), told : Nat]

\* What was dispatched since the last announcement ascends, up to the cursor.
Ascends(seqs, top) ==
    /\ \A i \in DOMAIN seqs : seqs[i] <= top
    /\ \A i, j \in DOMAIN seqs : i < j => seqs[i] < seqs[j]

\* An announcement only raises what was told, and starts the dispatches afresh.
LEMMA ToldFacts ==
  ASSUME NEW view \in ViewType, NEW seq \in Nat
  PROVE  /\ Told(view, seq) \in ViewType
         /\ Told(view, seq).cur = view.cur
         /\ Told(view, seq).got = view.got
         /\ Told(view, seq).lately = <<>>
         /\ Told(view, seq).told \in {view.told, seq}
         /\ Told(view, seq).told >= view.told
         /\ Told(view, seq).told >= seq
<1>1. Max({view.told, seq}) \in {view.told, seq} /\ Max({view.told, seq}) >= view.told
      /\ Max({view.told, seq}) >= seq
  <2>1. view.told \in Int /\ seq \in Int
    BY DEF ViewType
  <2> QED BY <2>1, MaxOfTwo
<1>2. <<>> \in Seq(Nat)
  BY EmptySeq
<1> QED BY <1>1, <1>2 DEF Told, ViewType

\* A dispatch moves the cursor to the frame; the dispatches ascend if it was below.
LEMMA DispatchedFacts ==
  ASSUME NEW view \in ViewType, NEW seq \in Nat
  PROVE  /\ Dispatched(view, seq) \in ViewType
         /\ Dispatched(view, seq).cur = At(seq)
         /\ Dispatched(view, seq).got = view.got \union {seq}
         /\ Dispatched(view, seq).told = view.told
         /\ Ascends(view.lately, view.cur.seq) /\ (view.cur.seq < seq \/ view.lately = <<>>)
               => Ascends(Dispatched(view, seq).lately, seq)
<1> DEFINE l == view.lately
           m == Append(l, seq)
<1>1. l \in Seq(Nat) /\ view.cur.seq \in Nat
  BY DEF ViewType
<1>2. m \in Seq(Nat)
  BY <1>1, AppendProperties
<1> DEFINE n == Len(l)
<1>0. /\ n \in Nat /\ DOMAIN m = 1 .. n + 1 /\ DOMAIN l = 1 .. n
      /\ \A i \in 1 .. n : m[i] = l[i] /\ l[i] \in Nat
      /\ m[n + 1] = seq /\ (l = <<>> => n = 0)
  <2>1. Len(m) = n + 1 /\ DOMAIN m = 1 .. Len(m) /\ DOMAIN l = 1 .. n
    BY <1>1, <1>2, AppendProperties, LenProperties
  <2>2. n \in Nat /\ (l = <<>> => n = 0)
    BY <1>1, EmptySeq, LenProperties
  <2>3. \A i \in 1 .. n : m[i] = l[i] /\ l[i] \in Nat
    BY <1>1, AppendProperties, ElementOfSeq
  <2>4. m[n + 1] = seq
    BY <1>1, AppendProperties
  <2> QED BY <2>1, <2>2, <2>3, <2>4
<1>3. /\ Dispatched(view, seq) \in ViewType
      /\ Dispatched(view, seq).cur = At(seq)
      /\ Dispatched(view, seq).got = view.got \union {seq}
      /\ Dispatched(view, seq).told = view.told
      /\ Dispatched(view, seq).lately = m
  BY <1>2 DEF Dispatched, ViewType, At
<1>4. ASSUME Ascends(l, view.cur.seq), view.cur.seq < seq \/ l = <<>>
      PROVE  Ascends(m, seq)
  <2> HIDE DEF l, m, n
  <2>1. /\ \A i \in 1 .. n : l[i] <= view.cur.seq
        /\ \A i, j \in 1 .. n : i < j => l[i] < l[j]
    BY <1>0, <1>4 DEF Ascends
  <2>2. n = 0 \/ view.cur.seq < seq
    BY <1>0, <1>4
  <2>3. view.cur.seq \in Nat
    BY <1>1
  <2>4. \A i \in 1 .. n : m[i] < seq
    <3> SUFFICES ASSUME NEW i \in 1 .. n PROVE m[i] < seq
      OBVIOUS
    <3>1. m[i] = l[i] /\ l[i] \in Nat /\ l[i] <= view.cur.seq /\ n # 0 /\ seq \in Nat
      BY <1>0, <2>1
    <3> QED BY <2>2, <2>3, <3>1
  <2>5. \A i \in 1 .. n + 1 : m[i] <= seq
    BY <1>0, <2>4
  <2>6. \A i, j \in 1 .. n + 1 : i < j => m[i] < m[j]
    <3> SUFFICES ASSUME NEW i \in 1 .. n + 1, NEW j \in 1 .. n + 1, i < j
                 PROVE  m[i] < m[j]
      OBVIOUS
    <3>1. i \in 1 .. n /\ (j \in 1 .. n \/ j = n + 1)
      BY <1>0
    <3> QED BY <1>0, <2>1, <2>4, <3>1
  <2> QED BY <1>0, <2>5, <2>6 DEF Ascends
<1> QED BY <1>3, <1>4

\* A gap sets the cursor and is told, another frame only raises it; an event above the
\* cursor is dispatched; the dispatches since the last announcement ascend.
LEMMA HandledFacts ==
  ASSUME NEW view \in ViewType, NEW f \in Frames
  PROVE  /\ Handled(view, f) \in ViewType
         /\ view.got \subseteq Handled(view, f).got
         /\ Handled(view, f).got \subseteq view.got \union {f.seq}
         /\ Handled(view, f).told \in {view.told, f.seq}
         /\ Handled(view, f).told >= view.told
         /\ Gappy(f) => Handled(view, f).cur.seq = f.seq /\ Handled(view, f).told >= f.seq
         /\ ~Gappy(f) => Handled(view, f).cur.seq = IF f.seq > view.cur.seq THEN f.seq ELSE view.cur.seq
         /\ f.kind = "event" /\ f.seq > view.cur.seq => f.seq \in Handled(view, f).got
         /\ Ascends(view.lately, view.cur.seq) => Ascends(Handled(view, f).lately, Handled(view, f).cur.seq)
<1> DEFINE informed == Told(view, f.seq)
<1>1. /\ f.kind \in {"event", "stamped", "gap", "mark"} /\ f.seq \in Nat /\ view.cur.seq \in Nat
      /\ view.told \in Nat /\ view.got \in SUBSET Nat /\ view.lately \in Seq(Nat)
  BY DEF Frames, ViewType
<1>2. At(f.seq) \in [seq : Nat, fresh : BOOLEAN] /\ At(f.seq).seq = f.seq
  BY <1>1 DEF At
<1>3. /\ informed \in ViewType /\ informed.cur = view.cur /\ informed.got = view.got /\ informed.lately = <<>>
      /\ informed.told \in {view.told, f.seq} /\ informed.told >= view.told /\ informed.told >= f.seq
  BY <1>1, ToldFacts
<1>4. Ascends(<<>>, view.cur.seq) /\ Ascends(<<>>, f.seq)
  BY DEF Ascends
<1>5. CASE f.kind = "mark"
  <2>1. CASE f.seq > view.cur.seq
    <3>1. Handled(view, f) = [view EXCEPT !.cur = At(f.seq)]
      BY <1>5, <2>1 DEF Handled
    <3>2. /\ Handled(view, f) \in ViewType /\ Handled(view, f).cur = At(f.seq)
          /\ Handled(view, f).got = view.got /\ Handled(view, f).told = view.told
          /\ Handled(view, f).lately = view.lately
      BY <1>2, <3>1 DEF ViewType
    <3>3. Ascends(view.lately, view.cur.seq) => Ascends(view.lately, f.seq)
      <4>1. DOMAIN view.lately = 1 .. Len(view.lately)
            /\ \A i \in 1 .. Len(view.lately) : view.lately[i] \in Nat
        BY <1>1, LenProperties, ElementOfSeq
      <4> QED BY <1>1, <2>1, <4>1 DEF Ascends
    <3> QED BY <1>1, <1>2, <1>5, <2>1, <3>2, <3>3 DEF Gappy
  <2>2. CASE ~(f.seq > view.cur.seq)
    <3>1. Handled(view, f) = view
      BY <1>5, <2>2 DEF Handled
    <3> QED BY <1>1, <1>5, <2>2, <3>1 DEF Gappy
  <2> QED BY <2>1, <2>2
<1>6. CASE f.kind = "gap"
  <2>1. Handled(view, f) = [informed EXCEPT !.cur = At(f.seq)]
    BY <1>6 DEF Handled
  <2>2. /\ Handled(view, f) \in ViewType /\ Handled(view, f).cur = At(f.seq)
        /\ Handled(view, f).got = informed.got /\ Handled(view, f).told = informed.told
        /\ Handled(view, f).lately = informed.lately
    <3> HIDE DEF informed
    <3> QED BY <1>2, <1>3, <2>1 DEF ViewType
  <2> HIDE DEF informed
  <2> QED BY <1>1, <1>2, <1>3, <1>4, <1>6, <2>2 DEF Gappy
<1>7. CASE f.kind = "stamped"
  <2>1. Handled(view, f) = Dispatched(informed, f.seq)
    BY <1>7 DEF Handled
  <2> HIDE DEF informed
  <2>2. /\ Handled(view, f) \in ViewType /\ Handled(view, f).cur = At(f.seq)
        /\ Handled(view, f).got = informed.got \union {f.seq} /\ Handled(view, f).told = informed.told
        /\ Ascends(Handled(view, f).lately, f.seq)
    <3>1. Ascends(informed.lately, informed.cur.seq) /\ informed \in ViewType /\ informed.lately = <<>> /\ f.seq \in Nat
      BY <1>1, <1>3, <1>4
    <3> DEFINE v == Dispatched(informed, f.seq)
    <3>2. v \in ViewType /\ v.cur = At(f.seq) /\ v.got = informed.got \union {f.seq} /\ v.told = informed.told
          /\ Ascends(v.lately, f.seq)
      BY <3>1, DispatchedFacts
    <3> QED BY <2>1, <3>2
  <2> QED BY <1>1, <1>2, <1>3, <1>4, <1>7, <2>2 DEF Gappy
<1>8. CASE f.kind = "event" /\ f.seq <= view.cur.seq
  <2>1. Handled(view, f) = view
    BY <1>1, <1>8 DEF Handled
  <2> QED BY <1>1, <1>8, <2>1 DEF Gappy
<1>9. CASE f.kind = "event" /\ f.seq > view.cur.seq
  <2> DEFINE base == IF Skipped(view, f) THEN informed ELSE view
  <2>1. Handled(view, f) = Dispatched(base, f.seq)
    BY <1>1, <1>9 DEF Handled
  <2>2. /\ base \in ViewType /\ base.cur = view.cur /\ base.got = view.got
        /\ base.told \in {view.told, f.seq} /\ base.told >= view.told
        /\ Ascends(view.lately, view.cur.seq) => Ascends(base.lately, view.cur.seq)
    BY <1>1, <1>3, <1>4
  <2> HIDE DEF base
  <2>3. /\ Handled(view, f) \in ViewType /\ Handled(view, f).cur = At(f.seq)
        /\ Handled(view, f).got = base.got \union {f.seq} /\ Handled(view, f).told = base.told
        /\ Ascends(base.lately, view.cur.seq) => Ascends(Handled(view, f).lately, f.seq)
    <3>1. base \in ViewType /\ f.seq \in Nat /\ base.cur.seq = view.cur.seq /\ view.cur.seq < f.seq
      BY <1>1, <1>9, <2>2
    <3>2. /\ Dispatched(base, f.seq) \in ViewType /\ Dispatched(base, f.seq).cur = At(f.seq)
          /\ Dispatched(base, f.seq).got = base.got \union {f.seq}
          /\ Dispatched(base, f.seq).told = base.told
          /\ Ascends(base.lately, base.cur.seq) /\ (base.cur.seq < f.seq \/ base.lately = <<>>)
                => Ascends(Dispatched(base, f.seq).lately, f.seq)
      BY <3>1, DispatchedFacts
    <3> QED BY <2>1, <3>1, <3>2
  <2> QED BY <1>1, <1>2, <1>9, <2>2, <2>3 DEF Gappy
<1> QED BY <1>1, <1>5, <1>6, <1>7, <1>8, <1>9

-----------------------------------------------------------------------------
(* The drain of a replay buffer.                                           *)

\* A channel's buffered frames have an order, and Nth counts along it.
LEMMA NthFacts ==
  ASSUME held.frames \in Seq(Frames), NEW c
  PROVE  /\ IsFiniteSet(Mine(c)) /\ Cardinality(Mine(c)) \in Nat
         /\ \A n \in 0 .. Cardinality(Mine(c)) - 1 : Nth(c, n) \in Mine(c)
         /\ \A n, m \in 0 .. Cardinality(Mine(c)) - 1 : n < m => Precedes(Nth(c, n), Nth(c, m))
         /\ \A i \in Mine(c) : \E n \in 0 .. Cardinality(Mine(c)) - 1 : i = Nth(c, n)
<1> DEFINE S == Mine(c)
           R == {p \in S \X S : Precedes(p[1], p[2])}
           N == Cardinality(S)
<1>1. /\ DOMAIN held.frames = 1 .. Len(held.frames) /\ Len(held.frames) \in Nat
      /\ \A i \in 1 .. Len(held.frames) : held.frames[i] \in Frames
  BY LenProperties, ElementOfSeq
<1>2. S \subseteq 1 .. Len(held.frames)
  BY <1>1 DEF Mine
<1>3. IsFiniteSet(S)
  <2>1. IsFiniteSet(1 .. Len(held.frames))
    BY <1>1, FS_Interval
  <2> QED BY <1>2, <2>1, FS_Subset
<1>4. \A i \in S : i \in Nat /\ held.frames[i].seq \in Nat
  BY <1>1, <1>2 DEF Frames
<1>5. \A i, j \in S : <<i, j>> \in R <=> Precedes(i, j)
  OBVIOUS
<1>6. \A i \in S : ~Precedes(i, i)
  BY <1>4 DEF Precedes
<1>7. \A i, j \in S : i # j => Precedes(i, j) \/ Precedes(j, i)
  BY <1>4 DEF Precedes
<1>8. \A i, j, k \in S : Precedes(i, j) /\ Precedes(j, k) => Precedes(i, k)
  BY <1>4 DEF Precedes
<1>9. \A j \in S : Rank(S, R, j) = Cardinality({i \in Mine(c) : Precedes(i, j)})
  <2> SUFFICES ASSUME NEW j \in S
               PROVE  {i \in S : <<i, j>> \in R} = {i \in Mine(c) : Precedes(i, j)}
    BY DEF Rank
  <2> QED BY <1>5
<1>10. /\ N \in Nat
       /\ \A x \in S : Rank(S, R, x) \in 0 .. N - 1
       /\ \A x, y \in S : <<x, y>> \in R => Rank(S, R, x) < Rank(S, R, y)
       /\ \A n \in 0 .. N - 1 : \E x \in S : Rank(S, R, x) = n
  <2> HIDE DEF S, R
  <2> QED BY <1>3, <1>5, <1>6, <1>7, <1>8, Ranked DEF N
<1> HIDE DEF S, R, N
<1>11. \A n \in 0 .. N - 1 : Nth(c, n) \in S /\ Rank(S, R, Nth(c, n)) = n
  <2> SUFFICES ASSUME NEW n \in 0 .. N - 1
               PROVE  Nth(c, n) \in S /\ Rank(S, R, Nth(c, n)) = n
    OBVIOUS
  <2>1. \E x \in Mine(c) : Cardinality({i \in Mine(c) : Precedes(i, x)}) = n
    BY <1>9, <1>10 DEF S
  <2>2. Nth(c, n) \in Mine(c) /\ Cardinality({i \in Mine(c) : Precedes(i, Nth(c, n))}) = n
    BY <2>1, Zenon DEF Nth
  <2> QED BY <1>9, <2>2 DEF S
<1>12. \A x, y \in S : Rank(S, R, x) = Rank(S, R, y) => x = y
  <2> SUFFICES ASSUME NEW x \in S, NEW y \in S, Rank(S, R, x) = Rank(S, R, y), x # y
               PROVE  FALSE
    OBVIOUS
  <2>1. Rank(S, R, x) \in Nat /\ Rank(S, R, y) \in Nat
    BY <1>10
  <2>2. <<x, y>> \in R \/ <<y, x>> \in R
    BY <1>5, <1>7
  <2>3. ~(<<x, y>> \in R) /\ ~(<<y, x>> \in R)
    BY <1>10, <2>1
  <2> QED BY <2>2, <2>3
<1>13. ASSUME NEW n \in 0 .. N - 1, NEW m \in 0 .. N - 1, n < m
       PROVE  Precedes(Nth(c, n), Nth(c, m))
  <2>1. Nth(c, n) # Nth(c, m)
    BY <1>11, <1>13
  <2>2. ~Precedes(Nth(c, m), Nth(c, n))
    <3>1. /\ Nth(c, n) \in S /\ Rank(S, R, Nth(c, n)) = n /\ n \in Nat
          /\ Nth(c, m) \in S /\ Rank(S, R, Nth(c, m)) = m /\ m \in Nat
      BY <1>10, <1>11
    <3>2. <<Nth(c, m), Nth(c, n)>> \in R => m < n
      BY <1>10, <3>1
    <3> QED BY <1>5, <1>13, <3>1, <3>2
  <2> QED BY <1>7, <1>11, <2>1, <2>2
<1>14. \A i \in S : \E n \in 0 .. N - 1 : i = Nth(c, n)
  BY <1>10, <1>11, <1>12
<1> QED BY <1>3, <1>10, <1>11, <1>13, <1>14 DEF S, N

\* The function of Views exists: one frame after the other.
LEMMA ViewsFacts ==
  ASSUME held.frames \in Seq(Frames), NEW c
  PROVE  /\ Views(c)[0] = View(c)
         /\ \A n \in 0 .. Cardinality(Mine(c)) - 1 :
               Views(c)[n + 1] = Handled(Views(c)[n], held.frames[Nth(c, n)])
<1> DEFINE N == Cardinality(Mine(c))
           Is(g, k) == g = [n \in 0 .. k |-> IF n = 0 THEN View(c)
                                            ELSE Handled(g[n - 1], held.frames[Nth(c, n - 1)])]
           G == {k \in 0 .. N : \E g : Is(g, k)}
<1>1. N \in Nat
  BY NthFacts
<1>2. 0 \in G
  <2> DEFINE g == [n \in 0 .. 0 |-> View(c)]
  <2>1. Is(g, 0)
    OBVIOUS
  <2>2. 0 \in 0 .. N
    BY <1>1
  <2> HIDE DEF Is, g, N
  <2> QED BY <2>1, <2>2
<1>3. ASSUME NEW k \in 0 .. N - 1, k \in G
      PROVE  k + 1 \in G
  <2>1. PICK g : Is(g, k)
    BY <1>3
  <2> DEFINE h == [n \in 0 .. k + 1 |-> IF n = k + 1 THEN Handled(g[k], held.frames[Nth(c, k)]) ELSE g[n]]
             e == [n \in 0 .. k + 1 |-> IF n = 0 THEN View(c)
                                       ELSE Handled(h[n - 1], held.frames[Nth(c, n - 1)])]
  <2>2. \A n \in 0 .. k : g[n] = IF n = 0 THEN View(c) ELSE Handled(g[n - 1], held.frames[Nth(c, n - 1)])
    BY <2>1
  <2>3. ASSUME NEW n \in 0 .. k + 1
        PROVE  h[n] = e[n]
    <3>0. k \in Nat /\ n \in Nat
      BY <1>1
    <3>1. CASE n = k + 1
      <4>1. h[n] = Handled(g[k], held.frames[Nth(c, k)])
        BY <3>0, <3>1
      <4>2. n # 0 /\ n - 1 = k /\ h[k] = g[k]
        BY <3>0, <3>1
      <4> QED BY <4>1, <4>2
    <3>2. CASE n # k + 1
      <4>1. h[n] = g[n] /\ n \in 0 .. k
        BY <3>0, <3>2
      <4>2. n # 0 => h[n - 1] = g[n - 1]
        BY <3>0, <3>2
      <4> QED BY <2>2, <4>1, <4>2
    <3> QED BY <3>1, <3>2
  <2>4. Is(h, k + 1)
    <3>1. h = e
      BY <2>3
    <3> QED BY <3>1
  <2>5. k + 1 \in 0 .. N
    BY <1>1
  <2> HIDE DEF Is, h
  <2> QED BY <2>4, <2>5
<1>4. \A k \in 0 .. N : k \in G
  <2> HIDE DEF G, N
  <2> QED BY <1>1, <1>2, <1>3, UpTo
<1>5. \E g : Is(g, N)
  <2>1. N \in G
    BY <1>1, <1>4
  <2> QED BY <2>1
<1>6. Is(Views(c), N)
  <2>1. Views(c) = CHOOSE view : Is(view, N)
    BY DEF Views
  <2> HIDE DEF Is, N
  <2> QED BY <1>5, <2>1
<1>7. \A n \in 0 .. N : Views(c)[n] = IF n = 0 THEN View(c)
                                     ELSE Handled(Views(c)[n - 1], held.frames[Nth(c, n - 1)])
  BY <1>6
<1>8. Views(c)[0] = View(c)
  BY <1>1, <1>7
<1>9. ASSUME NEW n \in 0 .. N - 1
      PROVE  Views(c)[n + 1] = Handled(Views(c)[n], held.frames[Nth(c, n)])
  <2>1. n + 1 \in 0 .. N /\ n + 1 # 0 /\ n + 1 - 1 = n
    BY <1>1
  <2> HIDE DEF N
  <2> QED BY <1>7, <2>1
<1> QED BY <1>8, <1>9

\* What holds of the channel's view, and after each of its frames of the next one,
\* holds of the drained view: H[n] is the set of the views it may have after n.
LEMMA DrainedIn ==
  ASSUME held.frames \in Seq(Frames), NEW c, NEW H,
         View(c) \in H[0],
         \A n \in 0 .. Cardinality(Mine(c)) - 1 : \A v \in H[n] :
            Handled(v, held.frames[Nth(c, n)]) \in H[n + 1]
  PROVE  Drained(c) \in H[Cardinality(Mine(c))]
<1> DEFINE N == Cardinality(Mine(c))
           G == {n \in 0 .. N : Views(c)[n] \in H[n]}
<1>1. N \in Nat
  BY NthFacts
<1>2. 0 \in G
  BY <1>1, ViewsFacts
<1>3. ASSUME NEW k \in 0 .. N - 1, k \in G
      PROVE  k + 1 \in G
  <2>1. Views(c)[k + 1] = Handled(Views(c)[k], held.frames[Nth(c, k)])
    BY ViewsFacts
  <2>2. Views(c)[k] \in H[k]
    BY <1>3
  <2>3. k + 1 \in 0 .. N
    BY <1>1
  <2> QED BY <2>1, <2>2, <2>3
<1>4. \A k \in 0 .. N : k \in G
  <2> HIDE DEF G, N
  <2> QED BY <1>1, <1>2, <1>3, UpTo
<1>5. N \in G
  BY <1>1, <1>4
<1> QED BY <1>5 DEF Drained

\* The buffered frames of the channel.
Buffered(c) == {held.frames[i] : i \in Mine(c)}

\* What a drain does, if every buffered number is above the cursor: the cursor ends
\* at the highest, every gap is told, every event is dispatched, told or shares its
\* number with a mark, and the dispatches since the last announcement ascend.
LEMMA DrainedFacts ==
  ASSUME held.frames \in Seq(Frames), NEW c, View(c) \in ViewType
  PROVE  /\ Drained(c) \in ViewType
         /\ Ascends(lately[c], cursor[c].seq) => Ascends(Drained(c).lately, Drained(c).cur.seq)
         /\ got[c] \subseteq Drained(c).got
         /\ Drained(c).got \subseteq got[c] \union {f.seq : f \in Buffered(c)}
         /\ Drained(c).told \in {told[c]} \union {f.seq : f \in Buffered(c)}
         /\ Drained(c).told >= told[c]
         /\ Drained(c).cur.seq \in {cursor[c].seq} \union {f.seq : f \in Buffered(c)}
         /\ \A f \in Buffered(c) : Gappy(f) => Drained(c).told >= f.seq
         /\ (\A f \in Buffered(c) : f.seq > cursor[c].seq) =>
               /\ \A f \in Buffered(c) : f.seq <= Drained(c).cur.seq
               /\ cursor[c].seq <= Drained(c).cur.seq
               /\ \A f \in Buffered(c) : f.kind = "event" =>
                     \/ f.seq \in Drained(c).got \/ f.seq <= Drained(c).told
                     \/ \E g \in Buffered(c) : g.kind = "mark" /\ g.seq = f.seq
<1> DEFINE N == Cardinality(Mine(c))
           F(n) == held.frames[Nth(c, n)]
           Top(n) == IF n = 0 THEN cursor[c].seq ELSE F(n - 1).seq
           Above == \A f \in Buffered(c) : f.seq > cursor[c].seq
           Seqs == {f.seq : f \in Buffered(c)}
           Rises == Ascends(lately[c], cursor[c].seq)
           Done(v, f) == f.seq \in v.got \/ f.seq <= v.told
                         \/ \E g \in Buffered(c) : g.kind = "mark" /\ g.seq = f.seq
           H == [n \in 0 .. N |->
                   {v \in ViewType :
                      /\ Rises => Ascends(v.lately, v.cur.seq)
                      /\ got[c] \subseteq v.got /\ v.got \subseteq got[c] \union Seqs
                      /\ v.told \in {told[c]} \union Seqs /\ v.told >= told[c]
                      /\ v.cur.seq \in {cursor[c].seq} \union Seqs
                      /\ \A m \in 0 .. n - 1 : Gappy(F(m)) => v.told >= F(m).seq
                      /\ Above => /\ v.cur.seq = Top(n)
                                  /\ \A m \in 0 .. n - 1 : F(m).kind = "event" => Done(v, F(m))}]
<1>1. /\ N \in Nat
      /\ \A n \in 0 .. N - 1 : Nth(c, n) \in Mine(c)
      /\ \A n, m \in 0 .. N - 1 : n < m => Precedes(Nth(c, n), Nth(c, m))
      /\ \A i \in Mine(c) : \E n \in 0 .. N - 1 : i = Nth(c, n)
  BY NthFacts
<1>2. \A i \in Mine(c) : held.frames[i] \in Frames
  BY LenProperties, ElementOfSeq DEF Mine
<1>3. \A n \in 0 .. N - 1 : F(n) \in Buffered(c) /\ F(n) \in Frames /\ F(n).seq \in Nat
                            /\ F(n).kind \in {"event", "stamped", "gap", "mark"}
  BY <1>1, <1>2 DEF Buffered, Frames
<1>4. \A f \in Buffered(c) : \E n \in 0 .. N - 1 : f = F(n)
  BY <1>1 DEF Buffered
<1>5. /\ View(c).cur = cursor[c] /\ View(c).got = got[c] /\ View(c).told = told[c]
      /\ View(c).lately = lately[c]
      /\ cursor[c].seq \in Nat /\ told[c] \in Nat /\ got[c] \in SUBSET Nat
  BY DEF View, ViewType
<1>6. View(c) \in H[0]
  BY <1>1, <1>5
<1>7. \A n, m \in 0 .. N - 1 : n < m => F(n).seq <= F(m).seq
  <2> SUFFICES ASSUME NEW n \in 0 .. N - 1, NEW m \in 0 .. N - 1, n < m
               PROVE  F(n).seq <= F(m).seq
    OBVIOUS
  <2>1. Precedes(Nth(c, n), Nth(c, m))
    BY <1>1
  <2> QED BY <1>3, <2>1 DEF Precedes
<1>8. ASSUME NEW n \in 0 .. N - 1, NEW v \in H[n]
      PROVE  Handled(v, F(n)) \in H[n + 1]
  <2> DEFINE f == F(n)
             w == Handled(v, f)
  <2>1. /\ v \in ViewType /\ (Rises => Ascends(v.lately, v.cur.seq))
        /\ got[c] \subseteq v.got /\ v.got \subseteq got[c] \union Seqs
        /\ v.told \in {told[c]} \union Seqs /\ v.told >= told[c]
        /\ v.cur.seq \in {cursor[c].seq} \union Seqs
        /\ \A m \in 0 .. n - 1 : Gappy(F(m)) => v.told >= F(m).seq
        /\ Above => /\ v.cur.seq = Top(n)
                    /\ \A m \in 0 .. n - 1 : F(m).kind = "event" => Done(v, F(m))
    BY <1>1, <1>8
  <2>2. /\ n \in Nat /\ n + 1 \in 0 .. N /\ n + 1 # 0 /\ (n + 1) - 1 = n
        /\ f \in Frames /\ f.seq \in Nat /\ f \in Buffered(c) /\ f.seq \in Seqs
        /\ f.kind \in {"event", "stamped", "gap", "mark"}
    BY <1>1, <1>3
  <2>3. v.cur.seq \in Nat /\ v.told \in Nat
    BY <2>1 DEF ViewType
  <2>4. /\ w \in ViewType
        /\ v.got \subseteq w.got /\ w.got \subseteq v.got \union {f.seq}
        /\ w.told \in {v.told, f.seq} /\ w.told >= v.told
        /\ Gappy(f) => w.cur.seq = f.seq /\ w.told >= f.seq
        /\ ~Gappy(f) => w.cur.seq = IF f.seq > v.cur.seq THEN f.seq ELSE v.cur.seq
        /\ f.kind = "event" /\ f.seq > v.cur.seq => f.seq \in w.got
        /\ Rises => Ascends(w.lately, w.cur.seq)
    BY <2>1, <2>2, HandledFacts
  <2>5. w.told \in Nat /\ w.cur.seq \in Nat
    BY <2>4 DEF ViewType
  <2>6. Top(n + 1) = f.seq
    BY <2>2
  <2>7. n # 0 => /\ n - 1 \in 0 .. N - 1 /\ n - 1 \in 0 .. n - 1 /\ Top(n) = F(n - 1).seq
                 /\ F(n - 1).seq <= f.seq
    <3> HIDE DEF F, H, N, f
    <3>1. n # 0 => n - 1 \in 0 .. N - 1 /\ n - 1 \in 0 .. n - 1 /\ n - 1 < n
      BY <1>1, <2>2
    <3>2. n # 0 => F(n - 1).seq <= F(n).seq
      BY <1>7, <3>1
    <3> QED BY <3>1, <3>2 DEF f
  <2>8. ASSUME NEW m \in 0 .. n, m # n
        PROVE  m \in 0 .. n - 1 /\ F(m).seq \in Nat
    BY <1>1, <1>3, <2>2, <2>8
  <2> HIDE DEF H, w
  <2>9. ASSUME NEW m \in 0 .. n, Gappy(F(m))
        PROVE  w.told >= F(m).seq
    <3>1. CASE m = n
      BY <2>4, <2>9, <3>1
    <3>2. CASE m # n
      <4>1. m \in 0 .. n - 1 /\ F(m).seq \in Nat
        BY <2>8, <3>2
      <4>2. v.told >= F(m).seq
        BY <2>1, <2>9, <4>1
      <4>3. v.told \in Nat /\ w.told \in Nat /\ w.told >= v.told
        BY <2>3, <2>4, <2>5
      <4> QED BY <4>1, <4>2, <4>3
    <3> QED BY <3>1, <3>2
  <2>10. ASSUME Above
         PROVE  v.cur.seq <= f.seq /\ w.cur.seq = f.seq
    <3>1. v.cur.seq <= f.seq
      <4>1. CASE n = 0
        BY <1>5, <2>1, <2>2, <2>10, <4>1
      <4>2. CASE n # 0
        BY <2>1, <2>7, <2>10, <4>2
      <4> QED BY <4>1, <4>2
    <3> QED BY <2>2, <2>3, <2>4, <3>1
  <2>11. ASSUME Above, NEW m \in 0 .. n, F(m).kind = "event"
         PROVE  Done(w, F(m))
    <3>1. CASE m # n
      <4>1. Done(v, F(m)) /\ F(m).seq \in Nat
        BY <2>1, <2>8, <2>11, <3>1
      <4> HIDE DEF F
      <4> QED BY <2>3, <2>4, <2>5, <4>1
    <3>2. CASE m = n /\ f.seq > v.cur.seq
      BY <2>4, <2>11, <3>2
    <3>3. CASE m = n /\ ~(f.seq > v.cur.seq)
      <4>1. f.seq = v.cur.seq /\ v.cur.seq = Top(n)
        BY <2>1, <2>2, <2>3, <2>10, <2>11, <3>3
      <4>2. n # 0
        BY <1>5, <2>2, <2>11, <4>1
      <4> DEFINE p == F(n - 1)
      <4>3. /\ n - 1 \in 0 .. n - 1 /\ p.seq = f.seq /\ p \in Buffered(c)
            /\ p.kind \in {"event", "stamped", "gap", "mark"}
        BY <1>3, <2>7, <4>1, <4>2
      <4>4. Gappy(p) => v.told >= p.seq
        BY <2>1, <4>3
      <4>5. p.kind = "event" => Done(v, p)
        BY <2>1, <2>11, <4>3
      <4> HIDE DEF p, f
      <4>6. CASE Gappy(p)
        <5>1. f.seq <= w.told
          BY <2>2, <2>3, <2>4, <2>5, <4>3, <4>4, <4>6
        <5> QED BY <3>3, <5>1 DEF f
      <4>7. CASE p.kind = "event"
        <5>1. Done(w, p)
          BY <2>2, <2>3, <2>4, <2>5, <4>3, <4>5, <4>7
        <5>2. Done(w, f)
          BY <4>3, <5>1
        <5> QED BY <3>3, <5>2 DEF f
      <4>8. CASE p.kind = "mark"
        <5>1. Done(w, f)
          BY <4>3, <4>8
        <5> QED BY <3>3, <5>1 DEF f
      <4> QED BY <4>3, <4>6, <4>7, <4>8 DEF Gappy
    <3> QED BY <3>1, <3>2, <3>3
  <2>12. w.told >= told[c] /\ w.told \in {told[c]} \union Seqs
    BY <1>5, <2>1, <2>2, <2>3, <2>4, <2>5
  <2>13. w.cur.seq \in {cursor[c].seq} \union Seqs
    BY <2>1, <2>2, <2>4
  <2>14. got[c] \subseteq w.got /\ w.got \subseteq got[c] \union Seqs
    BY <2>1, <2>2, <2>4
  <2>15. 0 .. (n + 1) - 1 = 0 .. n
    BY <2>2
  <2>16. Above => w.cur.seq = Top(n + 1)
    BY <2>6, <2>10
  <2> HIDE DEF Above, Seqs, Top, F, f, Done
  <2>18. \A m \in 0 .. (n + 1) - 1 : Gappy(F(m)) => w.told >= F(m).seq
    BY <2>9, <2>15
  <2>19. Above => \A m \in 0 .. (n + 1) - 1 : F(m).kind = "event" => Done(w, F(m))
    BY <2>11, <2>15
  <2>20. w \in ViewType /\ (Rises => Ascends(w.lately, w.cur.seq))
    BY <2>4
  <2>17. w \in {x \in ViewType :
                  /\ Rises => Ascends(x.lately, x.cur.seq)
                  /\ got[c] \subseteq x.got /\ x.got \subseteq got[c] \union Seqs
                  /\ x.told \in {told[c]} \union Seqs /\ x.told >= told[c]
                  /\ x.cur.seq \in {cursor[c].seq} \union Seqs
                  /\ \A m \in 0 .. (n + 1) - 1 : Gappy(F(m)) => x.told >= F(m).seq
                  /\ Above => /\ x.cur.seq = Top(n + 1)
                              /\ \A m \in 0 .. (n + 1) - 1 : F(m).kind = "event" => Done(x, F(m))}
    BY <2>12, <2>13, <2>14, <2>16, <2>18, <2>19, <2>20
  <2> QED BY <2>2, <2>17 DEF H, w, f
<1>9. Drained(c) \in H[N]
  <2> HIDE DEF H
  <2> QED BY <1>6, <1>8, DrainedIn
<1> DEFINE d == Drained(c)
<1>10. /\ d \in ViewType /\ (Rises => Ascends(d.lately, d.cur.seq))
       /\ got[c] \subseteq d.got /\ d.got \subseteq got[c] \union Seqs
       /\ d.told \in {told[c]} \union Seqs /\ d.told >= told[c]
       /\ d.cur.seq \in {cursor[c].seq} \union Seqs
       /\ \A m \in 0 .. N - 1 : Gappy(F(m)) => d.told >= F(m).seq
       /\ Above => /\ d.cur.seq = Top(N)
                   /\ \A m \in 0 .. N - 1 : F(m).kind = "event" => Done(d, F(m))
  <2>1. N \in 0 .. N
    BY <1>1
  <2>2. d \in H[N]
    BY <1>9
  <2> HIDE DEF d, Rises, Seqs, Above, Top, F, Done
  <2> QED BY <2>1, <2>2
<1> HIDE DEF H, d
<1>11. \A f \in Buffered(c) : Gappy(f) => d.told >= f.seq
  BY <1>4, <1>10
<1>12. ASSUME Above, NEW f \in Buffered(c)
       PROVE  f.seq <= d.cur.seq /\ (f.kind = "event" => Done(d, f))
  <2>1. PICK m \in 0 .. N - 1 : f = F(m)
    BY <1>4
  <2>2. N # 0 /\ N - 1 \in 0 .. N - 1 /\ Top(N) = F(N - 1).seq
    BY <1>1, <2>1
  <2>3. F(m).seq <= F(N - 1).seq
    <3>1. CASE m = N - 1
      BY <1>3, <3>1
    <3>2. CASE m # N - 1
      BY <1>1, <1>7, <2>2, <3>2
    <3> QED BY <3>1, <3>2
  <2>4. d.cur.seq = Top(N)
    BY <1>10, <1>12
  <2>5. f.kind = "event" => Done(d, f)
    BY <1>10, <1>12, <2>1
  <2> QED BY <2>1, <2>2, <2>3, <2>4, <2>5
<1>13. ASSUME Above
       PROVE  cursor[c].seq <= d.cur.seq
  <2>1. CASE N = 0
    BY <1>5, <1>10, <1>13, <2>1
  <2>2. CASE N # 0
    <3>1. N - 1 \in 0 .. N - 1 /\ d.cur.seq = F(N - 1).seq
      BY <1>1, <1>10, <1>13, <2>2
    <3> QED BY <1>3, <1>5, <1>13, <3>1
  <2> QED BY <2>1, <2>2
<1> QED BY <1>10, <1>11, <1>12, <1>13 DEF d

-----------------------------------------------------------------------------
(* Sequences: queue, wire and requests.                                    *)

\* A sequence that is not empty has a head and a tail.
LEMMA TailFacts ==
  ASSUME NEW T, NEW s \in Seq(T), s # <<>>
  PROVE  /\ Len(s) \in Nat /\ Len(s) > 0 /\ DOMAIN s = 1 .. Len(s)
         /\ Head(s) = s[1] /\ s[1] \in T
         /\ Tail(s) \in Seq(T) /\ Len(Tail(s)) = Len(s) - 1 /\ DOMAIN Tail(s) = 1 .. Len(s) - 1
         /\ \A i \in 1 .. Len(s) - 1 : Tail(s)[i] = s[i + 1]
<1>1. Len(s) \in Nat /\ Len(s) > 0 /\ DOMAIN s = 1 .. Len(s)
  BY EmptySeq, LenProperties
<1>2. Head(s) = s[1]
  OBVIOUS
<1>3. s[1] \in T
  BY <1>1, ElementOfSeq
<1>4. /\ Tail(s) \in Seq(T) /\ Len(Tail(s)) = Len(s) - 1
      /\ \A i \in 1 .. Len(Tail(s)) : Tail(s)[i] = s[i + 1]
  BY HeadTailProperties
<1>5. DOMAIN Tail(s) = 1 .. Len(Tail(s))
  BY <1>4, LenProperties
<1> QED BY <1>1, <1>2, <1>3, <1>4, <1>5

\* What a concatenation is made of.
LEMMA JoinFacts ==
  ASSUME NEW T, NEW s \in Seq(T), NEW t \in Seq(T)
  PROVE  /\ s \o t \in Seq(T) /\ Len(s) \in Nat /\ Len(t) \in Nat
         /\ Len(s \o t) = Len(s) + Len(t)
         /\ DOMAIN s = 1 .. Len(s) /\ DOMAIN t = 1 .. Len(t)
         /\ DOMAIN (s \o t) = 1 .. Len(s) + Len(t)
         /\ \A i \in 1 .. Len(s) : (s \o t)[i] = s[i]
         /\ \A i \in 1 .. Len(t) : (s \o t)[Len(s) + i] = t[i]
<1>1. Len(s) \in Nat /\ Len(t) \in Nat /\ DOMAIN s = 1 .. Len(s) /\ DOMAIN t = 1 .. Len(t)
  BY LenProperties
<1>2. /\ s \o t \in Seq(T) /\ Len(s \o t) = Len(s) + Len(t)
      /\ \A i \in 1 .. Len(s) + Len(t) : (s \o t)[i] = IF i <= Len(s) THEN s[i] ELSE t[i - Len(s)]
  BY ConcatProperties
<1>3. DOMAIN (s \o t) = 1 .. Len(s) + Len(t)
  <2>1. DOMAIN (s \o t) = 1 .. Len(s \o t)
    BY <1>2, LenProperties
  <2> QED BY <1>2, <2>1
<1>4. \A i \in 1 .. Len(s) : (s \o t)[i] = s[i]
  BY <1>1, <1>2
<1>5. ASSUME NEW i \in 1 .. Len(t)
      PROVE  (s \o t)[Len(s) + i] = t[i]
  <2>1. Len(s) + i \in 1 .. Len(s) + Len(t) /\ ~(Len(s) + i <= Len(s)) /\ Len(s) + i - Len(s) = i
    BY <1>1
  <2> QED BY <1>2, <2>1
<1> QED BY <1>1, <1>2, <1>3, <1>4, <1>5

\* The elements of a sequence are its head and those of its tail.
LEMMA RangeTail ==
  ASSUME NEW T, NEW s \in Seq(T), s # <<>>
  PROVE  Range(s) = {s[1]} \union Range(Tail(s)) /\ Range(Tail(s)) \subseteq T
<1>1. /\ Len(s) \in Nat /\ Len(s) > 0 /\ DOMAIN s = 1 .. Len(s) /\ DOMAIN Tail(s) = 1 .. Len(s) - 1
      /\ \A i \in 1 .. Len(s) - 1 : Tail(s)[i] = s[i + 1]
  BY TailFacts
<1>2. Range(Tail(s)) \subseteq T
  BY TailFacts, RangeOfSeq
<1> DEFINE n == Len(s)
           t == Tail(s)
<1>3. ASSUME NEW i \in 1 .. n
      PROVE  s[i] \in {s[1]} \union Range(t)
  <2>1. CASE i = 1
    BY <2>1
  <2>2. CASE i # 1
    <3>1. i - 1 \in 1 .. n - 1 /\ i - 1 + 1 = i
      BY <1>1, <2>2
    <3>2. t[i - 1] = s[i]
      BY <1>1, <3>1
    <3>3. i - 1 \in DOMAIN t
      BY <1>1, <3>1
    <3> HIDE DEF t
    <3> QED BY <3>2, <3>3 DEF Range
  <2> QED BY <2>1, <2>2
<1>4. ASSUME NEW i \in 1 .. n - 1
      PROVE  t[i] \in Range(s)
  <2>1. i + 1 \in 1 .. n /\ t[i] = s[i + 1]
    BY <1>1
  <2> HIDE DEF t
  <2> QED BY <1>1, <2>1 DEF Range
<1>5. s[1] \in Range(s)
  BY <1>1 DEF Range
<1> HIDE DEF n, t
<1>6. DOMAIN t = 1 .. n - 1 /\ DOMAIN s = 1 .. n
  BY <1>1 DEF n, t
<1>7. Range(s) \subseteq {s[1]} \union Range(t) /\ Range(t) \subseteq Range(s)
  BY <1>3, <1>4, <1>6 DEF Range
<1> QED BY <1>2, <1>5, <1>7 DEF t

\* ... and an element appended joins them.
LEMMA RangeAppend ==
  ASSUME NEW T, NEW s \in Seq(T), NEW x \in T
  PROVE  Range(Append(s, x)) = Range(s) \union {x}
<1> DEFINE n == Len(s)
           v == Append(s, x)
<1>1. /\ n \in Nat /\ DOMAIN s = 1 .. n /\ DOMAIN v = 1 .. n + 1
      /\ \A i \in 1 .. n : v[i] = s[i]
      /\ v[n + 1] = x
  <2>1. /\ v \in Seq(T) /\ Len(v) = n + 1 /\ v[n + 1] = x
        /\ \A i \in 1 .. n : v[i] = s[i]
    BY AppendProperties
  <2>2. n \in Nat /\ DOMAIN s = 1 .. n /\ DOMAIN v = 1 .. Len(v)
    BY <2>1, LenProperties
  <2> QED BY <2>1, <2>2
<1> HIDE DEF n, v
<1>2. \A i \in 1 .. n + 1 : i \in 1 .. n \/ i = n + 1
  BY <1>1
<1>3. n + 1 \in 1 .. n + 1 /\ \A i \in 1 .. n : i \in 1 .. n + 1
  BY <1>1
<1>4. Range(v) \subseteq Range(s) \union {x}
  BY <1>1, <1>2 DEF Range
<1>5. Range(s) \union {x} \subseteq Range(v)
  BY <1>1, <1>3 DEF Range
<1> QED BY <1>4, <1>5 DEF v

\* SetToSeq lists a finite set, each element once.
LEMMA SetToSeqFacts ==
  ASSUME NEW S, IsFiniteSet(S)
  PROVE  /\ SetToSeq(S) \in Seq(S) /\ Len(SetToSeq(S)) = Cardinality(S)
         /\ Range(SetToSeq(S)) = S
         /\ \A i, j \in DOMAIN SetToSeq(S) : SetToSeq(S)[i] = SetToSeq(S)[j] => i = j
<1> DEFINE n == Cardinality(S)
           s == SetToSeq(S)
<1>1. n \in Nat /\ ExistsBijection(1 .. n, S)
  BY FS_CardinalityType
<1>2. PICK f \in Bijection(1 .. n, S) : TRUE
  BY <1>1 DEF ExistsBijection
<1>3. f \in [1 .. n -> S] /\ IsInjective(f)
  BY <1>2 DEF Bijection, Injection, Surjection, IsInjective
<1>4. s \in [1 .. n -> S] /\ IsInjective(s)
  BY <1>3 DEF SetToSeq
<1>5. s \in Seq(S) /\ Len(s) = n
  BY <1>1, <1>4, SeqDef, LenProperties
<1>6. s \in Injection(1 .. n, S)
  BY <1>4 DEF Injection
<1>7. IsFiniteSet(1 .. n) /\ Cardinality(1 .. n) = n
  BY <1>1, FS_Interval
<1>8. s \in Surjection(1 .. n, S)
  BY <1>6, <1>7, FS_Injection
<1>9. Range(s) = S
  BY <1>4, <1>8 DEF Surjection, Range
<1> QED BY <1>4, <1>5, <1>9 DEF IsInjective

-----------------------------------------------------------------------------
(* The wire.  A replay's frames precede its marker; the frames behind the  *)
(* marker, or all where the client waits for none, are live.               *)

\* The completion marker is on the wire.
Ended(w) == \E k \in DOMAIN w : w[k].type = "replay"

\* hello is yet to be read.
Greets(w) == w # <<>> /\ w[1].type = "hello"

\* The marker is ahead of i.
Past(w, i) == \E k \in 1 .. i - 1 : w[k].type = "replay"

\* A frame at i that is live, if the client buffers until the marker.
Live(w, buf, i) == w[i].type = "event" /\ (buf => Past(w, i))

\* The live frames on the wire, and those that wait for the marker.
Flying(w, buf) == {w[i].frame : i \in {j \in DOMAIN w : Live(w, buf, j)}}

\* ... and those that wait for the marker.
Waiting(w, buf) == {w[i].frame : i \in {j \in DOMAIN w : w[j].type = "event" /\ ~Live(w, buf, j)}}

\* hello comes first, and one marker at most.
Framed(w) ==
    /\ \A i \in DOMAIN w : w[i].type = "hello" => i = 1
    /\ \A i, j \in DOMAIN w : w[i].type = "replay" /\ w[j].type = "replay" => i = j

\* A live frame's number is below those of the channel's frames behind it, marks
\* excepted.
Rising(w, buf) ==
    \A i, j \in DOMAIN w :
       /\ i < j /\ Live(w, buf, i) /\ w[j].type = "event"
       /\ w[i].frame.channel = w[j].frame.channel /\ w[j].frame.kind # "mark"
       => w[i].frame.seq < w[j].frame.seq

\* Frames as the wire carries them.
Post(frames) == [i \in DOMAIN frames |-> [type |-> "event", frame |-> frames[i]]]

\* The completion marker, as WriteDone writes it.
Marker == [type |-> "replay"]

\* What the server sends is a hello, an event or a marker.
LEMMA DownwardKinds ==
  ASSUME NEW m \in Downward
  PROVE  /\ m.type \in {"hello", "event", "replay"}
         /\ m.type = "event" => m.frame \in Frames
         /\ m.type = "hello" => m.launch \in 1 .. MaxLaunches /\ m.baseline \in [Channels -> Nat]
BY DEF Downward

\* Posted frames are of the wire.
LEMMA PostType ==
  ASSUME NEW fs \in Seq(Frames)
  PROVE  /\ Post(fs) \in Seq(Downward) /\ Len(Post(fs)) = Len(fs)
         /\ DOMAIN fs = 1 .. Len(fs) /\ Len(fs) \in Nat
         /\ \A i \in 1 .. Len(fs) : Post(fs)[i] = [type |-> "event", frame |-> fs[i]]
<1> DEFINE p == Post(fs)
<1>1. DOMAIN fs = 1 .. Len(fs) /\ Len(fs) \in Nat /\ \A i \in 1 .. Len(fs) : fs[i] \in Frames
  BY LenProperties, ElementOfSeq
<1>2. \A i \in 1 .. Len(fs) : p[i] = [type |-> "event", frame |-> fs[i]] /\ p[i] \in Downward
  BY <1>1 DEF Post, Downward
<1>3. p \in [1 .. Len(fs) -> Downward]
  BY <1>1, <1>2 DEF Post
<1>4. p \in Seq(Downward) /\ Len(p) = Len(fs)
  <2> DEFINE k == Len(fs)
  <2> HIDE DEF p, k
  <2>1. p \in [1 .. k -> Downward] /\ k \in Nat
    BY <1>1, <1>3 DEF k
  <2>2. p \in Seq(Downward)
    BY <2>1, SeqDef
  <2>3. DOMAIN p = 1 .. Len(p) /\ Len(p) \in Nat
    BY <2>2, LenProperties
  <2>4. DOMAIN p = 1 .. k
    BY <2>1
  <2>5. Len(p) = k
    BY <2>1, <2>3, <2>4
  <2> QED BY <2>2, <2>5 DEF k
<1> QED BY <1>1, <1>2, <1>4

\* What is on the wire once frames were posted.
LEMMA Posted ==
  ASSUME NEW w \in Seq(Downward), NEW fs \in Seq(Frames)
  PROVE  LET n == Len(w)
             k == Len(fs)
             v == w \o Post(fs)
         IN /\ v \in Seq(Downward) /\ n \in Nat /\ k \in Nat
            /\ DOMAIN w = 1 .. n /\ DOMAIN v = 1 .. n + k /\ DOMAIN fs = 1 .. k
            /\ \A i \in 1 .. n : v[i] = w[i]
            /\ \A i \in 1 .. k : v[n + i].type = "event" /\ v[n + i].frame = fs[i]
<1> DEFINE p == Post(fs)
<1>1. DOMAIN fs = 1 .. Len(fs) /\ Len(fs) \in Nat
  BY LenProperties
<1>2. \A i \in 1 .. Len(fs) : p[i] = [type |-> "event", frame |-> fs[i]]
  BY PostType
<1>4. p \in Seq(Downward) /\ Len(p) = Len(fs)
  BY PostType
<1> HIDE DEF p
<1>5. /\ w \o p \in Seq(Downward) /\ Len(w) \in Nat
      /\ DOMAIN w = 1 .. Len(w) /\ DOMAIN (w \o p) = 1 .. Len(w) + Len(fs)
      /\ \A i \in 1 .. Len(w) : (w \o p)[i] = w[i]
      /\ \A i \in 1 .. Len(fs) : (w \o p)[Len(w) + i] = p[i]
  <2>1. /\ w \o p \in Seq(Downward) /\ Len(w) \in Nat
        /\ DOMAIN w = 1 .. Len(w) /\ DOMAIN p = 1 .. Len(p)
        /\ DOMAIN (w \o p) = 1 .. Len(w) + Len(p)
        /\ \A i \in 1 .. Len(w) : (w \o p)[i] = w[i]
        /\ \A i \in 1 .. Len(p) : (w \o p)[Len(w) + i] = p[i]
    <3>1. p \in Seq(Downward)
      BY <1>4
    <3> QED BY <3>1, JoinFacts
  <2>2. Len(p) = Len(fs)
    BY <1>4
  <2> QED BY <2>1, <2>2
<1>6. \A i \in 1 .. Len(fs) : (w \o p)[Len(w) + i].type = "event" /\ (w \o p)[Len(w) + i].frame = fs[i]
  <2> SUFFICES ASSUME NEW i \in 1 .. Len(fs)
               PROVE  (w \o p)[Len(w) + i].type = "event" /\ (w \o p)[Len(w) + i].frame = fs[i]
    OBVIOUS
  <2>1. (w \o p)[Len(w) + i] = p[i] /\ p[i] = [type |-> "event", frame |-> fs[i]]
    BY <1>2, <1>5
  <2> QED BY <2>1
<1> QED BY <1>1, <1>5, <1>6 DEF p

\* Frames written behind the wire's end are live unless the marker is still due.
LEMMA LiveJoin ==
  ASSUME NEW w \in Seq(Downward), NEW fs \in Seq(Frames), NEW buf \in BOOLEAN
  PROVE  LET n == Len(w)
             v == w \o Post(fs)
         IN /\ \A i \in 1 .. n : Live(v, buf, i) <=> Live(w, buf, i)
            /\ \A i \in 1 .. Len(fs) : Live(v, buf, n + i) <=> ~(buf /\ ~Ended(w))
<1> DEFINE n == Len(w)
           k == Len(fs)
           v == w \o Post(fs)
           due == buf /\ ~Ended(w)
<1>1. /\ v \in Seq(Downward) /\ n \in Nat /\ k \in Nat
      /\ DOMAIN w = 1 .. n /\ DOMAIN v = 1 .. n + k /\ DOMAIN fs = 1 .. k
      /\ \A i \in 1 .. n : v[i] = w[i]
      /\ \A i \in 1 .. k : v[n + i].type = "event" /\ v[n + i].frame = fs[i]
  BY Posted
<1> HIDE DEF n, k, v
<1>2. ASSUME NEW i \in 1 .. n
      PROVE  Live(v, buf, i) <=> Live(w, buf, i)
  <2>1. \A m \in 1 .. i - 1 : m \in 1 .. n
    BY <1>1
  <2> QED BY <1>1, <2>1 DEF Live, Past
<1>3. ASSUME NEW i \in 1 .. k
      PROVE  Live(v, buf, n + i) <=> ~due
  <2>1. v[n + i].type = "event"
    BY <1>1
  <2>2. Past(v, n + i) <=> Ended(w)
    <3>1. ASSUME NEW m \in 1 .. (n + i) - 1, v[m].type = "replay"
          PROVE  Ended(w)
      <4>1. CASE m \in 1 .. n
        BY <1>1, <3>1, <4>1 DEF Ended
      <4>2. CASE m \notin 1 .. n
        <5>1. m - n \in 1 .. k /\ n + (m - n) = m
          BY <1>1, <4>2
        <5>2. v[m].type = "event"
          BY <1>1, <5>1
        <5> QED BY <3>1, <5>2
      <4> QED BY <4>1, <4>2
    <3>2. ASSUME NEW m \in 1 .. n, w[m].type = "replay"
          PROVE  m \in 1 .. (n + i) - 1 /\ v[m].type = "replay"
      <4>1. m \in 1 .. (n + i) - 1
        BY <1>1
      <4>2. v[m] = w[m]
        BY <1>1
      <4> QED BY <3>2, <4>1, <4>2
    <3>3. Ended(w) => \E m \in 1 .. n : w[m].type = "replay"
      BY <1>1 DEF Ended
    <3>4. Ended(w) => \E m \in 1 .. (n + i) - 1 : v[m].type = "replay"
      BY <3>2, <3>3
    <3>5. (\E m \in 1 .. (n + i) - 1 : v[m].type = "replay") <=> Ended(w)
      BY <3>1, <3>4
    <3> QED BY <3>5 DEF Past
  <2> QED BY <2>1, <2>2 DEF Live
<1> HIDE DEF due
<1> QED BY <1>2, <1>3 DEF n, k, v, due

\* ... so what is in flight grows by them.
LEMMA FlyingJoin ==
  ASSUME NEW w \in Seq(Downward), NEW fs \in Seq(Frames), NEW buf \in BOOLEAN
  PROVE  LET v == w \o Post(fs)
             due == buf /\ ~Ended(w)
         IN /\ Flying(v, buf) = Flying(w, buf) \union (IF due THEN {} ELSE Range(fs))
            /\ Waiting(v, buf) = Waiting(w, buf) \union (IF due THEN Range(fs) ELSE {})
            /\ Ended(v) <=> Ended(w)
            /\ w # <<>> => Greets(v) = Greets(w) /\ v[1] = w[1]
            /\ Framed(w) => Framed(v)
            /\ v = <<>> => w = <<>>
<1> DEFINE n == Len(w)
           k == Len(fs)
           v == w \o Post(fs)
           due == buf /\ ~Ended(w)
<1>1. /\ v \in Seq(Downward) /\ n \in Nat /\ k \in Nat
      /\ DOMAIN w = 1 .. n /\ DOMAIN v = 1 .. n + k /\ DOMAIN fs = 1 .. k
      /\ \A i \in 1 .. n : v[i] = w[i]
      /\ \A i \in 1 .. k : v[n + i].type = "event" /\ v[n + i].frame = fs[i]
  BY Posted
<1>2. (w # <<>> => n > 0) /\ (v = <<>> => n + k = 0) /\ (n = 0 => w = <<>>) /\ (v # <<>> => n + k > 0)
  <2>1. Len(v) = n + k
    BY <1>1, LenProperties
  <2>2. (w # <<>> => n # 0) /\ (v # <<>> => n + k # 0)
    BY <1>1, <2>1, EmptySeq
  <2>3. Len(<<>>) = 0
    BY EmptySeq
  <2>4. n = 0 => w = <<>>
    BY <1>1, EmptySeq, SeqEqual, <2>3
  <2> HIDE DEF v
  <2>5. v = <<>> => Len(v) = 0
    BY <2>3
  <2> QED BY <1>1, <2>1, <2>2, <2>4, <2>5
<1> HIDE DEF n, k, v
<1>3. \A i \in 1 .. n : Live(v, buf, i) <=> Live(w, buf, i)
  BY LiveJoin DEF n, v
<1>4. \A i \in 1 .. k : Live(v, buf, n + i) <=> ~due
  BY LiveJoin DEF n, k, v
<1>5. \A i \in 1 .. n + k : i \in 1 .. n \/ \E j \in 1 .. k : i = n + j
  <2> SUFFICES ASSUME NEW i \in 1 .. n + k, i \notin 1 .. n
               PROVE  \E j \in 1 .. k : i = n + j
    OBVIOUS
  <2>1. i - n \in 1 .. k /\ i = n + (i - n)
    BY <1>1
  <2> QED BY <2>1
<1>6. /\ \A i \in 1 .. n : i \in 1 .. n + k
      /\ \A i \in 1 .. k : n + i \in 1 .. n + k
  BY <1>1
<1> HIDE DEF due
<1>7. Flying(v, buf) = Flying(w, buf) \union (IF due THEN {} ELSE Range(fs))
  <2>1. ASSUME NEW i \in 1 .. n + k, Live(v, buf, i)
        PROVE  v[i].frame \in Flying(w, buf) \union (IF due THEN {} ELSE Range(fs))
    <3>1. CASE i \in 1 .. n
      BY <1>1, <1>3, <2>1, <3>1 DEF Flying
    <3>2. CASE i \notin 1 .. n
      <4>1. PICK j \in 1 .. k : i = n + j
        BY <1>5, <3>2
      <4> QED BY <1>1, <1>4, <2>1, <4>1 DEF Range
    <3> QED BY <3>1, <3>2
  <2>2. ASSUME NEW i \in 1 .. n, Live(w, buf, i)
        PROVE  w[i].frame \in Flying(v, buf)
    BY <1>1, <1>3, <1>6, <2>2 DEF Flying
  <2>3. ASSUME NEW i \in 1 .. k, ~due
        PROVE  fs[i] \in Flying(v, buf)
    BY <1>1, <1>4, <1>6, <2>3 DEF Flying
  <2>4. Flying(v, buf) \subseteq Flying(w, buf) \union (IF due THEN {} ELSE Range(fs))
    BY <1>1, <2>1 DEF Flying
  <2>5. Flying(w, buf) \subseteq Flying(v, buf)
    BY <1>1, <2>2 DEF Flying
  <2>6. ~due => Range(fs) \subseteq Flying(v, buf)
    BY <1>1, <2>3 DEF Range
  <2> QED BY <2>4, <2>5, <2>6
<1>8. Waiting(v, buf) = Waiting(w, buf) \union (IF due THEN Range(fs) ELSE {})
  <2>1. ASSUME NEW i \in 1 .. n + k, v[i].type = "event", ~Live(v, buf, i)
        PROVE  v[i].frame \in Waiting(w, buf) \union (IF due THEN Range(fs) ELSE {})
    <3>1. CASE i \in 1 .. n
      BY <1>1, <1>3, <2>1, <3>1 DEF Waiting
    <3>2. CASE i \notin 1 .. n
      <4>1. PICK j \in 1 .. k : i = n + j
        BY <1>5, <3>2
      <4> QED BY <1>1, <1>4, <2>1, <4>1 DEF Range
    <3> QED BY <3>1, <3>2
  <2>2. ASSUME NEW i \in 1 .. n, w[i].type = "event", ~Live(w, buf, i)
        PROVE  w[i].frame \in Waiting(v, buf)
    BY <1>1, <1>3, <1>6, <2>2 DEF Waiting
  <2>3. ASSUME NEW i \in 1 .. k, due
        PROVE  fs[i] \in Waiting(v, buf)
    BY <1>1, <1>4, <1>6, <2>3 DEF Waiting
  <2>4. Waiting(v, buf) \subseteq Waiting(w, buf) \union (IF due THEN Range(fs) ELSE {})
    BY <1>1, <2>1 DEF Waiting
  <2>5. Waiting(w, buf) \subseteq Waiting(v, buf)
    BY <1>1, <2>2 DEF Waiting
  <2>6. due => Range(fs) \subseteq Waiting(v, buf)
    BY <1>1, <2>3 DEF Range
  <2> QED BY <2>4, <2>5, <2>6
<1>9. Ended(v) <=> Ended(w)
  <2>1. ASSUME NEW i \in 1 .. n + k, v[i].type = "replay"
        PROVE  i \in 1 .. n /\ w[i].type = "replay"
    BY <1>1, <1>5, <2>1
  <2> QED BY <1>1, <1>6, <2>1 DEF Ended
<1>10. w # <<>> => Greets(v) = Greets(w) /\ v[1] = w[1]
  <2> SUFFICES ASSUME w # <<>> PROVE Greets(v) = Greets(w) /\ v[1] = w[1]
    OBVIOUS
  <2>1. 1 \in 1 .. n /\ v # <<>>
    BY <1>1, <1>2
  <2>2. v[1] = w[1]
    BY <1>1, <2>1
  <2> QED BY <2>1, <2>2 DEF Greets
<1>11. ASSUME Framed(w)
       PROVE  Framed(v)
  <2>1. \A i \in 1 .. n + k : v[i].type # "event" => i \in 1 .. n /\ v[i] = w[i]
    BY <1>1, <1>5
  <2>2. \A i \in DOMAIN v : v[i].type = "hello" => i = 1
    BY <1>1, <1>11, <2>1 DEF Framed
  <2>3. ASSUME NEW i \in DOMAIN v, NEW j \in DOMAIN v, v[i].type = "replay", v[j].type = "replay"
        PROVE  i = j
    <3>1. i \in DOMAIN w /\ j \in DOMAIN w /\ w[i].type = "replay" /\ w[j].type = "replay"
      BY <1>1, <2>1, <2>3
    <3> QED BY <1>11, <3>1 DEF Framed
  <2> QED BY <2>2, <2>3 DEF Framed
<1>12. v = <<>> => w = <<>>
  BY <1>1, <1>2
<1> QED BY <1>7, <1>8, <1>9, <1>10, <1>11, <1>12 DEF v, due

\* The client reads the head of the wire.
LEMMA FlyingTail ==
  ASSUME NEW w \in Seq(Downward), w # <<>>, NEW buf \in BOOLEAN, Framed(w)
  PROVE  /\ w[1].type = "hello" =>
              /\ Flying(Tail(w), buf) = Flying(w, buf) /\ Waiting(Tail(w), buf) = Waiting(w, buf)
              /\ Ended(Tail(w)) <=> Ended(w)
         /\ w[1].type = "event" =>
              /\ ~buf => /\ Flying(w, buf) = Flying(Tail(w), buf) \union {w[1].frame}
                         /\ Waiting(w, buf) = {} /\ Waiting(Tail(w), buf) = {}
              /\ buf => /\ Waiting(w, buf) = Waiting(Tail(w), buf) \union {w[1].frame}
                        /\ Flying(w, buf) = Flying(Tail(w), buf)
              /\ Ended(Tail(w)) <=> Ended(w)
              /\ Rising(w, FALSE) => \A f \in Flying(Tail(w), FALSE) :
                    f.channel = w[1].frame.channel /\ f.kind # "mark" => w[1].frame.seq < f.seq
         /\ w[1].type = "replay" =>
              /\ Flying(Tail(w), FALSE) = Flying(w, buf) /\ Waiting(Tail(w), FALSE) = {}
              /\ Waiting(w, buf) = {}
              /\ ~Ended(Tail(w)) /\ Ended(w)
         /\ ~Greets(Tail(w)) /\ Framed(Tail(w))
         /\ Greets(w) <=> w[1].type = "hello"
<1> DEFINE n == Len(w)
           t == Tail(w)
           First == IF Live(w, buf, 1) THEN {w[1].frame} ELSE {}
           Second == IF w[1].type = "event" /\ ~Live(w, buf, 1) THEN {w[1].frame} ELSE {}
<1>1. /\ n \in Nat /\ n > 0 /\ DOMAIN w = 1 .. n /\ DOMAIN t = 1 .. n - 1
      /\ \A i \in 1 .. n - 1 : t[i] = w[i + 1]
      /\ t \in Seq(Downward)
  BY TailFacts
<1>2. \A i \in 1 .. n : w[i] \in Downward /\ w[i].type \in {"hello", "event", "replay"}
  BY ElementOfSeq, DownwardKinds
<1>3. t = <<>> \/ 1 \in 1 .. n - 1
  <2>1. Len(t) = n - 1 /\ (t # <<>> => Len(t) # 0)
    BY <1>1, TailFacts, EmptySeq
  <2> QED BY <1>1, <2>1
<1> HIDE DEF n, t
<1>4. /\ \A i \in 1 .. n - 1 : i + 1 \in 1 .. n /\ i + 1 # 1
      /\ \A i \in 1 .. n : i # 1 => i - 1 \in 1 .. n - 1 /\ i - 1 + 1 = i /\ t[i - 1] = w[i]
  BY <1>1
<1>5. ASSUME NEW i \in 1 .. n - 1
      PROVE  (\E k \in 1 .. i : w[k].type = "replay")
               <=> w[1].type = "replay" \/ \E k \in 1 .. i - 1 : t[k].type = "replay"
  <2>1. ASSUME NEW k \in 1 .. i, k # 1
        PROVE  k - 1 \in 1 .. i - 1 /\ t[k - 1] = w[k]
    BY <1>1, <1>4, <2>1
  <2>2. ASSUME NEW k \in 1 .. i - 1
        PROVE  k + 1 \in 1 .. i /\ t[k] = w[k + 1]
    BY <1>1
  <2>3. 1 \in 1 .. i
    BY <1>1
  <2>4. ASSUME NEW k \in 1 .. i, w[k].type = "replay", w[1].type # "replay"
        PROVE  \E j \in 1 .. i - 1 : t[j].type = "replay"
    <3>1. k # 1
      BY <2>4
    <3> QED BY <2>1, <2>4, <3>1
  <2>5. ASSUME NEW k \in 1 .. i - 1, t[k].type = "replay"
        PROVE  \E j \in 1 .. i : w[j].type = "replay"
    BY <2>2, <2>5
  <2> QED BY <2>3, <2>4, <2>5
<1>6. \A i \in 1 .. n - 1 : (i + 1) - 1 = i
  BY <1>1
<1>7. \A i \in 1 .. n - 1 : /\ w[1].type # "replay" => (Live(w, buf, i + 1) <=> Live(t, buf, i))
                            /\ w[1].type = "replay" => (Live(w, buf, i + 1) <=> Live(t, FALSE, i))
  BY <1>1, <1>5, <1>6 DEF Live, Past
<1>8. Live(w, buf, 1) <=> w[1].type = "event" /\ ~buf
  BY DEF Live, Past
<1>9. ASSUME NEW tbuf \in BOOLEAN, \A i \in 1 .. n - 1 : Live(w, buf, i + 1) <=> Live(t, tbuf, i)
      PROVE  /\ Flying(w, buf) = Flying(t, tbuf) \union First
             /\ Waiting(w, buf) = Waiting(t, tbuf) \union Second
  <2>0. 1 \in 1 .. n
    BY <1>1
  <2>1. ASSUME NEW i \in 1 .. n - 1
        PROVE  /\ Live(t, tbuf, i) => t[i].frame \in Flying(w, buf)
               /\ t[i].type = "event" /\ ~Live(t, tbuf, i) => t[i].frame \in Waiting(w, buf)
    BY <1>1, <1>4, <1>9 DEF Flying, Waiting
  <2>2. ASSUME NEW i \in 1 .. n, i # 1
        PROVE  /\ Live(w, buf, i) => w[i].frame \in Flying(t, tbuf)
               /\ w[i].type = "event" /\ ~Live(w, buf, i) => w[i].frame \in Waiting(t, tbuf)
    <3>1. i - 1 \in 1 .. n - 1 /\ i - 1 + 1 = i /\ t[i - 1] = w[i]
      BY <1>4, <2>2
    <3>2. Live(w, buf, i) <=> Live(t, tbuf, i - 1)
      BY <1>9, <3>1
    <3> QED BY <1>1, <3>1, <3>2 DEF Flying, Waiting
  <2>3. Flying(t, tbuf) \subseteq Flying(w, buf) /\ Waiting(t, tbuf) \subseteq Waiting(w, buf)
    BY <1>1, <2>1 DEF Flying, Waiting
  <2>4. First \subseteq Flying(w, buf)
    BY <1>1, <2>0 DEF Flying
  <2>5. Second \subseteq Waiting(w, buf)
    BY <1>1, <2>0 DEF Waiting
  <2>6. Flying(w, buf) \subseteq Flying(t, tbuf) \union First
    BY <1>1, <2>2 DEF Flying
  <2>7. Waiting(w, buf) \subseteq Waiting(t, tbuf) \union Second
    BY <1>1, <2>2 DEF Waiting
  <2> QED BY <2>3, <2>4, <2>5, <2>6, <2>7
<1>10. w[1].type # "replay" => (Ended(t) <=> Ended(w))
  <2> SUFFICES ASSUME w[1].type # "replay" PROVE Ended(t) <=> Ended(w)
    OBVIOUS
  <2>1. ASSUME NEW k \in 1 .. n, w[k].type = "replay"
        PROVE  \E i \in 1 .. n - 1 : t[i].type = "replay"
    BY <1>4, <2>1
  <2>2. ASSUME NEW k \in 1 .. n - 1, t[k].type = "replay"
        PROVE  \E i \in 1 .. n : w[i].type = "replay"
    BY <1>1, <1>4, <2>2
  <2> QED BY <1>1, <2>1, <2>2 DEF Ended
<1>11. w[1].type = "replay" => ~Ended(t) /\ Ended(w)
  <2>1. 1 \in 1 .. n
    BY <1>1
  <2>2. ASSUME w[1].type = "replay", NEW k \in 1 .. n - 1, t[k].type = "replay"
        PROVE  FALSE
    <3>1. k + 1 \in DOMAIN w /\ 1 \in DOMAIN w /\ k + 1 # 1 /\ w[k + 1].type = "replay"
      BY <1>1, <2>2
    <3> QED BY <2>2, <3>1 DEF Framed
  <2> QED BY <1>1, <2>1, <2>2 DEF Ended
<1>12. /\ ~Greets(t) /\ Framed(t)
       /\ Greets(w) <=> w[1].type = "hello"
  <2>1. ASSUME NEW i \in 1 .. n - 1
        PROVE  t[i].type # "hello"
    <3>1. i + 1 \in DOMAIN w /\ i + 1 # 1 /\ t[i] = w[i + 1]
      BY <1>1, <1>4
    <3> QED BY <3>1 DEF Framed
  <2>2. \A i, j \in 1 .. n - 1 : t[i].type = "replay" /\ t[j].type = "replay" => i = j
    <3> SUFFICES ASSUME NEW i \in 1 .. n - 1, NEW j \in 1 .. n - 1,
                        t[i].type = "replay", t[j].type = "replay"
                 PROVE  i = j
      OBVIOUS
    <3>1. i + 1 \in DOMAIN w /\ j + 1 \in DOMAIN w /\ w[i + 1].type = "replay" /\ w[j + 1].type = "replay"
      BY <1>1
    <3>2. i + 1 = j + 1
      BY <3>1 DEF Framed
    <3> QED BY <1>1, <3>2
  <2>3. Framed(t)
    BY <1>1, <2>1, <2>2 DEF Framed
  <2>4. ~Greets(t)
    BY <1>3, <2>1 DEF Greets
  <2> QED BY <2>3, <2>4 DEF Greets
<1>13. ASSUME w[1].type = "event", Rising(w, FALSE), NEW f \in Flying(t, FALSE),
              f.channel = w[1].frame.channel, f.kind # "mark"
       PROVE  w[1].frame.seq < f.seq
  <2>1. PICK i \in 1 .. n - 1 : t[i].type = "event" /\ f = t[i].frame
    BY <1>1 DEF Flying, Live
  <2>2. 1 \in DOMAIN w /\ i + 1 \in DOMAIN w /\ 1 < i + 1 /\ w[i + 1] = t[i]
    BY <1>1
  <2>3. Live(w, FALSE, 1)
    BY <1>13 DEF Live
  <2> QED BY <1>13, <2>1, <2>2, <2>3 DEF Rising
<1> DEFINE tbuf == IF w[1].type = "replay" THEN FALSE ELSE buf
<1>14. /\ Flying(w, buf) = Flying(t, tbuf) \union First
       /\ Waiting(w, buf) = Waiting(t, tbuf) \union Second
  <2>1. tbuf \in BOOLEAN /\ \A i \in 1 .. n - 1 : Live(w, buf, i + 1) <=> Live(t, tbuf, i)
    BY <1>7
  <2> HIDE DEF tbuf, First, Second
  <2> QED BY <1>9, <2>1
<1>15. /\ w[1].type = "event" /\ ~buf => First = {w[1].frame} /\ Second = {}
       /\ w[1].type = "event" /\ buf => First = {} /\ Second = {w[1].frame}
       /\ w[1].type # "event" => First = {} /\ Second = {}
  BY <1>8
<1>16. Waiting(t, FALSE) = {} /\ Waiting(w, FALSE) = {}
  BY DEF Waiting, Live
<1>17. /\ w[1].type = "replay" => tbuf = FALSE
       /\ w[1].type # "replay" => tbuf = buf
  OBVIOUS
<1> HIDE DEF First, Second, tbuf
<1>18. w[1].type = "replay" => Waiting(w, buf) = {}
  BY <1>14, <1>15, <1>16, <1>17
<1>19. w[1].type = "event" /\ ~buf => Waiting(w, buf) = {} /\ Waiting(t, buf) = {}
  BY <1>16
<1>20. w[1].type = "hello" => Flying(t, buf) = Flying(w, buf) /\ Waiting(t, buf) = Waiting(w, buf)
  BY <1>14, <1>15, <1>17
<1> QED BY <1>10, <1>11, <1>12, <1>13, <1>14, <1>15, <1>16, <1>17, <1>18, <1>19, <1>20 DEF t

\* ... and what is left of the wire rises as before.
LEMMA RisingTail ==
  ASSUME NEW w \in Seq(Downward), w # <<>>, NEW buf \in BOOLEAN, Rising(w, buf),
         NEW now \in BOOLEAN, now = buf \/ w[1].type = "replay"
  PROVE  Rising(Tail(w), now)
<1> DEFINE n == Len(w)
           t == Tail(w)
<1>1. /\ n \in Nat /\ n > 0 /\ DOMAIN w = 1 .. n /\ DOMAIN t = 1 .. n - 1
      /\ \A i \in 1 .. n - 1 : t[i] = w[i + 1]
  BY TailFacts
<1> HIDE DEF n, t
<1> SUFFICES ASSUME NEW i \in 1 .. n - 1, NEW j \in 1 .. n - 1, i < j, Live(t, now, i),
                    t[j].type = "event", t[i].frame.channel = t[j].frame.channel,
                    t[j].frame.kind # "mark"
             PROVE  t[i].frame.seq < t[j].frame.seq
  BY <1>1 DEF Rising, t
<1>2. i + 1 < j + 1 /\ i + 1 \in DOMAIN w /\ j + 1 \in DOMAIN w /\ t[i] = w[i + 1] /\ t[j] = w[j + 1]
  BY <1>1
<1>3. Live(w, buf, i + 1)
  <2>1. t[i].type = "event"
    BY DEF Live
  <2>2. CASE ~buf
    BY <1>2, <2>1, <2>2 DEF Live
  <2>3. CASE w[1].type = "replay"
    <3>1. 1 \in 1 .. (i + 1) - 1
      BY <1>1
    <3>2. Past(w, i + 1)
      BY <2>3, <3>1 DEF Past
    <3> QED BY <1>2, <2>1, <3>2 DEF Live
  <2>4. CASE buf /\ now
    <3>1. PICK k \in 1 .. i - 1 : t[k].type = "replay"
      BY <2>4 DEF Live, Past
    <3>2. k + 1 \in 1 .. (i + 1) - 1 /\ w[k + 1] = t[k]
      BY <1>1, <3>1
    <3>3. Past(w, i + 1)
      BY <3>1, <3>2 DEF Past
    <3> QED BY <1>2, <2>1, <3>3 DEF Live
  <2> QED BY <2>2, <2>3, <2>4
<1> QED BY <1>2, <1>3 DEF Rising

\* The frames of a channel go on ascending if the new ones do, and lie above those
\* in flight.
LEMMA RisingJoin ==
  ASSUME NEW w \in Seq(Downward), NEW fs \in Seq(Frames), NEW buf \in BOOLEAN,
         Rising(w, buf),
         \A g \in Flying(w, buf) : \A i \in DOMAIN fs :
            fs[i].kind # "mark" /\ fs[i].channel = g.channel => g.seq < fs[i].seq,
         (buf /\ ~Ended(w)) \/ \A i \in DOMAIN fs : fs[i].kind # "mark" => i = 1
  PROVE  Rising(w \o Post(fs), buf)
<1> DEFINE n == Len(w)
           k == Len(fs)
           v == w \o Post(fs)
<1>1. /\ n \in Nat /\ k \in Nat
      /\ DOMAIN w = 1 .. n /\ DOMAIN v = 1 .. n + k /\ DOMAIN fs = 1 .. k
      /\ \A i \in 1 .. n : v[i] = w[i]
      /\ \A i \in 1 .. k : v[n + i].type = "event" /\ v[n + i].frame = fs[i]
  BY Posted
<1>2. /\ \A i \in 1 .. n : Live(v, buf, i) <=> Live(w, buf, i)
      /\ \A i \in 1 .. k : Live(v, buf, n + i) <=> ~(buf /\ ~Ended(w))
  BY LiveJoin
<1> HIDE DEF n, k, v
<1> SUFFICES ASSUME NEW i \in 1 .. n + k, NEW j \in 1 .. n + k, i < j, Live(v, buf, i),
                    v[j].type = "event", v[i].frame.channel = v[j].frame.channel,
                    v[j].frame.kind # "mark"
             PROVE  v[i].frame.seq < v[j].frame.seq
  BY <1>1 DEF Rising, v
<1>3. CASE j \in 1 .. n
  <2>1. i \in 1 .. n
    BY <1>1, <1>3
  <2> QED BY <1>1, <1>2, <1>3, <2>1 DEF Rising
<1>4. CASE j \notin 1 .. n
  <2>1. PICK b \in 1 .. k : j = n + b
    <3>1. j - n \in 1 .. k /\ j = n + (j - n)
      BY <1>1, <1>4
    <3> QED BY <3>1
  <2>2. v[j].frame = fs[b] /\ b \in DOMAIN fs
    BY <1>1, <2>1
  <2>3. CASE i \in 1 .. n
    <3>1. w[i].frame \in Flying(w, buf) /\ v[i] = w[i]
      BY <1>1, <1>2, <2>3 DEF Flying
    <3> QED BY <2>2, <3>1
  <2>4. CASE i \notin 1 .. n
    <3>1. PICK a \in 1 .. k : i = n + a
      <4>1. i - n \in 1 .. k /\ i = n + (i - n)
        BY <1>1, <2>4
      <4> QED BY <4>1
    <3>2. ~(buf /\ ~Ended(w))
      BY <1>2, <3>1
    <3>3. b = 1
      BY <2>2, <3>2
    <3> QED BY <1>1, <2>1, <3>1, <3>3
  <2> QED BY <2>3, <2>4
<1> QED BY <1>3, <1>4

\* The completion marker changes nothing of what is ahead of it.
LEMMA MarkerJoin ==
  ASSUME NEW w \in Seq(Downward), NEW buf \in BOOLEAN
  PROVE  LET v == Append(w, Marker)
         IN /\ v \in Seq(Downward) /\ v # <<>> /\ Ended(v)
            /\ Flying(v, buf) = Flying(w, buf) /\ Waiting(v, buf) = Waiting(w, buf)
            /\ Rising(w, buf) => Rising(v, buf)
            /\ Framed(w) /\ ~Ended(w) => Framed(v)
            /\ w # <<>> => Greets(v) = Greets(w) /\ v[1] = w[1]
            /\ w = <<>> => ~Greets(v)
<1> DEFINE n == Len(w)
           v == Append(w, Marker)
<1>1. Marker \in Downward /\ Marker.type = "replay"
  BY DEF Marker, Downward
<1>2. /\ v \in Seq(Downward) /\ n \in Nat /\ DOMAIN w = 1 .. n /\ DOMAIN v = 1 .. n + 1
      /\ \A i \in 1 .. n : v[i] = w[i]
      /\ v[n + 1].type = "replay" /\ Len(v) = n + 1 /\ (w # <<>> => n # 0) /\ (w = <<>> => n = 0)
  <2>1. /\ v \in Seq(Downward) /\ Len(v) = n + 1 /\ v[n + 1] = Marker
        /\ \A i \in 1 .. n : v[i] = w[i]
    BY <1>1, AppendProperties
  <2>2. n \in Nat /\ DOMAIN w = 1 .. n /\ DOMAIN v = 1 .. Len(v)
    BY <2>1, LenProperties
  <2>3. (w # <<>> => n # 0) /\ (w = <<>> => n = 0)
    BY EmptySeq
  <2> QED BY <1>1, <2>1, <2>2, <2>3
<1> HIDE DEF n, v
<1>3. v # <<>>
  <2>1. n + 1 # 0 /\ Len(<<>>) = 0
    BY <1>2, EmptySeq
  <2> QED BY <1>2, <2>1
<1>4. Ended(v)
  <2>1. n + 1 \in 1 .. n + 1
    BY <1>2
  <2> QED BY <1>2, <2>1 DEF Ended
<1>5. ASSUME NEW i \in 1 .. n
      PROVE  i \in 1 .. n + 1 /\ (Live(v, buf, i) <=> Live(w, buf, i))
  <2>1. i \in 1 .. n + 1 /\ \A m \in 1 .. i - 1 : m \in 1 .. n
    BY <1>2
  <2> QED BY <1>2, <2>1 DEF Live, Past
<1>6. \A i \in 1 .. n + 1 : v[i].type # "replay" => i \in 1 .. n /\ v[i] = w[i]
  <2> SUFFICES ASSUME NEW i \in 1 .. n + 1, v[i].type # "replay"
               PROVE  i \in 1 .. n
    BY <1>2
  <2>1. i # n + 1
    BY <1>2
  <2> QED BY <1>2, <2>1
<1>7. Flying(v, buf) = Flying(w, buf)
  <2>1. \A i \in 1 .. n + 1 : Live(v, buf, i) => v[i].type = "event"
    BY DEF Live
  <2>2. Flying(v, buf) \subseteq Flying(w, buf)
    BY <1>2, <1>5, <1>6, <2>1 DEF Flying
  <2>3. Flying(w, buf) \subseteq Flying(v, buf)
    BY <1>2, <1>5 DEF Flying
  <2> QED BY <2>2, <2>3
<1>8. Waiting(v, buf) = Waiting(w, buf)
  <2>1. Waiting(v, buf) \subseteq Waiting(w, buf)
    BY <1>2, <1>5, <1>6 DEF Waiting
  <2>2. Waiting(w, buf) \subseteq Waiting(v, buf)
    BY <1>2, <1>5 DEF Waiting
  <2> QED BY <2>1, <2>2
<1>9. ASSUME Rising(w, buf) PROVE Rising(v, buf)
  <2> SUFFICES ASSUME NEW i \in 1 .. n + 1, NEW j \in 1 .. n + 1, i < j, Live(v, buf, i),
                      v[j].type = "event", v[i].frame.channel = v[j].frame.channel,
                      v[j].frame.kind # "mark"
               PROVE  v[i].frame.seq < v[j].frame.seq
    BY <1>2 DEF Rising
  <2>1. i \in 1 .. n /\ j \in 1 .. n
    BY <1>6 DEF Live
  <2> QED BY <1>2, <1>5, <1>9, <2>1 DEF Rising
<1>10. ASSUME Framed(w), ~Ended(w) PROVE Framed(v)
  <2>1. \A i \in 1 .. n : w[i].type # "replay"
    BY <1>2, <1>10 DEF Ended
  <2>2. \A i \in 1 .. n + 1 : v[i].type = "replay" => i \notin 1 .. n
    BY <1>2, <2>1
  <2>3. \A i \in 1 .. n + 1 : v[i].type = "replay" => i = n + 1
    BY <1>2, <2>2
  <2>4. \A i \in 1 .. n + 1 : v[i].type = "hello" => i = 1
    BY <1>2, <1>6, <1>10 DEF Framed
  <2>5. \A i, j \in 1 .. n + 1 : v[i].type = "replay" /\ v[j].type = "replay" => i = j
    BY <2>3
  <2> QED BY <1>2, <2>4, <2>5 DEF Framed
<1>11. w # <<>> => Greets(v) = Greets(w) /\ v[1] = w[1]
  <2>1. w # <<>> => 1 \in 1 .. n
    BY <1>2
  <2> QED BY <1>2, <1>3, <2>1 DEF Greets
<1>12. w = <<>> => ~Greets(v)
  BY <1>2 DEF Greets
<1> QED BY <1>2, <1>3, <1>4, <1>7, <1>8, <1>9, <1>10, <1>11, <1>12 DEF v

-----------------------------------------------------------------------------
(* The client's requests.                                                  *)

\* The replay requests among the client's frames.
Asks(u) == {u[i] : i \in {j \in DOMAIN u : u[j].type = "replay"}}

\* A watch set is stated among them.
States(u) == \E i \in DOMAIN u : u[i].type = "watch"

\* At most one replay is asked for.
Once(u) == \A i, j \in DOMAIN u : u[i].type = "replay" /\ u[j].type = "replay" => i = j

\* What the client sends is a watch set or a replay request.
LEMMA UpwardKinds ==
  ASSUME NEW m \in Upward
  PROVE  /\ m.type \in {"watch", "replay"}
         /\ m.type = "replay" => m.known \in BOOLEAN /\ m.from \in [Channels -> Nat]
BY DEF Upward

\* The read loop takes the first of the client's frames.
LEMMA RequestTail ==
  ASSUME NEW u \in Seq(Upward), u # <<>>, Once(u)
  PROVE  /\ u[1].type = "watch" => Asks(Tail(u)) = Asks(u) /\ States(u)
         /\ u[1].type = "replay" => Asks(Tail(u)) = {} /\ Asks(u) = {u[1]}
         /\ Once(Tail(u)) /\ (States(Tail(u)) => States(u))
<1> DEFINE n == Len(u)
           t == Tail(u)
<1>1. /\ n \in Nat /\ n > 0 /\ DOMAIN u = 1 .. n /\ DOMAIN t = 1 .. n - 1
      /\ \A i \in 1 .. n - 1 : t[i] = u[i + 1]
  BY TailFacts
<1> HIDE DEF n, t
<1>2. /\ \A i \in 1 .. n - 1 : i + 1 \in 1 .. n /\ i + 1 # 1
      /\ \A i \in 1 .. n : i # 1 => i - 1 \in 1 .. n - 1 /\ t[i - 1] = u[i]
      /\ 1 \in 1 .. n
      /\ \A i, j \in 1 .. n - 1 : i + 1 = j + 1 => i = j
  BY <1>1
<1>3. ASSUME NEW i \in 1 .. n - 1
      PROVE  i + 1 \in DOMAIN u /\ i + 1 # 1 /\ t[i] = u[i + 1]
  BY <1>1, <1>2
<1>4. ASSUME NEW i \in 1 .. n, i # 1
      PROVE  \E j \in DOMAIN t : t[j] = u[i]
  BY <1>1, <1>2, <1>4
<1>5. ASSUME NEW i \in 1 .. n - 1, t[i].type = "replay"
      PROVE  t[i] \in Asks(u) /\ u[1].type # "replay"
  <2>1. i + 1 \in DOMAIN u /\ i + 1 # 1 /\ u[i + 1].type = "replay" /\ t[i] = u[i + 1] /\ 1 \in DOMAIN u
    BY <1>1, <1>2, <1>3, <1>5
  <2> DEFINE j == i + 1
  <2> HIDE DEF j
  <2>2. j \in DOMAIN u /\ j # 1 /\ u[j].type = "replay" /\ t[i] = u[j] /\ 1 \in DOMAIN u
    BY <2>1 DEF j
  <2> QED BY <2>2 DEF Asks, Once
<1>6. ASSUME NEW i \in 1 .. n, u[i].type = "replay"
      PROVE  u[i] \in Asks(t) \/ (i = 1 /\ u[1].type = "replay")
  BY <1>4, <1>6 DEF Asks
<1>11. 1 \in DOMAIN u
  BY <1>1, <1>2
<1>12. u[1].type # "replay" => Asks(t) = Asks(u)
  <2>1. \A i \in DOMAIN t : t[i].type = "replay" => t[i] \in Asks(u)
    BY <1>1, <1>5
  <2>2. u[1].type # "replay" => \A i \in DOMAIN u : u[i].type = "replay" => u[i] \in Asks(t)
    BY <1>1, <1>6
  <2>3. Asks(t) \subseteq Asks(u)
    BY <2>1 DEF Asks
  <2>4. u[1].type # "replay" => Asks(u) \subseteq Asks(t)
    BY <2>2 DEF Asks
  <2> QED BY <2>3, <2>4
<1>13. u[1].type = "replay" => Asks(t) = {} /\ Asks(u) = {u[1]}
  <2> SUFFICES ASSUME u[1].type = "replay" PROVE Asks(t) = {} /\ Asks(u) = {u[1]}
    OBVIOUS
  <2>1. \A i \in DOMAIN t : t[i].type # "replay"
    BY <1>1, <1>5
  <2>2. Asks(t) = {}
    BY <2>1 DEF Asks
  <2>3. \A i \in DOMAIN u : u[i].type = "replay" => i = 1
    BY <1>11 DEF Once
  <2>4. Asks(u) = {u[1]}
    BY <1>11, <2>3 DEF Asks
  <2> QED BY <2>2, <2>4
<1>14. Once(t)
  <2> SUFFICES ASSUME NEW i \in 1 .. n - 1, NEW j \in 1 .. n - 1, t[i].type = "replay", t[j].type = "replay"
               PROVE  i = j
    BY <1>1 DEF Once
  <2>1. i + 1 = j + 1
    BY <1>3 DEF Once
  <2> QED BY <1>2, <2>1
<1>7. States(t) => States(u)
  <2>1. \A i \in DOMAIN t : i + 1 \in DOMAIN u /\ t[i] = u[i + 1]
    BY <1>1, <1>2
  <2> QED BY <2>1 DEF States
<1>8. u[1].type = "watch" => States(u)
  BY <1>1, <1>2 DEF States
<1> QED BY <1>7, <1>8, <1>12, <1>13, <1>14 DEF t

\* The client states a watch set.
LEMMA RequestAppend ==
  ASSUME NEW u \in Seq(Upward), Once(u), NEW m \in Upward, m.type = "watch"
  PROVE  /\ Append(u, m) \in Seq(Upward)
         /\ Asks(Append(u, m)) = Asks(u) /\ Once(Append(u, m))
<1> DEFINE n == Len(u)
           v == Append(u, m)
<1>1. /\ v \in Seq(Upward) /\ n \in Nat /\ DOMAIN u = 1 .. n /\ DOMAIN v = 1 .. n + 1
      /\ \A i \in 1 .. n : v[i] = u[i]
      /\ v[n + 1] = m
  <2>1. /\ v \in Seq(Upward) /\ Len(v) = n + 1 /\ v[n + 1] = m
        /\ \A i \in 1 .. n : v[i] = u[i]
    BY AppendProperties
  <2>2. n \in Nat /\ DOMAIN u = 1 .. n /\ DOMAIN v = 1 .. Len(v)
    BY <2>1, LenProperties
  <2> QED BY <2>1, <2>2
<1> HIDE DEF n, v
<1>2. \A i \in 1 .. n + 1 : v[i].type = "replay" => i \in 1 .. n
  <2> SUFFICES ASSUME NEW i \in 1 .. n + 1, v[i].type = "replay" PROVE i \in 1 .. n
    OBVIOUS
  <2>1. i # n + 1
    BY <1>1
  <2> QED BY <1>1, <2>1
<1>3. \A i \in 1 .. n : i \in 1 .. n + 1
  BY <1>1
<1>4. Asks(v) \subseteq Asks(u)
  BY <1>1, <1>2 DEF Asks
<1>5. Asks(u) \subseteq Asks(v)
  BY <1>1, <1>3 DEF Asks
<1>6. Once(v)
  BY <1>1, <1>2 DEF Once
<1> QED BY <1>1, <1>4, <1>5, <1>6 DEF v

-----------------------------------------------------------------------------
(* What the bus puts into a subscriber's buffer, and a replay onto the wire. *)

\* The gap markers that deliver enqueues, and the kind of the frame behind them.
Markers(flushed) == {Frame(d, "gap", ring[d].seq) : d \in flushed}

\* ... and the kind of the frame behind them.
Kind(c) == IF c \in sub.gapped THEN "stamped" ELSE "event"

\* A frame of a channel is a frame.
LEMMA FrameTypes ==
  ASSUME NEW c \in Channels, NEW k \in {"event", "stamped", "gap", "mark"}, NEW n \in Nat
  PROVE  Frame(c, k, n) \in Frames
BY DEF Frame, Frames

\* There are no more markers than channels to flush.
LEMMA MarkersFacts ==
  ASSUME IsFiniteSet(Channels), ring \in [Channels -> [seq : Nat, oldest : Nat]],
         NEW flushed \in SUBSET Channels
  PROVE  /\ IsFiniteSet(Markers(flushed)) /\ Markers(flushed) \subseteq Frames
         /\ Cardinality(Markers(flushed)) <= Cardinality(flushed)
         /\ Cardinality(Markers(flushed)) \in Nat /\ Cardinality(flushed) \in Nat
<1> DEFINE f == [d \in flushed |-> Frame(d, "gap", ring[d].seq)]
<1>1. \A d \in flushed : Frame(d, "gap", ring[d].seq) \in Frames
  BY FrameTypes
<1>2. f \in Surjection(flushed, Markers(flushed))
  BY DEF Surjection, Markers
<1>3. IsFiniteSet(flushed)
  BY FS_Subset
<1>4. IsFiniteSet(Markers(flushed)) /\ Cardinality(Markers(flushed)) <= Cardinality(flushed)
  <2> HIDE DEF f
  <2> QED BY <1>2, <1>3, FS_Surjection
<1>5. Markers(flushed) \subseteq Frames
  BY <1>1 DEF Markers
<1> QED BY <1>3, <1>4, <1>5, FS_CardinalityType

\* What deliver enqueues is some markers and perhaps the frame, of different channels,
\* within the room there is.
LEMMA EnqueueFacts ==
  ASSUME TypeOK, NEW c \in Channels, NEW seq \in Nat, Enqueue(c, seq)
  PROVE  \E flushed \in SUBSET (sub.gapped \ {c}), fits \in BOOLEAN, fs \in Seq(Frames) :
            /\ queue' = queue \o fs
            /\ Range(fs) = Markers(flushed) \union (IF fits THEN {Frame(c, Kind(c), seq)} ELSE {})
            /\ Len(queue) + Len(fs) <= QueueCap
            /\ sub' = [sub EXCEPT !.gapped = (sub.gapped \ (flushed \union {c}))
                                             \union (IF fits THEN {} ELSE Dropped(c)),
                                  !.withheld = ClearWithheld(c)]
            /\ \A i, j \in DOMAIN fs : i < j => fs[i].channel # fs[j].channel
<1>1. /\ queue \in Seq(Frames) /\ Len(queue) \in Nat /\ Len(queue) <= QueueCap
      /\ ring \in [Channels -> [seq : Nat, oldest : Nat]]
      /\ sub.gapped \in SUBSET Channels
      /\ IsFiniteSet(Channels) /\ QueueCap \in Nat
  BY ChannelsAssumption, CapsAssumption, LenProperties DEF TypeOK
<1> DEFINE others == sub.gapped \ {c}
           room == QueueCap - Len(queue)
<1>2. PICK flushed \in SUBSET others :
         /\ Cardinality(flushed) = Min({Cardinality(others), room})
         /\ LET markers == SetToSeq(Markers(flushed))
                fits == Len(queue \o markers) < QueueCap
            IN /\ queue' = queue \o markers \o IF fits THEN <<Frame(c, Kind(c), seq)>> ELSE <<>>
               /\ sub' = [sub EXCEPT !.gapped = (sub.gapped \ (flushed \union {c}))
                                                \union (IF fits THEN {} ELSE Dropped(c)),
                                     !.withheld = ClearWithheld(c)]
  BY DEF Enqueue, Markers, Kind
<1> DEFINE markers == SetToSeq(Markers(flushed))
           fits == Len(queue \o markers) < QueueCap
           F == Frame(c, Kind(c), seq)
           rest == IF fits THEN <<F>> ELSE <<>>
           fs == markers \o rest
<1>3. flushed \in SUBSET Channels /\ others \in SUBSET Channels
  BY <1>1
<1>4. /\ IsFiniteSet(Markers(flushed)) /\ Markers(flushed) \subseteq Frames
      /\ Cardinality(Markers(flushed)) <= Cardinality(flushed)
      /\ Cardinality(Markers(flushed)) \in Nat /\ Cardinality(flushed) \in Nat
      /\ Cardinality(others) \in Nat
  <2> HIDE DEF others
  <2> QED BY <1>1, <1>3, MarkersFacts, FS_Subset, FS_CardinalityType
<1>5. Cardinality(flushed) <= room
  <2> HIDE DEF others
  <2>1. room \in Int /\ Cardinality(others) \in Int
    BY <1>1, <1>4
  <2> HIDE DEF room
  <2> QED BY <1>2, <2>1, MinOfTwo
<1>6. /\ markers \in Seq(Frames) /\ Len(markers) \in Nat /\ Len(markers) <= room
      /\ Range(markers) = Markers(flushed)
      /\ DOMAIN markers = 1 .. Len(markers)
      /\ \A i, j \in DOMAIN markers : markers[i] = markers[j] => i = j
      /\ \A i \in DOMAIN markers : markers[i] \in Markers(flushed)
  <2>1. /\ markers \in Seq(Markers(flushed)) /\ Len(markers) = Cardinality(Markers(flushed))
        /\ Range(markers) = Markers(flushed)
        /\ \A i, j \in DOMAIN markers : markers[i] = markers[j] => i = j
    BY <1>4, SetToSeqFacts
  <2> HIDE DEF markers
  <2>2. markers \in Seq(Frames)
    BY <1>4, <2>1, SeqMonotonic
  <2>3. \A i \in DOMAIN markers : markers[i] \in Markers(flushed)
    BY <2>1 DEF Range
  <2>4. Len(markers) <= room
    BY <1>1, <1>4, <1>5, <2>1
  <2> QED BY <2>1, <2>2, <2>3, <2>4, LenProperties
<1> HIDE DEF markers
<1>7. F \in Frames /\ F.channel = c
  <2>1. Kind(c) \in {"event", "stamped", "gap", "mark"}
    BY DEF Kind
  <2> QED BY <2>1, FrameTypes DEF Frame
<1> HIDE DEF F
<1>8. rest \in Seq(Frames) /\ Len(rest) = (IF fits THEN 1 ELSE 0)
      /\ (fits => rest[1] = F) /\ Range(rest) = (IF fits THEN {F} ELSE {})
  <2>1. /\ <<F>> \in Seq(Frames) /\ Len(<<F>>) = 1 /\ <<F>>[1] = F
        /\ <<>> \in Seq(Frames) /\ Len(<<>>) = 0
    BY <1>7, EmptySeq
  <2>2. Range(<<F>>) = {F} /\ Range(<<>>) = {}
    BY DEF Range
  <2>3. CASE fits
    <3>1. rest = <<F>>
      BY <2>3
    <3> QED BY <2>1, <2>2, <2>3, <3>1
  <2>4. CASE ~fits
    <3>1. rest = <<>>
      BY <2>4
    <3> QED BY <2>1, <2>2, <2>4, <3>1
  <2> QED BY <2>3, <2>4
<1>9. Len(queue \o markers) = Len(queue) + Len(markers)
  BY <1>1, <1>6, ConcatProperties
<1>10. queue' = queue \o fs
  <2>1. queue' = (queue \o markers) \o rest
    BY <1>2 DEF markers, F
  <2> HIDE DEF rest
  <2>2. (queue \o markers) \o rest = queue \o (markers \o rest)
    <3>1. queue \in Seq(Frames) /\ markers \in Seq(Frames) /\ rest \in Seq(Frames)
      BY <1>1, <1>6, <1>8
    <3> QED BY <3>1, ConcatAssociative
  <2> QED BY <2>1, <2>2
<1>11. /\ fs \in Seq(Frames) /\ Len(fs) = Len(markers) + Len(rest)
       /\ DOMAIN fs = 1 .. Len(markers) + Len(rest)
       /\ \A i \in 1 .. Len(markers) : fs[i] = markers[i]
       /\ \A i \in 1 .. Len(rest) : fs[Len(markers) + i] = rest[i]
  <2> HIDE DEF rest
  <2>1. markers \in Seq(Frames) /\ rest \in Seq(Frames)
    BY <1>6, <1>8
  <2> QED BY <2>1, JoinFacts
<1>12. Range(fs) = Range(markers) \union Range(rest)
  <2> DEFINE n == Len(markers)
             k == Len(rest)
  <2>1. n \in Nat /\ k \in Nat /\ DOMAIN markers = 1 .. n /\ DOMAIN rest = 1 .. k
    BY <1>6, <1>8, LenProperties
  <2>2. /\ DOMAIN fs = 1 .. n + k
        /\ \A i \in 1 .. n : fs[i] = markers[i]
        /\ \A i \in 1 .. k : fs[n + i] = rest[i]
    BY <1>11
  <2> HIDE DEF n, k, rest, fs
  <2>3. ASSUME NEW i \in 1 .. n + k
        PROVE  fs[i] \in Range(markers) \union Range(rest)
    <3>1. CASE i \in 1 .. n
      BY <2>1, <2>2, <3>1 DEF Range
    <3>2. CASE i \notin 1 .. n
      <4>1. i - n \in 1 .. k /\ n + (i - n) = i
        BY <2>1, <3>2
      <4>2. fs[i] = rest[i - n] /\ i - n \in DOMAIN rest
        BY <2>1, <2>2, <4>1
      <4> QED BY <4>2 DEF Range
    <3> QED BY <3>1, <3>2
  <2>4. \A i \in 1 .. n : i \in 1 .. n + k
    BY <2>1
  <2>5. \A i \in 1 .. k : n + i \in 1 .. n + k
    BY <2>1
  <2>6. Range(fs) \subseteq Range(markers) \union Range(rest)
    BY <2>2, <2>3 DEF Range
  <2>7. Range(markers) \subseteq Range(fs)
    BY <2>1, <2>2, <2>4 DEF Range
  <2>8. Range(rest) \subseteq Range(fs)
    BY <2>1, <2>2, <2>5 DEF Range
  <2> QED BY <2>6, <2>7, <2>8
<1>13. Range(fs) = Markers(flushed) \union (IF fits THEN {F} ELSE {})
  BY <1>6, <1>8, <1>12
<1>14. Len(queue) + Len(fs) <= QueueCap
  BY <1>1, <1>6, <1>8, <1>9, <1>11
<1>15. ASSUME NEW i \in DOMAIN fs, NEW j \in DOMAIN fs, i < j
       PROVE  fs[i].channel # fs[j].channel
  <2>1. \A m \in 1 .. Len(markers) : \E d \in flushed : fs[m] = Frame(d, "gap", ring[d].seq)
    BY <1>6, <1>11 DEF Markers
  <2>2. i \in 1 .. Len(markers)
    BY <1>6, <1>8, <1>11, <1>15
  <2>3. PICK d \in flushed : fs[i] = Frame(d, "gap", ring[d].seq)
    BY <2>1, <2>2
  <2>4. fs[i].channel = d /\ d # c
    BY <2>3 DEF Frame
  <2>5. CASE j \in 1 .. Len(markers)
    <3>1. PICK e \in flushed : fs[j] = Frame(e, "gap", ring[e].seq)
      BY <2>1, <2>5
    <3>2. fs[j].channel = e
      BY <3>1 DEF Frame
    <3>3. d # e
      BY <1>6, <1>11, <1>15, <2>2, <2>3, <2>5, <3>1
    <3> QED BY <2>4, <3>2, <3>3
  <2>6. CASE j \notin 1 .. Len(markers)
    <3>1. fits /\ j = Len(markers) + 1
      BY <1>6, <1>8, <1>11, <2>6
    <3>2. fs[j] = F
      BY <1>8, <1>11, <3>1
    <3> QED BY <1>7, <2>4, <3>2
  <2> QED BY <2>5, <2>6
<1>16. fits \in BOOLEAN /\ flushed \in SUBSET (sub.gapped \ {c})
  BY <1>2
<1>17. sub' = [sub EXCEPT !.gapped = (sub.gapped \ (flushed \union {c}))
                                     \union (IF fits THEN {} ELSE Dropped(c)),
                          !.withheld = ClearWithheld(c)]
  BY <1>2 DEF markers
<1>18. fs \in Seq(Frames)
  BY <1>11
<1> HIDE DEF fits, fs
<1> QED BY <1>10, <1>13, <1>14, <1>15, <1>16, <1>17, <1>18 DEF F

\* A replay's frames are of their channel, up to its head and above a cursor that
\* has not passed the head; the marks are of frames kept from the client.
LEMMA FilteredFacts ==
  ASSUME TypeOK, NEW c \in Channels, NEW from \in Nat
  PROVE  /\ Filtered(c, from) \subseteq Frames
         /\ \A f \in Filtered(c, from) :
               /\ f.channel = c /\ f.seq <= ring[c].seq
               /\ f.kind = "mark" => sub.armed /\ f.seq \in foreign[c]
               /\ from <= ring[c].seq => f.seq > from
         /\ c \notin LatestOnly /\ from <= ring[c].seq =>
               \A s \in from + 1 .. ring[c].seq :
                  \/ sub.armed /\ s \in foreign[c]
                  \/ \E g \in Filtered(c, from) : g.seq = s \/ (Gappy(g) /\ g.seq > s)
<1> DEFINE head == ring[c].seq
           missed == Replay(c, from)
           withheld == {f \in missed : sub.armed /\ f.kind = "event" /\ f.seq \in foreign[c]}
           last == {f \in withheld : \A other \in missed : other.seq <= f.seq}
           marks == {Frame(c, "mark", f.seq) : f \in last}
<1>1. head \in Nat /\ ring[c].oldest \in Nat
  BY DEF TypeOK
<1>2. \A k, n : Frame(c, k, n).channel = c /\ Frame(c, k, n).kind = k /\ Frame(c, k, n).seq = n
  BY DEF Frame
<1>3. CASE Missed(c, from)
  <2> DEFINE f == IF c \in LatestOnly /\ from <= head THEN Frame(c, "event", head) ELSE Frame(c, "gap", head)
  <2>1. missed = {f}
    BY <1>3 DEF Replay
  <2>2. f \in Frames /\ f.seq = head /\ f.channel = c /\ f.kind \in {"event", "gap"}
        /\ (c \notin LatestOnly => f.kind = "gap")
    BY <1>1, <1>2, FrameTypes
  <2>3. from <= head => from < head
    BY <1>1, <1>3 DEF Missed
  <2> HIDE DEF f, missed
  <2>4. Filtered(c, from) = (missed \ withheld) \union marks
    BY DEF Filtered, missed
  <2>5. ASSUME NEW g \in marks
        PROVE  g = Frame(c, "mark", head) /\ sub.armed /\ head \in foreign[c]
    BY <2>1, <2>2
  <2> HIDE DEF marks, withheld, last
  <2>6. ASSUME NEW g \in Filtered(c, from)
        PROVE  /\ g \in Frames /\ g.channel = c /\ g.seq = head
               /\ g.kind = "mark" => sub.armed /\ head \in foreign[c]
    <3>1. CASE g \in marks
      BY <1>1, <1>2, <2>5, <3>1, FrameTypes
    <3>2. CASE g = f
      BY <2>2, <3>2
    <3> QED BY <2>1, <2>4, <2>6, <3>1, <3>2
  <2>7. ASSUME c \notin LatestOnly
        PROVE  f \in Filtered(c, from) /\ Gappy(f)
    <3>1. f \notin withheld
      BY <2>2, <2>7 DEF withheld
    <3> QED BY <2>1, <2>2, <2>4, <2>7, <3>1 DEF Gappy
  <2>8. ASSUME c \notin LatestOnly, NEW s \in from + 1 .. head
        PROVE  \E g \in Filtered(c, from) : g.seq = s \/ (Gappy(g) /\ g.seq > s)
    <3>1. head = s \/ head > s
      BY <1>1
    <3> QED BY <2>2, <2>7, <2>8, <3>1
  <2>9. \A g \in Filtered(c, from) : g.seq <= head /\ (from <= head => g.seq > from)
    BY <1>1, <2>3, <2>6
  <2> QED BY <2>6, <2>8, <2>9
<1>4. CASE ~Missed(c, from)
  <2>1. missed = {Frame(c, "event", seq) : seq \in from + 1 .. head}
    BY <1>4 DEF Replay
  <2>2. \A n \in from + 1 .. head : n \in Nat /\ n > from /\ n <= head
    BY <1>1
  <2>3. \A g \in missed : \E n \in from + 1 .. head : g = Frame(c, "event", n)
    BY <2>1
  <2>4. \A n \in from + 1 .. head : Frame(c, "event", n) \in missed
    BY <2>1
  <2> HIDE DEF missed
  <2>5. Filtered(c, from) = (missed \ withheld) \union marks
    BY DEF Filtered, missed
  <2>6. ASSUME NEW g \in missed
        PROVE  g \in Frames /\ g.channel = c /\ g.kind = "event" /\ g.seq \in from + 1 .. head
    <3>1. PICK n \in from + 1 .. head : g = Frame(c, "event", n)
      BY <2>3
    <3> QED BY <1>2, <2>2, <3>1, FrameTypes
  <2>7. ASSUME NEW g \in marks
        PROVE  /\ g \in Frames /\ g.channel = c /\ g.seq \in from + 1 .. head
               /\ sub.armed /\ g.seq \in foreign[c]
    <3>1. PICK f \in withheld : g = Frame(c, "mark", f.seq)
      OBVIOUS
    <3>2. f \in missed /\ sub.armed /\ f.seq \in foreign[c]
      OBVIOUS
    <3>3. f.seq \in from + 1 .. head
      BY <2>6, <3>2
    <3> HIDE DEF withheld
    <3> QED BY <1>2, <2>2, <3>1, <3>2, <3>3, FrameTypes
  <2>8. \A n \in from + 1 .. head : Frame(c, "event", n) \notin withheld => Frame(c, "event", n) \in Filtered(c, from)
    BY <2>4, <2>5
  <2>9. \A n : Frame(c, "event", n) \in withheld => sub.armed /\ n \in foreign[c]
    BY <1>2
  <2> HIDE DEF marks, withheld, last
  <2>10. ASSUME NEW g \in Filtered(c, from)
         PROVE  /\ g \in Frames /\ g.channel = c /\ g.seq \in from + 1 .. head
                /\ g.kind = "mark" => sub.armed /\ g.seq \in foreign[c]
    <3>1. CASE g \in marks
      BY <2>7, <3>1
    <3>2. CASE g \in missed
      BY <2>6, <3>2
    <3> QED BY <2>5, <2>10, <3>1, <3>2
  <2>11. \A g \in Filtered(c, from) : g.seq <= head /\ g.seq > from
    BY <2>2, <2>10
  <2>12. ASSUME NEW s \in from + 1 .. head
         PROVE  (sub.armed /\ s \in foreign[c]) \/ \E g \in Filtered(c, from) : g.seq = s
    BY <1>2, <2>8, <2>9
  <2> QED BY <2>10, <2>11, <2>12
<1> QED BY <1>3, <1>4

-----------------------------------------------------------------------------
(* Types.                                                                  *)

\* The types of the variables, as TypeOK states them.
RingType == [Channels -> [seq : Nat, oldest : Nat]]
SubType == [on : BOOLEAN, armed : BOOLEAN, gapped : SUBSET Channels, withheld : [Channels -> Nat]]
PumpType == [pc : {"idle", "count", "drain"}, left : 0 .. QueueCap, marks : [Channels -> Nat]]
SendingType == [busy : BOOLEAN, frames : [Channels -> SUBSET Frames]]
ClientType == [open : BOOLEAN, known : BOOLEAN, launch : 0 .. MaxLaunches,
               watch : BOOLEAN, replaying : BOOLEAN, recover : BOOLEAN]
CursorType == [Channels -> [seq : Nat, fresh : BOOLEAN]]
HeldType == [frames : Seq(Frames), overflow : BOOLEAN, heads : [Channels -> Nat]]

\* A pass drains no more frames than there are.
TypeInv == TypeOK /\ (pump.pc = "drain" => pump.left <= Len(queue))

\* The blank records have these types.
LEMMA Blanks ==
  /\ NoSubscriber \in SubType /\ IdlePump \in PumpType /\ NoReplay \in SendingType
  /\ NothingHeld \in HeldType /\ Len(NothingHeld.frames) = 0 /\ Len(NothingHeld.frames) <= BufferCap
  /\ <<>> \in Seq(Frames) /\ Len(<<>>) = 0 /\ Len(<<>>) <= QueueCap
  /\ <<>> \in Seq(Upward) /\ <<>> \in Seq(Downward) /\ <<>> \in Seq(Nat)
  /\ IdlePump.pc = "idle"
<1>1. /\ <<>> \in Seq(Frames) /\ Len(<<>>) = 0
      /\ <<>> \in Seq(Upward) /\ <<>> \in Seq(Downward) /\ <<>> \in Seq(Nat)
  BY EmptySeq
<1>2. QueueCap \in Nat /\ BufferCap \in Nat
  BY CapsAssumption
<1> QED BY <1>1, <1>2 DEF NoSubscriber, SubType, IdlePump, PumpType, NoReplay, SendingType, NothingHeld, HeldType

\* The head of the queue can be forwarded.
LEMMA HeadOfQueue ==
  ASSUME queue \in Seq(Frames), queue # <<>>
  PROVE  /\ queue[1] \in Frames /\ Head(queue) = queue[1] /\ <<Head(queue)>> \in Seq(Frames)
         /\ Tail(queue) \in Seq(Frames) /\ Len(Tail(queue)) = Len(queue) - 1 /\ Len(queue) \in Nat
<1>1. queue[1] \in Frames /\ Head(queue) = queue[1]
      /\ Tail(queue) \in Seq(Frames) /\ Len(Tail(queue)) = Len(queue) - 1 /\ Len(queue) \in Nat
  BY TailFacts
<1> QED BY <1>1

\* What is written is posted behind the wire.
LEMMA WrittenFacts ==
  ASSUME wire \in Seq(Downward), NEW fs \in Seq(Frames), Written(fs)
  PROVE  wire' = wire \o Post(fs) /\ wire' \in Seq(Downward)
<1>1. wire' = wire \o Post(fs)
  BY DEF Written, Post
<1>2. wire \o Post(fs) \in Seq(Downward)
  BY Posted
<1> QED BY <1>1, <1>2

\* The marks of a pass, as WriteMarks takes them.
MarksToWrite == {Frame(c, "mark", pump.marks[c]) : c \in {d \in Channels : pump.marks[d] # 0}}

\* They are listed once each.
LEMMA MarksToWriteFacts ==
  ASSUME pump \in PumpType
  PROVE  /\ SetToSeq(MarksToWrite) \in Seq(Frames)
         /\ Range(SetToSeq(MarksToWrite)) = MarksToWrite
<1> DEFINE D == {d \in Channels : pump.marks[d] # 0}
           f == [c \in D |-> Frame(c, "mark", pump.marks[c])]
<1>1. \A c \in D : Frame(c, "mark", pump.marks[c]) \in Frames
  <2>1. \A c \in D : pump.marks[c] \in Nat /\ c \in Channels
    BY DEF PumpType
  <2> QED BY <2>1, FrameTypes
<1>2. f \in Surjection(D, MarksToWrite)
  BY DEF Surjection, MarksToWrite
<1>3. IsFiniteSet(D)
  BY FS_Subset, ChannelsAssumption
<1>4. IsFiniteSet(MarksToWrite)
  <2> HIDE DEF D, f
  <2> QED BY <1>2, <1>3, FS_Surjection
<1>5. MarksToWrite \subseteq Frames
  BY <1>1 DEF MarksToWrite
<1>6. /\ SetToSeq(MarksToWrite) \in Seq(MarksToWrite)
      /\ Range(SetToSeq(MarksToWrite)) = MarksToWrite
  BY <1>4, SetToSeqFacts
<1> QED BY <1>5, <1>6, SeqMonotonic

\* What the completion of a replay makes of a channel.
LEMMA ViewsAreTyped ==
  ASSUME TypeOK, NEW c \in Channels
  PROVE  /\ View(c) \in ViewType /\ View(c).cur = cursor[c] /\ View(c).got = got[c]
         /\ View(c).lately = lately[c] /\ View(c).told = told[c]
         /\ cursor[c] \in [seq : Nat, fresh : BOOLEAN] /\ cursor[c].seq \in Nat
         /\ got[c] \in SUBSET Nat /\ lately[c] \in Seq(Nat) /\ told[c] \in Nat
BY DEF TypeOK, View, ViewType

\* A recovery tells the channel up to its newest number, and puts the cursor there.
LEMMA RecoveredFacts ==
  ASSUME TypeOK, NEW c \in Channels
  PROVE  /\ Recovered(c) \in ViewType
         /\ Newest(c) \in Nat
         /\ Recovered(c).cur.seq = Newest(c) /\ Recovered(c).got = got[c]
         /\ Recovered(c).lately = <<>>
         /\ Recovered(c).told >= Newest(c) /\ Recovered(c).told >= told[c]
         /\ Recovered(c).told \in {told[c], Newest(c)}
<1> DEFINE v == Told(View(c), Newest(c))
<1>1. /\ View(c) \in ViewType /\ View(c).got = got[c] /\ View(c).told = told[c] /\ cursor[c].seq \in Nat
      /\ held.heads[c] \in Nat
  <2>1. held.heads[c] \in Nat
    BY DEF TypeOK
  <2> QED BY <2>1, ViewsAreTyped
<1>2. Newest(c) \in Nat
  BY <1>1 DEF Newest
<1>3. /\ v \in ViewType /\ v.got = got[c] /\ v.lately = <<>>
      /\ v.told \in {told[c], Newest(c)} /\ v.told >= told[c] /\ v.told >= Newest(c)
  BY <1>1, <1>2, ToldFacts
<1>4. Recovered(c) = [v EXCEPT !.cur = At(Newest(c))]
  BY DEF Recovered
<1>5. At(Newest(c)) \in [seq : Nat, fresh : BOOLEAN] /\ At(Newest(c)).seq = Newest(c)
  BY <1>2 DEF At
<1> HIDE DEF v
<1> QED BY <1>2, <1>3, <1>4, <1>5 DEF ViewType

\* A completion drains or recovers, and after a restart tells up to the head.
LEMMA SettledFacts ==
  ASSUME TypeOK, NEW c \in Channels
  PROVE  LET w == IF held.overflow THEN Recovered(c) ELSE Drained(c)
         IN /\ Settled(c) \in ViewType
            /\ w \in ViewType
            /\ Settled(c).cur = w.cur /\ Settled(c).got = w.got
            /\ client.recover => /\ Settled(c).lately = <<>>
                                 /\ Settled(c).told >= ring[c].seq
                                 /\ Settled(c).told >= w.told
                                 /\ Settled(c).told \in {w.told, ring[c].seq}
            /\ ~client.recover => Settled(c) = w
<1> DEFINE w == IF held.overflow THEN Recovered(c) ELSE Drained(c)
<1>1. held.frames \in Seq(Frames) /\ ring[c].seq \in Nat
  BY DEF TypeOK
<1>2. Drained(c) \in ViewType
  BY <1>1, ViewsAreTyped, DrainedFacts
<1>3. w \in ViewType
  BY <1>2, RecoveredFacts
<1>4. Settled(c) = IF client.recover THEN Told(w, ring[c].seq) ELSE w
  BY DEF Settled
<1> HIDE DEF w
<1>5. /\ Told(w, ring[c].seq) \in ViewType
      /\ Told(w, ring[c].seq).cur = w.cur /\ Told(w, ring[c].seq).got = w.got
      /\ Told(w, ring[c].seq).lately = <<>>
      /\ Told(w, ring[c].seq).told \in {w.told, ring[c].seq}
      /\ Told(w, ring[c].seq).told >= w.told /\ Told(w, ring[c].seq).told >= ring[c].seq
  BY <1>1, <1>3, ToldFacts
<1> QED BY <1>3, <1>4, <1>5 DEF w

\* The initial state is well typed.
LEMMA TypeInvInit == Init => TypeInv
<1> SUFFICES ASSUME Init PROVE TypeInv
  OBVIOUS
<1>1. /\ sub \in SubType /\ pump \in PumpType /\ sending \in SendingType /\ held \in HeldType
      /\ Len(held.frames) <= BufferCap /\ Len(queue) <= QueueCap /\ queue \in Seq(Frames)
      /\ up \in Seq(Upward) /\ wire \in Seq(Downward)
      /\ pump.pc = "idle" /\ <<>> \in Seq(Nat)
  BY Blanks DEF Init
<1>2. 1 \in 1 .. MaxLaunches /\ 0 \in 0 .. MaxLaunches /\ 0 \in 0 .. MaxOpens
  BY EventBoundsAssumption
<1>3. /\ ring \in RingType /\ foreign \in [Channels -> SUBSET Nat] /\ cursor \in CursorType
      /\ got \in [Channels -> SUBSET Nat] /\ lately \in [Channels -> Seq(Nat)] /\ told \in [Channels -> Nat]
  BY <1>1 DEF Init, RingType, CursorType
<1>4. launch \in 1 .. MaxLaunches /\ client \in ClientType /\ opens \in 0 .. MaxOpens
  BY <1>2 DEF Init, ClientType
<1> QED BY <1>1, <1>3, <1>4 DEF TypeInv, TypeOK, SubType, PumpType, SendingType, HeldType, RingType,
           CursorType, ClientType

\* Every step keeps the types.
LEMMA TypeInvStep == TypeInv /\ [Next]_vars => TypeInv'
<1> SUFFICES ASSUME TypeInv, [Next]_vars PROVE TypeInv'
  OBVIOUS
<1>0. /\ launch \in 1 .. MaxLaunches /\ ring \in RingType /\ foreign \in [Channels -> SUBSET Nat]
      /\ sub \in SubType /\ queue \in Seq(Frames) /\ Len(queue) \in Nat /\ Len(queue) <= QueueCap
      /\ pump \in PumpType /\ sending \in SendingType /\ up \in Seq(Upward) /\ wire \in Seq(Downward)
      /\ client \in ClientType /\ cursor \in CursorType /\ held \in HeldType
      /\ Len(held.frames) <= BufferCap /\ opens \in 0 .. MaxOpens
      /\ got \in [Channels -> SUBSET Nat] /\ lately \in [Channels -> Seq(Nat)] /\ told \in [Channels -> Nat]
      /\ pump.pc = "drain" => pump.left <= Len(queue)
      /\ QueueCap \in Nat /\ QueueCap # 0 /\ TypeOK
  <2>1. queue \in Seq(Frames) => Len(queue) \in Nat
    BY LenProperties
  <2> QED BY <2>1, CapsAssumption DEF TypeInv, TypeOK, SubType, PumpType, SendingType, HeldType, RingType,
             CursorType, ClientType
<1> DEFINE Keep == /\ launch' \in 1 .. MaxLaunches /\ ring' \in RingType /\ foreign' \in [Channels -> SUBSET Nat]
                   /\ sub' \in SubType /\ queue' \in Seq(Frames) /\ Len(queue') <= QueueCap
                   /\ pump' \in PumpType /\ sending' \in SendingType /\ up' \in Seq(Upward)
                   /\ wire' \in Seq(Downward)
                   /\ client' \in ClientType /\ cursor' \in CursorType /\ held' \in HeldType
                   /\ Len(held'.frames) <= BufferCap /\ opens' \in 0 .. MaxOpens
                   /\ got' \in [Channels -> SUBSET Nat] /\ lately' \in [Channels -> Seq(Nat)]
                   /\ told' \in [Channels -> Nat]
                   /\ pump'.pc = "drain" => pump'.left <= Len(queue')
<1>q. Keep => TypeInv'
  BY DEF TypeInv, TypeOK, SubType, PumpType, SendingType, HeldType, RingType, CursorType, ClientType
<1>1. ASSUME NEW c \in Channels, NEW away \in BOOLEAN, Emit(c, away)
      PROVE  Keep
  <2> DEFINE seq == ring[c].seq + 1
  <2>1. ring[c].seq \in Nat /\ ring[c].oldest \in Nat /\ seq \in Nat
    BY <1>0 DEF RingType
  <2>2. /\ ring' = [ring EXCEPT ![c] = [seq |-> seq, oldest |-> Max({ring[c].oldest, seq - Capacity(c) + 1})]]
        /\ foreign' = IF away THEN [foreign EXCEPT ![c] = foreign[c] \union {seq}] ELSE foreign
        /\ CASE ~sub.on -> UNCHANGED <<sub, queue>>
             [] sub.on /\ sub.armed /\ away -> NoteWithheld(c, seq) /\ UNCHANGED queue
             [] OTHER -> Enqueue(c, seq)
        /\ UNCHANGED <<launch, pump, sending, up, wire, client, cursor, held, opens, history>>
    BY <1>1 DEF Emit
  <2> HIDE DEF seq
  <2>3. ring' \in RingType
    <3>1. Capacity(c) \in Nat
      BY CapsAssumption DEF Capacity
    <3>2. seq - Capacity(c) + 1 \in Int /\ ring[c].oldest \in Int
      BY <2>1, <3>1
    <3>3. Max({ring[c].oldest, seq - Capacity(c) + 1}) \in Nat
      <4> DEFINE x == seq - Capacity(c) + 1
      <4> HIDE DEF x
      <4>1. x \in Int
        BY <3>2 DEF x
      <4>2. Max({ring[c].oldest, x}) \in {ring[c].oldest, x} /\ Max({ring[c].oldest, x}) >= ring[c].oldest
        BY <3>2, <4>1, MaxOfTwo
      <4>3. Max({ring[c].oldest, x}) \in Nat
        BY <2>1, <4>1, <4>2
      <4> QED BY <4>3 DEF x
    <3> QED BY <1>0, <2>1, <2>2, <3>3 DEF RingType
  <2>4. foreign' \in [Channels -> SUBSET Nat]
    BY <1>0, <2>1, <2>2
  <2>5. sub' \in SubType /\ queue' \in Seq(Frames) /\ Len(queue') <= QueueCap /\ Len(queue) <= Len(queue')
    <3>1. CASE ~sub.on
      BY <1>0, <2>2, <3>1
    <3>2. CASE sub.on /\ sub.armed /\ away
      <4>1. NoteWithheld(c, seq) /\ queue' = queue
        BY <2>2, <3>2
      <4>2. sub' \in SubType
        BY <1>0, <2>1, <4>1 DEF NoteWithheld, SubType
      <4> QED BY <1>0, <4>1, <4>2
    <3>3. CASE sub.on /\ ~(sub.armed /\ away)
      <4>1. Enqueue(c, seq)
        BY <2>2, <3>3
      <4>2. PICK flushed \in SUBSET (sub.gapped \ {c}), fits \in BOOLEAN, fs \in Seq(Frames) :
               /\ queue' = queue \o fs
               /\ Len(queue) + Len(fs) <= QueueCap
               /\ sub' = [sub EXCEPT !.gapped = (sub.gapped \ (flushed \union {c}))
                                                \union (IF fits THEN {} ELSE Dropped(c)),
                                     !.withheld = ClearWithheld(c)]
        BY <1>0, <2>1, <4>1, EnqueueFacts
      <4>3. sub' \in SubType
        BY <1>0, <4>2 DEF SubType, Dropped, ClearWithheld
      <4>4. queue' \in Seq(Frames) /\ Len(queue') = Len(queue) + Len(fs) /\ Len(fs) \in Nat
        BY <1>0, <4>2, JoinFacts
      <4> QED BY <1>0, <4>2, <4>3, <4>4
    <3> QED BY <3>1, <3>2, <3>3
  <2>6. pump'.pc = "drain" => pump'.left <= Len(queue')
    <3>1. Len(queue') \in Nat /\ pump' = pump /\ pump.left \in Nat
      BY <1>0, <2>2, <2>5, LenProperties DEF PumpType
    <3> QED BY <1>0, <2>5, <3>1
  <2> QED BY <1>0, <2>2, <2>3, <2>4, <2>5, <2>6 DEF history
<1>2. ASSUME NEW c \in Channels, Release(c)
      PROVE  Keep
  <2>1. ring' \in RingType
    BY <1>0, <1>2 DEF Release, RingType
  <2> QED BY <1>0, <1>2, <2>1 DEF Release, connection, history
<1>3. ASSUME PumpEvent
      PROVE  Keep
  <2>1. /\ queue' \in Seq(Frames) /\ Len(queue') <= QueueCap
        /\ wire' \in Seq(Downward)
    <3>1. queue # <<>> /\ queue' = Tail(queue) /\ Written(<<Head(queue)>>)
      BY <1>3 DEF PumpEvent
    <3>2. /\ <<Head(queue)>> \in Seq(Frames)
          /\ Tail(queue) \in Seq(Frames) /\ Len(Tail(queue)) = Len(queue) - 1
      BY <1>0, <3>1, HeadOfQueue
    <3>3. wire' \in Seq(Downward)
      BY <1>0, <3>1, <3>2, WrittenFacts
    <3> QED BY <1>0, <3>1, <3>2, <3>3
  <2> QED BY <1>0, <1>3, <2>1 DEF PumpEvent, server, history
<1>4. ASSUME TakeWithheld
      PROVE  Keep
  <2>1. pump' \in PumpType /\ pump'.pc = "count"
    BY <1>0, <1>4 DEF TakeWithheld, PumpType, SubType
  <2>2. sub' \in SubType
    BY <1>0, <1>4, Blanks DEF TakeWithheld, SubType
  <2> QED BY <1>0, <1>4, <2>1, <2>2 DEF TakeWithheld, server, history
<1>5. ASSUME CountQueue
      PROVE  Keep
  <2>1. pump' \in PumpType /\ pump'.left = Len(queue)
    <3>1. Len(queue) \in 0 .. QueueCap /\ pump \in PumpType
      BY <1>0
    <3>2. pump' = [pump EXCEPT !.pc = "drain", !.left = Len(queue)]
      BY <1>5 DEF CountQueue
    <3> QED BY <3>1, <3>2 DEF PumpType
  <2>2. queue' = queue
    BY <1>5 DEF CountQueue
  <2>3. pump'.left <= Len(queue')
    BY <1>0, <2>1, <2>2
  <2> QED BY <1>0, <1>5, <2>1, <2>3 DEF CountQueue, server, history
<1>6. ASSUME DrainEvent
      PROVE  Keep
  <2>1. queue # <<>>
    <3>1. pump.left > 0 /\ pump.left <= Len(queue) /\ pump.left \in Nat
      BY <1>0, <1>6 DEF DrainEvent, PumpType
    <3> QED BY <1>0, <3>1, EmptySeq
  <2>2. queue' = Tail(queue) /\ Written(<<Head(queue)>>)
    BY <1>6 DEF DrainEvent
  <2>3. /\ <<Head(queue)>> \in Seq(Frames)
        /\ Tail(queue) \in Seq(Frames) /\ Len(Tail(queue)) = Len(queue) - 1
    BY <1>0, <2>1, HeadOfQueue
  <2>4. wire' \in Seq(Downward)
    BY <1>0, <2>2, <2>3, WrittenFacts
  <2>5. pump' \in PumpType /\ pump'.pc = "drain" /\ pump'.left = pump.left - 1 /\ pump.left <= Len(queue)
        /\ pump.left \in Nat
    <3>1. pump' = [pump EXCEPT !.left = pump.left - 1] /\ pump.pc = "drain" /\ pump.left > 0
      BY <1>6 DEF DrainEvent
    <3>2. pump \in PumpType /\ QueueCap \in Nat /\ pump.left <= Len(queue)
      BY <1>0, <3>1
    <3>3. pump.left \in 0 .. QueueCap
      BY <3>2 DEF PumpType
    <3>4. pump.left - 1 \in 0 .. QueueCap
      BY <3>1, <3>2, <3>3
    <3>5. pump' \in PumpType /\ pump'.pc = "drain" /\ pump'.left = pump.left - 1
      BY <3>1, <3>2, <3>4 DEF PumpType
    <3> QED BY <3>2, <3>3, <3>5
  <2>6. pump'.left <= Len(queue') /\ Len(queue') <= QueueCap
    BY <1>0, <2>2, <2>3, <2>5
  <2> QED BY <1>0, <1>6, <2>2, <2>3, <2>4, <2>5, <2>6 DEF DrainEvent, server, history
<1>7. ASSUME WriteMarks
      PROVE  Keep
  <2>1. wire' \in Seq(Downward)
    <3>1. Written(SetToSeq(MarksToWrite))
      BY <1>7 DEF WriteMarks, MarksToWrite
    <3> QED BY <1>0, <3>1, MarksToWriteFacts, WrittenFacts
  <2>2. pump' \in PumpType /\ pump'.pc = "idle"
    BY <1>7, Blanks DEF WriteMarks
  <2> QED BY <1>0, <1>7, <2>1, <2>2 DEF WriteMarks, server, history
<1>8. ASSUME ReadWatch
      PROVE  Keep
  <2>1. sub' \in SubType
    BY <1>0, <1>8 DEF ReadWatch, SubType
  <2>2. up' \in Seq(Upward)
    <3>1. up # <<>> /\ up' = Tail(up)
      BY <1>8 DEF ReadWatch
    <3> QED BY <1>0, <3>1, TailFacts
  <2> QED BY <1>0, <1>8, <2>1, <2>2 DEF ReadWatch, server, history
<1>9. ASSUME ReadReplay
      PROVE  Keep
  <2>1. up # <<>> /\ up' = Tail(up) /\ Head(up).type = "replay"
    BY <1>9 DEF ReadReplay
  <2>2. Head(up) = up[1] /\ up[1] \in Upward /\ up' \in Seq(Upward)
    BY <1>0, <2>1, TailFacts
  <2>3. up[1].from \in [Channels -> Nat]
    BY <2>1, <2>2, UpwardKinds
  <2>4. \A c \in Channels : Filtered(c, up[1].from[c]) \subseteq Frames
    <3>1. \A c \in Channels : up[1].from[c] \in Nat
      BY <2>3
    <3> QED BY <1>0, <3>1, FilteredFacts
  <2>5. sending' = [busy |-> TRUE,
                    frames |-> [c \in Channels |-> IF up[1].known THEN Filtered(c, up[1].from[c]) ELSE {}]]
    BY <1>9, <2>2 DEF ReadReplay
  <2>6. sending' \in SendingType
    BY <2>4, <2>5 DEF SendingType
  <2> QED BY <1>0, <1>9, <2>2, <2>6 DEF ReadReplay, server, history
<1>10. ASSUME NEW c \in Channels, WriteReplay(c)
       PROVE  Keep
  <2>1. PICK f \in sending.frames[c] :
           /\ Written(<<f>>)
           /\ sending' = [sending EXCEPT !.frames[c] = sending.frames[c] \ {f}]
    BY <1>10 DEF WriteReplay
  <2>2. f \in Frames /\ sending' \in SendingType
    BY <1>0, <2>1 DEF SendingType
  <2>3. wire' \in Seq(Downward)
    <3>1. <<f>> \in Seq(Frames)
      BY <2>2
    <3> QED BY <1>0, <2>1, <3>1, WrittenFacts
  <2> QED BY <1>0, <1>10, <2>2, <2>3 DEF WriteReplay, server, history
<1>11. ASSUME WriteDone
       PROVE  Keep
  <2>1. wire' = Append(wire, Marker) /\ sending' = NoReplay
    BY <1>11 DEF WriteDone, Marker
  <2>2. wire' \in Seq(Downward)
    BY <1>0, <2>1, MarkerJoin
  <2> QED BY <1>0, <1>11, <2>1, <2>2, Blanks DEF WriteDone, server, history
<1>12. ASSUME Open
       PROVE  Keep
  <2>1. cursor' \in CursorType /\ client' \in ClientType
    BY <1>0, <1>12 DEF Open, CursorType, ClientType
  <2>2. sub' \in SubType
    BY <1>12, Blanks DEF Open, SubType
  <2>3. opens' \in 0 .. MaxOpens
    BY <1>0, <1>12, EventBoundsAssumption DEF Open
  <2>4. wire' \in Seq(Downward)
    <3> DEFINE m == [type |-> "hello", launch |-> launch, baseline |-> [c \in Channels |-> ring[c].seq]]
    <3>1. [c \in Channels |-> ring[c].seq] \in [Channels -> Nat]
      BY <1>0 DEF RingType
    <3>2. m \in Downward
      BY <1>0, <3>1 DEF Downward
    <3>3. wire' = <<m>>
      BY <1>12 DEF Open
    <3> HIDE DEF m
    <3> QED BY <3>2, <3>3
  <2>5. up' \in Seq(Upward)
    <3> DEFINE m == [type |-> "replay", known |-> client.known, from |-> [c \in Channels |-> cursor[c].seq]]
               w == [type |-> "watch"]
    <3>1. [c \in Channels |-> cursor[c].seq] \in [Channels -> Nat] /\ client.known \in BOOLEAN
      BY <1>0 DEF CursorType, ClientType
    <3>2. m \in Upward /\ w \in Upward
      BY <3>1 DEF Upward
    <3>3. up' = (IF client.watch THEN <<w>> ELSE <<>>) \o <<m>>
      BY <1>12 DEF Open
    <3> HIDE DEF m, w
    <3>4. <<w>> \in Seq(Upward) /\ <<m>> \in Seq(Upward) /\ <<>> \in Seq(Upward)
      BY <3>2, EmptySeq
    <3>5. <<w>> \o <<m>> \in Seq(Upward) /\ <<>> \o <<m>> \in Seq(Upward)
      BY <3>4, JoinFacts
    <3> QED BY <3>3, <3>5
  <2> QED BY <1>0, <1>12, <2>1, <2>2, <2>3, <2>4, <2>5 DEF Open, server, history
<1>13. ASSUME Watch
       PROVE  Keep
  <2>1. client' \in ClientType
    BY <1>0, <1>13 DEF Watch, ClientType
  <2>2. up' \in Seq(Upward)
    <3>1. [type |-> "watch"] \in Upward
      BY DEF Upward
    <3>2. Append(up, [type |-> "watch"]) \in Seq(Upward)
      BY <1>0, <3>1, AppendProperties
    <3> QED BY <1>0, <1>13, <3>2 DEF Watch
  <2> QED BY <1>0, <1>13, <2>1, <2>2 DEF Watch, server, connection, history
<1>14. ASSUME ReadHello
       PROVE  Keep
  <2>1. wire # <<>> /\ Head(wire).type = "hello" /\ wire' = Tail(wire)
    BY <1>14 DEF ReadHello
  <2>2. Head(wire) = wire[1] /\ wire[1] \in Downward /\ wire' \in Seq(Downward)
    BY <1>0, <2>1, TailFacts
  <2>3. wire[1].launch \in 1 .. MaxLaunches /\ wire[1].baseline \in [Channels -> Nat]
    BY <2>1, <2>2, DownwardKinds
  <2>4. client' \in ClientType
    <3>1. wire[1].launch \in 0 .. MaxLaunches
      BY <2>3, EventBoundsAssumption
    <3>2. client' = [client EXCEPT !.launch = wire[1].launch, !.known = TRUE,
                                   !.recover = client.recover \/ (Restarted(wire[1]) /\ client.known)]
      BY <1>14, <2>2 DEF ReadHello
    <3>3. client \in ClientType
      BY <1>0
    <3> QED BY <3>1, <3>2, <3>3 DEF ClientType
  <2>5. cursor' \in CursorType /\ told' \in [Channels -> Nat]
    <3> DEFINE zeroed == Restarted(wire[1]) /\ client.known
    <3>1. CASE client.known
      <4>1. /\ cursor' = IF zeroed THEN [c \in Channels |-> [cursor[c] EXCEPT !.seq = 0]] ELSE cursor
            /\ told' = told
        BY <1>14, <2>2, <3>1 DEF ReadHello
      <4> HIDE DEF zeroed
      <4>2. cursor \in CursorType /\ told \in [Channels -> Nat]
        BY <1>0
      <4> QED BY <4>1, <4>2 DEF CursorType
    <3>2. CASE ~client.known
      <4>1. /\ cursor' = [c \in Channels |-> [seq |-> wire[1].baseline[c], fresh |-> TRUE]]
            /\ told' = wire[1].baseline
        BY <1>14, <2>2, <3>2 DEF ReadHello
      <4> QED BY <2>3, <4>1 DEF CursorType
    <3> QED BY <3>1, <3>2
  <2> QED BY <1>0, <1>14, <2>2, <2>4, <2>5 DEF ReadHello, server, connection
<1>15. ASSUME ReadFrame
       PROVE  Keep
  <2>1. wire # <<>> /\ Head(wire).type = "event" /\ wire' = Tail(wire)
    BY <1>15 DEF ReadFrame
  <2>2. Head(wire) = wire[1] /\ wire[1] \in Downward /\ wire' \in Seq(Downward)
    BY <1>0, <2>1, TailFacts
  <2> DEFINE f == wire[1].frame
             c == f.channel
             view == Handled(View(c), f)
  <2>3. f \in Frames /\ c \in Channels /\ f.seq \in Nat
    BY <2>1, <2>2, DownwardKinds DEF Frames
  <2>4. CASE Buffering
    <3>1. held' = Pushed(f) /\ UNCHANGED <<cursor, history>>
      BY <1>15, <2>2, <2>4 DEF ReadFrame
    <3> DEFINE heads == [held.heads EXCEPT ![f.channel] = Max({held.heads[f.channel], f.seq})]
    <3>2. heads \in [Channels -> Nat]
      <4>1. held.heads \in [Channels -> Nat] /\ held.heads[c] \in Nat
        BY <1>0, <2>3 DEF HeldType
      <4>2. Max({held.heads[c], f.seq}) \in Nat
        <5>1. held.heads[c] \in Int /\ f.seq \in Int
          BY <2>3, <4>1
        <5> HIDE DEF f, c
        <5>2. Max({held.heads[c], f.seq}) \in {held.heads[c], f.seq}
          BY <5>1, MaxOfTwo
        <5> QED BY <2>3, <4>1, <5>2
      <4> QED BY <2>3, <4>1, <4>2
    <3>3. CASE held.overflow \/ Len(held.frames) = BufferCap
      <4>1. held' = [frames |-> <<>>, overflow |-> TRUE, heads |-> heads]
        BY <3>1, <3>3 DEF Pushed
      <4>2. held' \in HeldType /\ held'.frames = <<>>
        BY <3>2, <4>1, Blanks DEF HeldType
      <4>3. Len(held'.frames) <= BufferCap
        BY <4>2, Blanks, CapsAssumption
      <4> QED BY <1>0, <1>15, <2>2, <3>1, <4>2, <4>3 DEF ReadFrame, server, connection, history
    <3>4. CASE ~(held.overflow \/ Len(held.frames) = BufferCap)
      <4>1. held' = [frames |-> Append(held.frames, f), overflow |-> FALSE, heads |-> heads]
        BY <3>1, <3>4 DEF Pushed
      <4>2. held.frames \in Seq(Frames)
        BY <1>0 DEF HeldType
      <4>3. Append(held.frames, f) \in Seq(Frames) /\ Len(Append(held.frames, f)) = Len(held.frames) + 1
            /\ Len(held.frames) \in Nat
        BY <2>3, <4>2, AppendProperties, LenProperties
      <4> HIDE DEF heads, f
      <4>4. held' \in HeldType /\ held'.frames = Append(held.frames, f)
        BY <3>2, <4>1, <4>3 DEF HeldType
      <4>5. Len(held'.frames) <= BufferCap
        BY <1>0, <3>4, <4>3, <4>4, CapsAssumption
      <4> QED BY <1>0, <1>15, <2>2, <3>1, <4>4, <4>5 DEF ReadFrame, server, connection, history
    <3> QED BY <3>3, <3>4
  <2>5. CASE ~Buffering
    <3>1. /\ cursor' = [cursor EXCEPT ![c] = view.cur]
          /\ got' = [got EXCEPT ![c] = view.got]
          /\ lately' = [lately EXCEPT ![c] = view.lately]
          /\ told' = [told EXCEPT ![c] = view.told]
          /\ UNCHANGED held
      BY <1>15, <2>2, <2>5 DEF ReadFrame
    <3>2. view \in ViewType
      BY <1>0, <2>3, ViewsAreTyped, HandledFacts
    <3> HIDE DEF view, c
    <3>3. cursor' \in CursorType /\ got' \in [Channels -> SUBSET Nat]
          /\ lately' \in [Channels -> Seq(Nat)] /\ told' \in [Channels -> Nat]
      BY <1>0, <3>1, <3>2 DEF ViewType, CursorType
    <3> QED BY <1>0, <1>15, <2>2, <3>1, <3>3 DEF ReadFrame, server, connection
  <2> QED BY <2>4, <2>5
<1>16. ASSUME ReadDone
       PROVE  Keep
  <2>1. wire # <<>> /\ wire' = Tail(wire)
    BY <1>16 DEF ReadDone
  <2>2. wire' \in Seq(Downward)
    BY <1>0, <2>1, TailFacts
  <2>3. \A c \in Channels : Settled(c) \in ViewType
    BY <1>0, SettledFacts
  <2>4. cursor' \in CursorType /\ got' \in [Channels -> SUBSET Nat]
        /\ lately' \in [Channels -> Seq(Nat)] /\ told' \in [Channels -> Nat]
    BY <1>16, <2>3 DEF ReadDone, ViewType, CursorType
  <2>5. client' \in ClientType
    BY <1>0, <1>16 DEF ReadDone, ClientType
  <2>6. held' \in HeldType /\ Len(held'.frames) <= BufferCap
    BY <1>16, Blanks DEF ReadDone
  <2> QED BY <1>0, <1>16, <2>2, <2>4, <2>5, <2>6 DEF ReadDone, server, connection
<1>17. ASSUME Disconnected
       PROVE  /\ sub' \in SubType /\ queue' \in Seq(Frames) /\ Len(queue') <= QueueCap
              /\ pump' \in PumpType /\ sending' \in SendingType /\ up' \in Seq(Upward)
              /\ wire' \in Seq(Downward) /\ held' \in HeldType /\ Len(held'.frames) <= BufferCap
              /\ client' \in ClientType /\ cursor' \in CursorType /\ opens' \in 0 .. MaxOpens
              /\ pump'.pc # "drain"
  <2>1. client' \in ClientType
    BY <1>0, <1>17 DEF Disconnected, ClientType
  <2> QED BY <1>0, <1>17, <2>1, Blanks DEF Disconnected
<1>18. ASSUME Disconnect
       PROVE  Keep
  <2>1. Disconnected
    BY <1>18 DEF Disconnect
  <2> QED BY <1>0, <1>17, <1>18, <2>1 DEF Disconnect, server, history
<1>19. ASSUME Relaunch
       PROVE  Keep
  <2>1. Disconnected
    BY <1>19 DEF Relaunch
  <2>2. launch' \in 1 .. MaxLaunches
    BY <1>0, <1>19, EventBoundsAssumption DEF Relaunch
  <2>3. ring' \in RingType /\ foreign' \in [Channels -> SUBSET Nat] /\ got' \in [Channels -> SUBSET Nat]
        /\ lately' \in [Channels -> Seq(Nat)] /\ told' \in [Channels -> Nat]
    BY <1>19, Blanks DEF Relaunch, RingType
  <2> QED BY <1>17, <2>1, <2>2, <2>3
<1>20. ASSUME UNCHANGED vars
       PROVE  Keep
  BY <1>0, <1>20 DEF vars, server, connection, history
<1> HIDE DEF Keep
<1> QED BY <1>1, <1>2, <1>3, <1>4, <1>5, <1>6, <1>7, <1>8, <1>9, <1>10, <1>11, <1>12, <1>13, <1>14,
           <1>15, <1>16, <1>18, <1>19, <1>20, <1>q
        DEF Next, BusNext, PumpNext, LoopNext, ClientReads

\* Every variable has its type, whatever the channels, caps and bounds: the queue stays
\* within QueueCap, what the client holds within BufferCap (TypeOK of EventDelivery).
THEOREM TypeCorrect == Spec => []TypeOK
<1>1. Init => TypeInv
  BY TypeInvInit
<1>2. TypeInv /\ [Next]_vars => TypeInv'
  BY TypeInvStep
<1>3. TypeInv => TypeOK
  BY DEF TypeInv
<1> QED BY <1>1, <1>2, <1>3, PTL DEF Spec

-----------------------------------------------------------------------------
(* The shape of a connection.                                              *)

\* Nothing is left of a connection that is closed.
Closed ==
    ~client.open =>
        /\ sub = NoSubscriber /\ queue = <<>> /\ pump = IdlePump /\ sending = NoReplay
        /\ up = <<>> /\ wire = <<>> /\ held = NothingHeld /\ ~client.replaying

\* hello comes first, and tells the launch the connection belongs to.
Greeted ==
    /\ Framed(wire)
    /\ Greets(wire) => /\ wire[1].launch = launch /\ held = NothingHeld /\ client.replaying
                       /\ opens <= 1 => ~client.known
    /\ client.open /\ ~Greets(wire) => client.known /\ client.launch = launch
    /\ client.open => opens > 0

\* The cursors are of the launch whose hello was read last.
Known ==
    /\ client.known <=> client.launch # 0
    /\ client.launch <= launch
    /\ opens = 0 => ~client.known
    /\ client.recover => opens > 1 /\ (client.open => client.replaying)

\* A replay is asked for once, then sent, then completed by one marker.
Window ==
    /\ Once(up)
    /\ Asks(up) # {} => ~sending.busy /\ ~Ended(wire) /\ client.replaying
    /\ sending.busy => ~Ended(wire) /\ client.replaying
    /\ Ended(wire) => client.replaying
    /\ ~sending.busy => sending = NoReplay
    /\ \A m \in Asks(up) : m.known => client.known /\ opens > 1
    /\ opens <= 1 => \A c \in Channels : sending.frames[c] = {}
    /\ \A c \in Channels : \A f \in sending.frames[c] : f.channel = c

\* The client holds frames back in a replay window only.
Holding ==
    /\ ~Buffering => held = NothingHeld
    /\ held.overflow => held.frames = <<>>
    /\ \A c \in Channels : \A f \in Buffered(c) : f.seq <= held.heads[c]

\* The subscriber and its pump.
Pumping ==
    /\ pump.pc = "idle" => pump = IdlePump
    /\ \A f \in Range(queue) : f.kind # "mark"
    /\ sub.gapped \subseteq Channels \ LatestOnly
    /\ sub.armed => client.watch
    /\ States(up) => client.watch

\* The shape of a connection: the parts above.
Shape == Closed /\ Greeted /\ Known /\ Window /\ Holding /\ Pumping

\* An empty wire, and no requests.
LEMMA OnNothing ==
  /\ Framed(<<>>) /\ ~Greets(<<>>) /\ ~Ended(<<>>) /\ Once(<<>>) /\ Asks(<<>>) = {} /\ ~States(<<>>)
  /\ \A buf : Flying(<<>>, buf) = {} /\ Waiting(<<>>, buf) = {} /\ Rising(<<>>, buf)
  /\ Range(<<>>) = {}
<1>1. DOMAIN <<>> = {}
  OBVIOUS
<1> QED BY <1>1 DEF Framed, Greets, Ended, Once, Asks, States, Flying, Waiting, Rising, Range

\* A new connection's wire, and its requests.
LEMMA OnHello ==
  ASSUME NEW m, m.type = "hello", NEW buf
  PROVE  /\ Framed(<<m>>) /\ Greets(<<m>>) /\ ~Ended(<<m>>) /\ <<m>>[1] = m /\ <<m>> # <<>>
         /\ Flying(<<m>>, buf) = {} /\ Waiting(<<m>>, buf) = {} /\ Rising(<<m>>, buf)
<1> DEFINE w == <<m>>
<1>1. DOMAIN w = {1} /\ w[1] = m /\ w # <<>>
  OBVIOUS
<1> HIDE DEF w
<1>2. Framed(w) /\ Greets(w) /\ ~Ended(w)
  BY <1>1 DEF Framed, Greets, Ended
<1>3. Flying(w, buf) = {} /\ Waiting(w, buf) = {} /\ Rising(w, buf)
  BY <1>1 DEF Flying, Waiting, Rising, Live
<1> QED BY <1>1, <1>2, <1>3 DEF w

\* The requests of a new connection.
LEMMA OnOpening ==
  ASSUME NEW m, m.type = "replay", NEW b \in BOOLEAN
  PROVE  LET u == (IF b THEN <<[type |-> "watch"]>> ELSE <<>>) \o <<m>>
         IN Once(u) /\ Asks(u) = {m} /\ (States(u) => b)
<1> DEFINE w == [type |-> "watch"]
           u == (IF b THEN <<w>> ELSE <<>>) \o <<m>>
<1>1. CASE b
  <2>1. u = <<w>> \o <<m>>
    BY <1>1
  <2>2. DOMAIN u = {1, 2} /\ u[1].type = "watch" /\ u[2] = m
    <3> HIDE DEF u
    <3> DEFINE s == <<w>>
               t == <<m>>
               T == {w, m}
    <3>1. s \in Seq(T) /\ t \in Seq(T) /\ Len(s) = 1 /\ Len(t) = 1 /\ s[1] = w /\ t[1] = m /\ w.type = "watch"
      OBVIOUS
    <3> HIDE DEF s, t, T, w
    <3>2. /\ DOMAIN (s \o t) = 1 .. Len(s) + Len(t)
          /\ \A i \in 1 .. Len(s) : (s \o t)[i] = s[i]
          /\ \A i \in 1 .. Len(t) : (s \o t)[Len(s) + i] = t[i]
      BY <3>1, JoinFacts
    <3>3. DOMAIN (s \o t) = {1, 2} /\ (s \o t)[1] = w /\ (s \o t)[2] = m
      <4>1. 1 .. Len(s) + Len(t) = {1, 2} /\ 1 \in 1 .. Len(s) /\ 1 \in 1 .. Len(t) /\ Len(s) + 1 = 2
        BY <3>1
      <4>2. (s \o t)[Len(s) + 1] = t[1]
        BY <3>2, <4>1
      <4> QED BY <3>1, <3>2, <4>1, <4>2
    <3> QED BY <2>1, <3>1, <3>3 DEF s, t
  <2> HIDE DEF u
  <2> QED BY <1>1, <2>2 DEF Once, Asks, States, u
<1>2. CASE ~b
  <2>1. u = <<m>>
    BY <1>2
  <2> HIDE DEF u
  <2>2. DOMAIN u = {1} /\ u[1] = m
    BY <2>1
  <2> QED BY <1>2, <2>2 DEF Once, Asks, States, u
<1> QED BY <1>1, <1>2

\* An empty buffer holds nothing of any channel.
LEMMA NothingBuffered ==
  ASSUME held.frames = <<>>, NEW c
  PROVE  Mine(c) = {} /\ Buffered(c) = {}
<1>1. DOMAIN held.frames = {}
  OBVIOUS
<1> QED BY <1>1 DEF Mine, Buffered

\* The initial state has the shape of a closed connection.
LEMMA ShapeInit == Init => Shape
<1> SUFFICES ASSUME Init PROVE Shape
  OBVIOUS
<1>1. /\ wire = <<>> /\ queue = <<>> /\ up = <<>> /\ held = NothingHeld /\ sending = NoReplay
      /\ sub = NoSubscriber /\ pump = IdlePump /\ opens = 0 /\ launch = 1
      /\ ~client.open /\ ~client.known /\ client.launch = 0 /\ ~client.replaying /\ ~client.recover
  BY DEF Init
<1>2. held.frames = <<>> /\ ~held.overflow /\ sub.gapped = {} /\ ~sub.armed /\ ~sending.busy
      /\ \A c \in Channels : sending.frames[c] = {}
  BY <1>1 DEF NothingHeld, NoSubscriber, NoReplay
<1>3. \A c : Buffered(c) = {}
  BY <1>2, NothingBuffered
<1>4. Closed /\ Greeted /\ Known
  BY <1>1, OnNothing DEF Closed, Greeted, Known
<1>5. Window
  BY <1>1, <1>2, OnNothing DEF Window
<1>6. Holding
  BY <1>1, <1>2, <1>3 DEF Holding
<1>7. Pumping
  BY <1>1, <1>2, OnNothing DEF Pumping
<1> QED BY <1>4, <1>5, <1>6, <1>7 DEF Shape

\* What frames written to the wire leave as it is.
LEMMA WrittenShape ==
  ASSUME wire \in Seq(Downward), NEW fs \in Seq(Frames), Written(fs)
  PROVE  /\ Framed(wire) => Framed(wire')
         /\ Greets(wire') <=> Greets(wire)
         /\ Greets(wire) => wire'[1] = wire[1]
         /\ Ended(wire') <=> Ended(wire)
<1>1. wire' = wire \o Post(fs)
  BY WrittenFacts
<1>2. /\ Ended(wire') <=> Ended(wire)
      /\ wire # <<>> => Greets(wire') = Greets(wire) /\ wire'[1] = wire[1]
      /\ Framed(wire) => Framed(wire')
  BY <1>1, FlyingJoin
<1>3. CASE wire = <<>>
  <2>1. ~Greets(wire) /\ Framed(wire)
    BY <1>3, OnNothing
  <2>2. ~Greets(wire')
    <3>1. wire' = Post(fs)
      <4>1. Post(fs) \in Seq(Downward)
        BY PostType
      <4> QED BY <1>1, <1>3, <4>1, ConcatEmptySeq
    <3>2. wire' # <<>> => wire'[1].type = "event"
      <4>1. DOMAIN wire' = DOMAIN fs /\ (wire' # <<>> => 1 \in DOMAIN wire')
        <5>1. DOMAIN wire' = DOMAIN fs
          BY <3>1 DEF Post
        <5>2. wire' \in Seq(Downward)
          BY <3>1, PostType
        <5>3. wire' # <<>> => Len(wire') \in Nat \ {0}
          BY <5>2, EmptySeq
        <5>4. DOMAIN wire' = 1 .. Len(wire')
          BY <5>2, LenProperties
        <5> QED BY <5>1, <5>3, <5>4
      <4> QED BY <3>1, <4>1 DEF Post
    <3> QED BY <3>2 DEF Greets
  <2> QED BY <1>2, <2>1, <2>2
<1>4. CASE wire # <<>>
  BY <1>2, <1>4 DEF Greets
<1> QED BY <1>2, <1>3, <1>4

\* The elements of a concatenation.
LEMMA RangeJoin ==
  ASSUME NEW T, NEW s \in Seq(T), NEW t \in Seq(T)
  PROVE  Range(s \o t) = Range(s) \union Range(t)
<1> DEFINE n == Len(s)
           k == Len(t)
           v == s \o t
<1>1. /\ n \in Nat /\ k \in Nat /\ DOMAIN s = 1 .. n /\ DOMAIN t = 1 .. k /\ DOMAIN v = 1 .. n + k
      /\ \A i \in 1 .. n : v[i] = s[i]
      /\ \A i \in 1 .. k : v[n + i] = t[i]
  BY JoinFacts
<1> HIDE DEF n, k, v
<1>2. ASSUME NEW i \in 1 .. n + k
      PROVE  v[i] \in Range(s) \union Range(t)
  <2>1. CASE i \in 1 .. n
    BY <1>1, <2>1 DEF Range
  <2>2. CASE i \notin 1 .. n
    <3>1. i - n \in 1 .. k /\ n + (i - n) = i
      BY <1>1, <2>2
    <3>2. v[i] = t[i - n] /\ i - n \in DOMAIN t
      BY <1>1, <3>1
    <3> QED BY <3>2 DEF Range
  <2> QED BY <2>1, <2>2
<1>3. /\ \A i \in 1 .. n : i \in 1 .. n + k
      /\ \A i \in 1 .. k : n + i \in 1 .. n + k
  BY <1>1
<1>4. Range(v) \subseteq Range(s) \union Range(t)
  BY <1>1, <1>2 DEF Range
<1>5. Range(s) \subseteq Range(v)
  BY <1>1, <1>3 DEF Range
<1>6. Range(t) \subseteq Range(v)
  BY <1>1, <1>3 DEF Range
<1> QED BY <1>4, <1>5, <1>6 DEF v

\* A push keeps every frame or none, and its channel's head.
LEMMA PushedFacts ==
  ASSUME held.frames \in Seq(Frames), held.heads \in [Channels -> Nat], NEW f \in Frames, held' = Pushed(f),
         \A c \in Channels : \A g \in Buffered(c) : g.seq <= held.heads[c]
  PROVE  /\ held'.overflow => held'.frames = <<>>
         /\ held.overflow => held'.overflow
         /\ \A c \in Channels : \A g \in Buffered(c)' : g.seq <= held'.heads[c]
         /\ \A c \in Channels : held'.heads[c] \in {held.heads[c], f.seq} /\ held'.heads[c] >= held.heads[c]
         /\ held'.heads[f.channel] >= f.seq
         /\ \A c \in Channels : c # f.channel => held'.heads[c] = held.heads[c]
         /\ ~held'.overflow => Range(held'.frames) = Range(held.frames) \union {f}
         /\ held'.overflow => held'.frames = <<>>
<1> DEFINE top == Max({held.heads[f.channel], f.seq})
           heads == [held.heads EXCEPT ![f.channel] = top]
<1>1. f.channel \in Channels /\ f.seq \in Nat /\ held.heads[f.channel] \in Nat
  BY DEF Frames
<1>2. top \in {held.heads[f.channel], f.seq} /\ top >= f.seq /\ top >= held.heads[f.channel]
  <2>1. held.heads[f.channel] \in Int /\ f.seq \in Int
    BY <1>1
  <2> QED BY <2>1, MaxOfTwo
<1> HIDE DEF top
<1>3. /\ \A c \in Channels : heads[c] \in {held.heads[c], f.seq} /\ heads[c] >= held.heads[c] /\ heads[c] \in Nat
      /\ heads[f.channel] >= f.seq
      /\ \A c \in Channels : c # f.channel => heads[c] = held.heads[c]
  BY <1>1, <1>2
<1> HIDE DEF heads
<1>4. CASE held.overflow \/ Len(held.frames) = BufferCap
  <2>1. held' = [frames |-> <<>>, overflow |-> TRUE, heads |-> heads]
    BY <1>4 DEF Pushed, heads, top
  <2>2. held'.frames = <<>> /\ held'.overflow /\ held'.heads = heads
    BY <2>1
  <2>3. \A c : Buffered(c)' = {}
    <3> SUFFICES ASSUME NEW c PROVE Buffered(c)' = {}
      OBVIOUS
    <3>1. DOMAIN held'.frames = {}
      BY <2>2
    <3> QED BY <3>1 DEF Buffered, Mine
  <2> QED BY <1>3, <2>2, <2>3
<1>5. CASE ~(held.overflow \/ Len(held.frames) = BufferCap)
  <2>1. held' = [frames |-> Append(held.frames, f), overflow |-> FALSE, heads |-> heads]
    BY <1>5 DEF Pushed, heads, top
  <2>2. held'.frames = Append(held.frames, f) /\ ~held'.overflow /\ held'.heads = heads
    BY <2>1
  <2>3. Range(held'.frames) = Range(held.frames) \union {f}
    BY <2>2, RangeAppend
  <2>4. ASSUME NEW c \in Channels, NEW g \in Buffered(c)'
        PROVE  g.seq <= heads[c]
    <3>1. g \in Range(held'.frames) /\ g.channel = c
      BY <2>4 DEF Buffered, Mine, Range
    <3>2. CASE g = f
      BY <1>3, <3>1, <3>2
    <3>3. CASE g \in Range(held.frames)
      <4>1. g \in Buffered(c)
        BY <3>1, <3>3 DEF Buffered, Mine, Range
      <4>2. g.seq <= held.heads[c] /\ g.seq \in Nat /\ held.heads[c] \in Nat
        <5>1. g \in Frames
          BY <3>3, RangeOfSeq
        <5> QED BY <4>1, <5>1 DEF Frames
      <4> QED BY <1>3, <4>2
    <3> QED BY <2>3, <3>1, <3>2, <3>3
  <2> QED BY <1>3, <1>5, <2>2, <2>3, <2>4
<1> QED BY <1>4, <1>5

\* TypeOK, variable by variable.
LEMMA TypeFacts ==
  ASSUME TypeOK
  PROVE  /\ queue \in Seq(Frames) /\ wire \in Seq(Downward) /\ up \in Seq(Upward)
         /\ client \in ClientType /\ opens \in Nat /\ launch \in Nat /\ launch # 0 /\ client.launch \in Nat
         /\ sub \in SubType /\ pump \in PumpType /\ sending \in SendingType /\ held \in HeldType
         /\ ring \in RingType /\ foreign \in [Channels -> SUBSET Nat] /\ cursor \in CursorType
         /\ got \in [Channels -> SUBSET Nat] /\ lately \in [Channels -> Seq(Nat)] /\ told \in [Channels -> Nat]
<1>1. /\ queue \in Seq(Frames) /\ wire \in Seq(Downward) /\ up \in Seq(Upward)
      /\ client \in ClientType
      /\ sub \in SubType /\ pump \in PumpType /\ sending \in SendingType /\ held \in HeldType
      /\ ring \in RingType /\ foreign \in [Channels -> SUBSET Nat] /\ cursor \in CursorType
      /\ got \in [Channels -> SUBSET Nat] /\ lately \in [Channels -> Seq(Nat)] /\ told \in [Channels -> Nat]
  BY DEF TypeOK, SubType, PumpType, SendingType, HeldType, RingType, ClientType, CursorType
<1>2. opens \in 0 .. MaxOpens /\ launch \in 1 .. MaxLaunches
  BY DEF TypeOK
<1>3. client.launch \in 0 .. MaxLaunches
  BY <1>1 DEF ClientType
<1>4. opens \in Nat /\ launch \in Nat /\ launch # 0 /\ client.launch \in Nat
  BY <1>2, <1>3
<1> QED BY <1>1, <1>4

\* Every step keeps the shape of the connection.
LEMMA ShapeStep == TypeInv /\ TypeInv' /\ Shape /\ [Next]_vars => Shape'
<1> SUFFICES ASSUME TypeInv, TypeInv', Shape, [Next]_vars PROVE Shape'
  OBVIOUS
<1>0. /\ queue \in Seq(Frames) /\ wire \in Seq(Downward) /\ up \in Seq(Upward)
      /\ client \in ClientType /\ opens \in Nat /\ launch \in Nat /\ client.launch \in Nat
      /\ sub \in SubType /\ pump \in PumpType /\ sending \in SendingType /\ held \in HeldType
      /\ ring \in RingType /\ TypeOK
  <2>1. TypeOK
    BY DEF TypeInv
  <2> QED BY <2>1, TypeFacts
<1>h. Closed /\ Greeted /\ Known /\ Window /\ Holding /\ Pumping
  BY DEF Shape
<1>b. Buffering \in BOOLEAN
  BY <1>0 DEF Buffering, ClientType
<1>1. ASSUME NEW c \in Channels, NEW away \in BOOLEAN, Emit(c, away)
      PROVE  Shape'
  <2>1. UNCHANGED <<launch, pump, sending, up, wire, client, cursor, held, opens>>
    BY <1>1 DEF Emit
  <2>2. CASE ~sub.on
    <3>1. UNCHANGED <<sub, queue>>
      BY <1>1, <2>2 DEF Emit
    <3> QED BY <1>h, <2>1, <3>1 DEF Shape, Closed, Greeted, Known, Window, Holding, Pumping, Buffering,
               Buffered, Mine
  <2>3. CASE sub.on
    <3>1. client.open
      BY <1>h, <2>3 DEF Closed, NoSubscriber
    <3>2. /\ sub'.armed = sub.armed /\ sub'.gapped \subseteq Channels \ LatestOnly
          /\ \A f \in Range(queue') : f.kind # "mark"
      <4>1. CASE sub.armed /\ away
        <5>1. NoteWithheld(c, ring[c].seq + 1) /\ queue' = queue
          BY <1>1, <2>3, <4>1 DEF Emit
        <5> QED BY <1>0, <1>h, <5>1 DEF NoteWithheld, SubType, Pumping
      <4>2. CASE ~(sub.armed /\ away)
        <5>1. Enqueue(c, ring[c].seq + 1)
          BY <1>1, <2>3, <4>2 DEF Emit
        <5>2. ring[c].seq + 1 \in Nat
          BY <1>0 DEF RingType
        <5>3. PICK flushed \in SUBSET (sub.gapped \ {c}), fits \in BOOLEAN, fs \in Seq(Frames) :
                /\ queue' = queue \o fs
                /\ Range(fs) = Markers(flushed)
                      \union (IF fits THEN {Frame(c, Kind(c), ring[c].seq + 1)} ELSE {})
                /\ sub' = [sub EXCEPT !.gapped = (sub.gapped \ (flushed \union {c}))
                                                 \union (IF fits THEN {} ELSE Dropped(c)),
                                      !.withheld = ClearWithheld(c)]
          BY <1>0, <5>1, <5>2, EnqueueFacts
        <5>4. \A f \in Range(fs) : f.kind # "mark"
          BY <5>3 DEF Markers, Frame, Kind
        <5>5. Range(queue') = Range(queue) \union Range(fs)
          BY <1>0, <5>3, RangeJoin
        <5>6. sub'.armed = sub.armed /\ sub'.gapped \subseteq Channels \ LatestOnly
          BY <1>0, <1>h, <5>3 DEF SubType, Dropped, Pumping
        <5> QED BY <1>h, <5>4, <5>5, <5>6 DEF Pumping
      <4> QED BY <4>1, <4>2
    <3> QED BY <1>h, <2>1, <3>1, <3>2 DEF Shape, Closed, Greeted, Known, Window, Holding, Pumping, Buffering,
               Buffered, Mine
  <2> QED BY <2>2, <2>3
<1>2. ASSUME NEW c \in Channels, Release(c)
      PROVE  Shape'
  BY <1>h, <1>2 DEF Release, connection, Shape, Closed, Greeted, Known, Window, Holding, Pumping,
                    Buffering, Buffered, Mine

\* The pump forwards the queue's head.
<1>3. ASSUME queue # <<>>, queue' = Tail(queue), Written(<<Head(queue)>>), pump'.pc = "idle" => pump' = IdlePump,
             UNCHANGED <<launch, sub, sending, up, client, cursor, held, opens>>
      PROVE  Shape'
  <2>1. <<Head(queue)>> \in Seq(Frames) /\ Range(queue') \subseteq Range(queue)
    BY <1>0, <1>3, HeadOfQueue, RangeTail
  <2>2. /\ Framed(wire) => Framed(wire')
        /\ Greets(wire') <=> Greets(wire)
        /\ Greets(wire) => wire'[1] = wire[1]
        /\ Ended(wire') <=> Ended(wire)
    BY <1>0, <1>3, <2>1, WrittenShape
  <2>3. client.open
    BY <1>h, <1>3 DEF Closed
  <2>4. Closed'
    BY <1>3, <2>3 DEF Closed
  <2>5. Greeted' /\ Window'
    BY <1>h, <1>3, <2>2 DEF Greeted, Window
  <2>6. Known' /\ Holding'
    BY <1>h, <1>3 DEF Known, Holding, Buffering, Buffered, Mine
  <2>7. Pumping'
    BY <1>h, <1>3, <2>1 DEF Pumping
  <2> QED BY <2>4, <2>5, <2>6, <2>7 DEF Shape
<1>4. ASSUME PumpEvent
      PROVE  Shape'
  <2>1. pump' = pump /\ queue # <<>> /\ queue' = Tail(queue) /\ Written(<<Head(queue)>>)
        /\ UNCHANGED <<launch, sub, sending, up, client, cursor, held, opens>>
    BY <1>4 DEF PumpEvent, server
  <2> QED BY <1>3, <1>h, <2>1 DEF Pumping
<1>5. ASSUME DrainEvent
      PROVE  Shape'
  <2>1. queue' = Tail(queue) /\ Written(<<Head(queue)>>)
        /\ UNCHANGED <<launch, sub, sending, up, client, cursor, held, opens>>
        /\ pump.left > 0 /\ pump.pc = "drain" /\ pump' = [pump EXCEPT !.left = pump.left - 1]
    BY <1>5 DEF DrainEvent, server
  <2>2. queue # <<>>
    <3>1. pump.left <= Len(queue) /\ pump.left \in Nat
      BY <1>0, <2>1 DEF TypeInv, PumpType
    <3> QED BY <1>0, <2>1, <3>1, EmptySeq
  <2>3. pump'.pc = "drain"
    BY <1>0, <2>1 DEF PumpType
  <2> QED BY <1>3, <2>1, <2>2, <2>3

\* The pump turns to the withheld frames.
<1>6. ASSUME TakeWithheld \/ CountQueue
      PROVE  Shape'
  <2>1. /\ client.open /\ pump'.pc # "idle"
        /\ sub'.armed = sub.armed /\ sub'.gapped = sub.gapped
        /\ UNCHANGED <<launch, queue, sending, up, wire, client, cursor, held, opens>>
    <3>1. CASE TakeWithheld
      BY <1>0, <1>h, <3>1 DEF TakeWithheld, Closed, NoSubscriber, SubType, server
    <3>2. CASE CountQueue
      BY <1>0, <1>h, <3>2 DEF CountQueue, Closed, IdlePump, PumpType, server
    <3> QED BY <1>6, <3>1, <3>2
  <2> QED BY <1>h, <2>1 DEF Shape, Closed, Greeted, Known, Window, Holding, Pumping, Buffering, Buffered, Mine
<1>7. ASSUME WriteMarks
      PROVE  Shape'
  <2>1. /\ pump.pc = "drain" /\ pump' = IdlePump /\ Written(SetToSeq(MarksToWrite))
        /\ UNCHANGED <<launch, sub, queue, sending, up, client, cursor, held, opens>>
    BY <1>7 DEF WriteMarks, MarksToWrite, server
  <2>2. /\ Framed(wire) => Framed(wire')
        /\ Greets(wire') <=> Greets(wire)
        /\ Greets(wire) => wire'[1] = wire[1]
        /\ Ended(wire') <=> Ended(wire)
    BY <1>0, <2>1, MarksToWriteFacts, WrittenShape
  <2>3. client.open
    BY <1>h, <2>1 DEF Closed, IdlePump
  <2>4. Closed'
    BY <2>1, <2>3 DEF Closed
  <2>5. Greeted' /\ Window'
    BY <1>h, <2>1, <2>2 DEF Greeted, Window
  <2>6. Known' /\ Holding' /\ Pumping'
    BY <1>h, <2>1 DEF Known, Holding, Pumping, Buffering, Buffered, Mine
  <2> QED BY <2>4, <2>5, <2>6 DEF Shape
<1>8. ASSUME ReadWatch
      PROVE  Shape'
  <2>1. /\ up # <<>> /\ Head(up).type = "watch" /\ ~sending.busy /\ up' = Tail(up)
        /\ sub' = [sub EXCEPT !.armed = TRUE]
        /\ UNCHANGED <<launch, queue, pump, sending, wire, client, cursor, held, opens>>
    BY <1>8 DEF ReadWatch, server
  <2>2. up[1].type = "watch"
    BY <1>0, <2>1, TailFacts
  <2>3. Asks(up') = Asks(up) /\ Once(up') /\ States(up) /\ (States(up') => States(up))
    BY <1>0, <1>h, <2>1, <2>2, RequestTail DEF Window
  <2>4. client.open
    BY <1>h, <2>1 DEF Closed
  <2>5. Closed' /\ Greeted' /\ Known' /\ Holding'
    BY <1>h, <2>1, <2>4 DEF Closed, Greeted, Known, Holding, Buffering, Buffered, Mine
  <2>6. Window'
    BY <1>h, <2>1, <2>3 DEF Window
  <2>7. Pumping'
    BY <1>0, <1>h, <2>1, <2>3 DEF Pumping, SubType
  <2> QED BY <2>5, <2>6, <2>7 DEF Shape
<1>9. ASSUME ReadReplay
      PROVE  Shape'
  <2>1. /\ up # <<>> /\ Head(up).type = "replay" /\ ~sending.busy /\ up' = Tail(up)
        /\ UNCHANGED <<launch, sub, queue, pump, wire, client, cursor, held, opens>>
    BY <1>9 DEF ReadReplay, server
  <2>2. up[1].type = "replay" /\ Head(up) = up[1] /\ up[1] \in Upward
    BY <1>0, <2>1, TailFacts
  <2>3. sending' = [busy |-> TRUE,
                    frames |-> [c \in Channels |-> IF up[1].known THEN Filtered(c, up[1].from[c]) ELSE {}]]
    BY <1>9, <2>2 DEF ReadReplay
  <2>4. Asks(up) = {up[1]} /\ Asks(up') = {} /\ Once(up') /\ (States(up') => States(up))
    BY <1>0, <1>h, <2>1, <2>2, RequestTail DEF Window
  <2>5. client.open
    BY <1>h, <2>1 DEF Closed
  <2>6. /\ ~Ended(wire) /\ client.replaying
        /\ up[1].known => client.known /\ opens > 1
    BY <1>h, <2>4 DEF Window
  <2>7. Closed' /\ Greeted' /\ Known' /\ Holding' /\ Pumping'
    BY <1>h, <2>1, <2>4, <2>5 DEF Closed, Greeted, Known, Holding, Pumping, Buffering, Buffered, Mine
  <2>8. \A c \in Channels : /\ \A f \in sending'.frames[c] : f.channel = c
                            /\ opens <= 1 => sending'.frames[c] = {}
    <3> SUFFICES ASSUME NEW c \in Channels
                 PROVE  /\ \A f \in sending'.frames[c] : f.channel = c
                        /\ opens <= 1 => sending'.frames[c] = {}
      OBVIOUS
    <3>1. up[1].from[c] \in Nat
      BY <2>2, UpwardKinds
    <3>2. \A f \in Filtered(c, up[1].from[c]) : f.channel = c
      BY <1>0, <3>1, FilteredFacts
    <3>3. sending'.frames[c] = IF up[1].known THEN Filtered(c, up[1].from[c]) ELSE {}
      BY <2>3
    <3> QED BY <1>0, <2>6, <3>2, <3>3
  <2>9. sending'.busy
    BY <2>3
  <2>10. Window'
    BY <2>1, <2>4, <2>6, <2>8, <2>9 DEF Window
  <2> QED BY <2>7, <2>10 DEF Shape
<1>10. ASSUME NEW c \in Channels, WriteReplay(c)
       PROVE  Shape'
  <2>1. PICK f \in sending.frames[c] :
           /\ Written(<<f>>)
           /\ sending' = [sending EXCEPT !.frames[c] = sending.frames[c] \ {f}]
    BY <1>10 DEF WriteReplay
  <2>2. UNCHANGED <<launch, sub, queue, pump, up, client, cursor, held, opens>>
    BY <1>10 DEF WriteReplay, server
  <2>3. <<f>> \in Seq(Frames)
    <3>1. f \in Frames
      BY <1>0, <2>1 DEF SendingType
    <3> QED BY <3>1
  <2>4. /\ Framed(wire) => Framed(wire')
        /\ Greets(wire') <=> Greets(wire)
        /\ Greets(wire) => wire'[1] = wire[1]
        /\ Ended(wire') <=> Ended(wire)
    BY <1>0, <2>1, <2>3, WrittenShape
  <2>5. sending.busy /\ client.open
    BY <1>h, <2>1 DEF Window, Closed, NoReplay
  <2>6. sending'.busy /\ \A d \in Channels : sending'.frames[d] \subseteq sending.frames[d]
    BY <1>0, <2>1, <2>5 DEF SendingType
  <2>7. Closed' /\ Greeted' /\ Known' /\ Holding' /\ Pumping'
    BY <1>h, <2>2, <2>4, <2>5 DEF Closed, Greeted, Known, Holding, Pumping, Buffering, Buffered, Mine
  <2>8. Window'
    BY <1>h, <2>2, <2>4, <2>5, <2>6 DEF Window
  <2> QED BY <2>7, <2>8 DEF Shape
<1>11. ASSUME WriteDone
       PROVE  Shape'
  <2>1. /\ sending.busy /\ wire' = Append(wire, Marker) /\ sending' = NoReplay
        /\ UNCHANGED <<launch, sub, queue, pump, up, client, cursor, held, opens>>
    BY <1>11 DEF WriteDone, Marker, server
  <2>2. /\ Ended(wire')
        /\ Framed(wire) /\ ~Ended(wire) => Framed(wire')
        /\ wire # <<>> => Greets(wire') = Greets(wire) /\ wire'[1] = wire[1]
        /\ wire = <<>> => ~Greets(wire')
    BY <1>0, <2>1, MarkerJoin
  <2>3. client.open /\ ~Ended(wire) /\ client.replaying /\ Asks(up) = {}
    BY <1>h, <2>1 DEF Closed, Window, NoReplay
  <2>4. (Greets(wire') <=> Greets(wire)) /\ (Greets(wire) => wire'[1] = wire[1])
    BY <2>2 DEF Greets
  <2>5. Closed' /\ Greeted' /\ Known' /\ Holding' /\ Pumping'
    BY <1>h, <2>1, <2>2, <2>3, <2>4 DEF Closed, Greeted, Known, Holding, Pumping, Buffering, Buffered, Mine
  <2>6. Window'
    BY <1>h, <2>1, <2>2, <2>3 DEF Window, NoReplay
  <2> QED BY <2>5, <2>6 DEF Shape
<1>12. ASSUME Open
       PROVE  Shape'
  <2> DEFINE m == [type |-> "replay", known |-> client.known, from |-> [c \in Channels |-> cursor[c].seq]]
             hello == [type |-> "hello", launch |-> launch, baseline |-> [c \in Channels |-> ring[c].seq]]
  <2>1. /\ ~client.open /\ opens' = opens + 1 /\ sub' = [NoSubscriber EXCEPT !.on = TRUE]
        /\ client' = [client EXCEPT !.open = TRUE, !.replaying = TRUE]
        /\ up' = (IF client.watch THEN <<[type |-> "watch"]>> ELSE <<>>) \o <<m>>
        /\ wire' = <<hello>>
        /\ UNCHANGED <<launch, queue, pump, sending, held>>
    BY <1>12 DEF Open, server
  <2>2. m.type = "replay" /\ hello.type = "hello" /\ hello.launch = launch /\ m.known = client.known
    OBVIOUS
  <2> HIDE DEF m, hello
  <2>3. /\ Framed(wire') /\ Greets(wire') /\ ~Ended(wire') /\ wire'[1] = hello
    BY <2>1, <2>2, OnHello
  <2>4. Once(up') /\ Asks(up') = {m} /\ (States(up') => client.watch)
    BY <1>0, <2>1, <2>2, OnOpening DEF ClientType
  <2>5. /\ sub = NoSubscriber /\ queue = <<>> /\ pump = IdlePump /\ sending = NoReplay
        /\ held = NothingHeld /\ ~client.replaying
    BY <1>h, <2>1 DEF Closed
  <2>6. /\ client'.open /\ client'.replaying /\ client'.known = client.known /\ client'.launch = client.launch
        /\ client'.watch = client.watch /\ client'.recover = client.recover
    BY <1>0, <2>1 DEF ClientType
  <2>7. Closed' /\ Known'
    BY <1>0, <1>h, <2>1, <2>6 DEF Closed, Known
  <2>8. Greeted'
    <3>1. opens' <= 1 => opens = 0
      BY <1>0, <2>1
    <3>2. opens' > 0
      BY <1>0, <2>1
    <3> QED BY <1>h, <2>1, <2>2, <2>3, <2>5, <2>6, <3>1, <3>2 DEF Greeted, Known
  <2>9. Window'
    <3>1. ~sending'.busy /\ \A c \in Channels : sending'.frames[c] = {}
      BY <2>1, <2>5 DEF NoReplay
    <3>2. client.known => opens' > 1
      BY <1>0, <1>h, <2>1 DEF Known
    <3> QED BY <2>1, <2>2, <2>3, <2>4, <2>5, <2>6, <3>1, <3>2 DEF Window
  <2>10. Holding'
    <3>1. held' = NothingHeld /\ held'.frames = <<>> /\ ~held'.overflow
      BY <2>1, <2>5 DEF NothingHeld
    <3>2. \A c : Buffered(c)' = {}
      <4> SUFFICES ASSUME NEW c PROVE Buffered(c)' = {}
        OBVIOUS
      <4>1. DOMAIN held'.frames = {}
        BY <3>1
      <4> QED BY <4>1 DEF Buffered, Mine
    <3> QED BY <3>1, <3>2 DEF Holding
  <2>11. Pumping'
    <3>1. sub'.gapped = {} /\ ~sub'.armed
      BY <2>1 DEF NoSubscriber
    <3>2. Range(queue') = {}
      BY <2>1, <2>5, OnNothing
    <3> QED BY <2>1, <2>4, <2>5, <2>6, <3>1, <3>2 DEF Pumping
  <2> QED BY <2>7, <2>8, <2>9, <2>10, <2>11 DEF Shape
<1>13. ASSUME Watch
       PROVE  Shape'
  <2>1. /\ client' = [client EXCEPT !.watch = TRUE]
        /\ up' = IF client.open THEN Append(up, [type |-> "watch"]) ELSE up
        /\ UNCHANGED <<launch, sub, queue, pump, sending, wire, held, opens>>
    BY <1>13 DEF Watch, server, connection
  <2>2. /\ client'.open = client.open /\ client'.replaying = client.replaying /\ client'.known = client.known
        /\ client'.launch = client.launch /\ client'.watch /\ client'.recover = client.recover
    BY <1>0, <2>1 DEF ClientType
  <2>3. Asks(up') = Asks(up) /\ Once(up') /\ (~client.open => up' = up)
    <3>1. CASE client.open
      <4>1. [type |-> "watch"] \in Upward /\ [type |-> "watch"].type = "watch"
        BY DEF Upward
      <4>2. Once(up)
        BY <1>h DEF Window
      <4> QED BY <1>0, <2>1, <3>1, <4>1, <4>2, RequestAppend
    <3>2. CASE ~client.open
      BY <1>h, <2>1, <3>2 DEF Window
    <3> QED BY <3>1, <3>2
  <2>4. Buffering' = Buffering
    BY <2>1, <2>2 DEF Buffering
  <2>5. Closed' /\ Greeted' /\ Known'
    BY <1>h, <2>1, <2>2, <2>3 DEF Closed, Greeted, Known
  <2>6. Window'
    BY <1>h, <2>1, <2>2, <2>3 DEF Window
  <2>7. Holding'
    BY <1>h, <2>1, <2>4 DEF Holding, Buffered, Mine
  <2>8. Pumping'
    BY <1>h, <2>1, <2>2 DEF Pumping
  <2> QED BY <2>5, <2>6, <2>7, <2>8 DEF Shape
<1>14. ASSUME ReadHello
       PROVE  Shape'
  <2>1. /\ wire # <<>> /\ Head(wire).type = "hello" /\ wire' = Tail(wire)
        /\ UNCHANGED <<launch, sub, queue, pump, sending, up, held, opens>>
    BY <1>14 DEF ReadHello, server, connection
  <2>2. Head(wire) = wire[1] /\ wire[1] \in Downward /\ wire[1].type = "hello"
    BY <1>0, <2>1, TailFacts
  <2>3. Greets(wire) /\ ~Greets(wire') /\ Framed(wire') /\ (Ended(wire') <=> Ended(wire))
    BY <1>0, <1>h, <1>b, <2>1, <2>2, FlyingTail DEF Greeted
  <2>4. wire[1].launch = launch /\ held = NothingHeld /\ client.replaying /\ (opens <= 1 => ~client.known)
    BY <1>h, <2>3 DEF Greeted
  <2>5. client' = [client EXCEPT !.launch = launch, !.known = TRUE,
                                 !.recover = client.recover \/ (Restarted(wire[1]) /\ client.known)]
    BY <1>14, <2>2, <2>4 DEF ReadHello
  <2>6. /\ client'.open = client.open /\ client'.replaying /\ client'.known
        /\ client'.launch = launch /\ client'.watch = client.watch
        /\ client'.recover => client.recover \/ client.known
    BY <1>0, <2>4, <2>5 DEF ClientType
  <2>7. client.open /\ opens > 0 /\ launch # 0
    <3>1. client.open
      BY <1>h, <2>1 DEF Closed
    <3>2. launch # 0
      BY DEF TypeInv, TypeOK
    <3> QED BY <1>h, <3>1, <3>2 DEF Greeted
  <2>8. Closed' /\ Greeted'
    BY <2>1, <2>3, <2>6, <2>7 DEF Closed, Greeted
  <2>9. Known'
    <3>1. client.known => opens > 1
      BY <1>0, <2>4
    <3>2. client.recover => opens > 1
      BY <1>h DEF Known
    <3> QED BY <1>0, <2>1, <2>6, <2>7, <3>1, <3>2 DEF Known
  <2>10. Window'
    BY <1>h, <2>1, <2>3, <2>4, <2>6 DEF Window
  <2>11. Holding'
    BY <1>h, <2>1, <2>4, <2>6 DEF Holding, Buffering, Buffered, Mine
  <2>12. Pumping'
    BY <1>h, <2>1, <2>6 DEF Pumping
  <2> QED BY <2>8, <2>9, <2>10, <2>11, <2>12 DEF Shape
<1>15. ASSUME ReadFrame
       PROVE  Shape'
  <2>1. /\ wire # <<>> /\ Head(wire).type = "event" /\ wire' = Tail(wire)
        /\ UNCHANGED <<launch, sub, queue, pump, sending, up, client, opens>>
    BY <1>15 DEF ReadFrame, server, connection
  <2>2. Head(wire) = wire[1] /\ wire[1] \in Downward /\ wire[1].type = "event"
    BY <1>0, <2>1, TailFacts
  <2> DEFINE f == wire[1].frame
  <2>3. ~Greets(wire) /\ ~Greets(wire') /\ Framed(wire') /\ (Ended(wire') <=> Ended(wire))
    BY <1>0, <1>h, <1>b, <2>1, <2>2, FlyingTail DEF Greeted
  <2>4. client.open
    BY <1>h, <2>1 DEF Closed
  <2>5. Closed' /\ Greeted' /\ Known' /\ Window' /\ Pumping'
    BY <1>h, <2>1, <2>3, <2>4 DEF Closed, Greeted, Known, Window, Pumping
  <2>6. Holding'
    <3>1. CASE ~Buffering
      <4>1. held' = held
        BY <1>15, <3>1 DEF ReadFrame
      <4> QED BY <1>h, <2>1, <4>1 DEF Holding, Buffering, Buffered, Mine
    <3>2. CASE Buffering
      <4>1. held' = Pushed(f) /\ Buffering'
        BY <1>15, <2>1, <2>2, <3>2 DEF ReadFrame, Buffering
      <4>2. f \in Frames
        BY <2>2, DownwardKinds
      <4>3. /\ held'.overflow => held'.frames = <<>>
            /\ \A c \in Channels : \A g \in Buffered(c)' : g.seq <= held'.heads[c]
        <5>1. /\ held.frames \in Seq(Frames) /\ held.heads \in [Channels -> Nat]
              /\ \A c \in Channels : \A g \in Buffered(c) : g.seq <= held.heads[c]
          BY <1>0, <1>h DEF HeldType, Holding
        <5> HIDE DEF f
        <5> QED BY <4>1, <4>2, <5>1, PushedFacts
      <4> QED BY <4>1, <4>3 DEF Holding
    <3> QED BY <3>1, <3>2
  <2> QED BY <2>5, <2>6 DEF Shape
<1>16. ASSUME ReadDone
       PROVE  Shape'
  <2>1. /\ wire # <<>> /\ Head(wire).type = "replay" /\ wire' = Tail(wire) /\ held' = NothingHeld
        /\ client' = [client EXCEPT !.replaying = FALSE, !.recover = FALSE]
        /\ UNCHANGED <<launch, sub, queue, pump, sending, up, opens>>
    BY <1>16 DEF ReadDone, server, connection
  <2>2. Head(wire) = wire[1] /\ wire[1] \in Downward /\ wire[1].type = "replay"
    BY <1>0, <2>1, TailFacts
  <2>3. ~Greets(wire) /\ ~Greets(wire') /\ Framed(wire') /\ ~Ended(wire') /\ Ended(wire)
    BY <1>0, <1>h, <1>b, <2>1, <2>2, FlyingTail DEF Greeted
  <2>4. client.open
    BY <1>h, <2>1 DEF Closed
  <2>5. /\ client'.open = client.open /\ ~client'.replaying /\ client'.known = client.known
        /\ client'.launch = client.launch /\ client'.watch = client.watch /\ ~client'.recover
    BY <1>0, <2>1 DEF ClientType
  <2>6. Closed' /\ Greeted' /\ Known' /\ Pumping'
    BY <1>h, <2>1, <2>3, <2>4, <2>5 DEF Closed, Greeted, Known, Pumping
  <2>7. Window'
    BY <1>h, <2>1, <2>3, <2>5 DEF Window
  <2>8. Holding'
    <3>1. held' = NothingHeld /\ held'.frames = <<>> /\ ~held'.overflow
      BY <2>1 DEF NothingHeld
    <3>2. \A c : Buffered(c)' = {}
      <4> SUFFICES ASSUME NEW c PROVE Buffered(c)' = {}
        OBVIOUS
      <4>1. DOMAIN held'.frames = {}
        BY <3>1
      <4> QED BY <4>1 DEF Buffered, Mine
    <3> QED BY <3>1, <3>2 DEF Holding
  <2> QED BY <2>6, <2>7, <2>8 DEF Shape
<1>17. ASSUME Disconnected, launch' >= launch, launch' \in Nat
       PROVE  Shape'
  <2>1. /\ sub' = NoSubscriber /\ queue' = <<>> /\ pump' = IdlePump /\ sending' = NoReplay
        /\ up' = <<>> /\ wire' = <<>> /\ held' = NothingHeld /\ opens' = opens
        /\ client' = [client EXCEPT !.open = FALSE, !.replaying = FALSE]
    BY <1>17 DEF Disconnected
  <2>2. /\ ~client'.open /\ ~client'.replaying /\ client'.known = client.known
        /\ client'.launch = client.launch /\ client'.watch = client.watch /\ client'.recover = client.recover
    BY <1>0, <2>1 DEF ClientType
  <2>3. held'.frames = <<>> /\ ~held'.overflow /\ sub'.gapped = {} /\ ~sub'.armed /\ ~sending'.busy
        /\ \A c \in Channels : sending'.frames[c] = {}
    BY <2>1 DEF NothingHeld, NoSubscriber, NoReplay
  <2>4. \A c : Buffered(c)' = {}
    <3> SUFFICES ASSUME NEW c PROVE Buffered(c)' = {}
      OBVIOUS
    <3>1. DOMAIN held'.frames = {}
      BY <2>3
    <3> QED BY <3>1 DEF Buffered, Mine
  <2>5. Known'
    <3>1. client.launch <= launch'
      BY <1>0, <1>h, <1>17 DEF Known
    <3> QED BY <1>h, <2>1, <2>2, <3>1 DEF Known
  <2>6. Closed' /\ Greeted'
    BY <2>1, <2>2, OnNothing DEF Closed, Greeted
  <2>7. Window'
    BY <2>1, <2>3, OnNothing DEF Window
  <2>8. Holding' /\ Pumping'
    BY <2>1, <2>3, <2>4, OnNothing DEF Holding, Pumping
  <2> QED BY <2>5, <2>6, <2>7, <2>8 DEF Shape
<1>18. ASSUME Disconnect \/ Relaunch
       PROVE  Shape'
  BY <1>0, <1>17, <1>18 DEF Disconnect, Relaunch, server
<1>19. ASSUME UNCHANGED vars
       PROVE  Shape'
  BY <1>h, <1>19 DEF vars, server, connection, Shape, Closed, Greeted, Known, Window, Holding, Pumping,
                     Buffering, Buffered, Mine
<1> QED BY <1>1, <1>2, <1>4, <1>5, <1>6, <1>7, <1>8, <1>9, <1>10, <1>11, <1>12, <1>13, <1>14,
           <1>15, <1>16, <1>18, <1>19
        DEF Next, BusNext, PumpNext, LoopNext, ClientReads

-----------------------------------------------------------------------------
(* A channel's frames.  Those of the line are handled one by one when they *)
(* arrive; the early ones wait, or will, for the replay to complete.       *)

\* The channel's frames that are live or queued.
Line(c) == {f \in Range(queue) \union Flying(wire, Buffering) : f.channel = c}

\* The channel's frames that the client holds, or that will join them.
Early(c) == {f \in Range(held.frames) \union Waiting(wire, Buffering) : f.channel = c} \union sending.frames[c]

\* The buffered frames are those held of the channel.
LEMMA BufferedRange ==
  ASSUME NEW c
  PROVE  Buffered(c) = {f \in Range(held.frames) : f.channel = c}
BY DEF Buffered, Mine, Range

\* What flies or waits on the wire are frames.
LEMMA WireFrames ==
  ASSUME NEW w \in Seq(Downward), NEW buf
  PROVE  Flying(w, buf) \subseteq Frames /\ Waiting(w, buf) \subseteq Frames
<1>1. \A i \in DOMAIN w : w[i].type = "event" => w[i].frame \in Frames
  BY LenProperties, ElementOfSeq, DownwardKinds
<1>2. \A i \in DOMAIN w : Live(w, buf, i) => w[i].type = "event"
  BY DEF Live
<1> QED BY <1>1, <1>2 DEF Flying, Waiting

\* The frames of a channel are of its channel, and numbered.
LEMMA FramesOfAChannel ==
  ASSUME TypeOK, NEW c \in Channels
  PROVE  /\ \A f \in Line(c) : f \in Frames /\ f.channel = c /\ f.seq \in Nat
         /\ \A f \in Early(c) : f \in Frames /\ f.seq \in Nat
         /\ Shape => \A f \in Early(c) : f.channel = c
         /\ Buffered(c) \subseteq Early(c)
<1>1. /\ queue \in Seq(Frames) /\ wire \in Seq(Downward) /\ held.frames \in Seq(Frames)
      /\ sending.frames[c] \subseteq Frames
  BY DEF TypeOK
<1>2. Range(queue) \subseteq Frames /\ Range(held.frames) \subseteq Frames
  BY <1>1, RangeOfSeq
<1>3. Flying(wire, Buffering) \subseteq Frames /\ Waiting(wire, Buffering) \subseteq Frames
  BY <1>1, WireFrames
<1>4. \A f \in Frames : f.seq \in Nat
  BY DEF Frames
<1>5. Line(c) \subseteq Frames /\ Early(c) \subseteq Frames
  BY <1>1, <1>2, <1>3 DEF Line, Early
<1>6. Shape => \A f \in sending.frames[c] : f.channel = c
  BY DEF Shape, Window
<1> QED BY <1>4, <1>5, <1>6, BufferedRange DEF Line, Early

\* Where neither end moves, every frame stays where it is.
LEMMA FramesStay ==
  ASSUME UNCHANGED <<queue, wire, sending, held, opens>>, client'.replaying = client.replaying
  PROVE  \A c : Line(c)' = Line(c) /\ Early(c)' = Early(c)
BY DEF Line, Early, Buffering

\* deliver.
LEMMA FramesEnqueued ==
  ASSUME TypeOK, NEW fs \in Seq(Frames), queue' = queue \o fs, UNCHANGED <<wire, sending, held, opens, client>>
  PROVE  \A c : /\ Line(c)' = Line(c) \union {f \in Range(fs) : f.channel = c}
                /\ Early(c)' = Early(c)
<1>1. queue \in Seq(Frames)
  BY DEF TypeOK
<1>2. Range(queue') = Range(queue) \union Range(fs)
  BY <1>1, RangeJoin
<1>3. Buffering' = Buffering
  BY DEF Buffering
<1>4. Flying(wire', Buffering') = Flying(wire, Buffering) /\ Waiting(wire', Buffering') = Waiting(wire, Buffering)
  BY <1>3
<1> QED BY <1>2, <1>4 DEF Line, Early

\* A frame waits, if it is written while the client buffers and the marker is due.
Due == Buffering /\ ~Ended(wire)

\* The queue's head goes on to the wire: it flies, or turns early.
LEMMA FramesForwarded ==
  ASSUME TypeOK, queue # <<>>, queue' = Tail(queue), Written(<<Head(queue)>>),
         UNCHANGED <<sending, held, opens, client>>
  PROVE  /\ queue[1] \in Frames /\ queue[1] \in Line(queue[1].channel)
         /\ ~Due => \A c : Line(c)' = Line(c) /\ Early(c)' = Early(c)
         /\ Due => \A c : /\ Line(c)' \subseteq Line(c)
                          /\ Line(c) = Line(c)' \union (IF queue[1].channel = c THEN {queue[1]} ELSE {})
                          /\ Early(c)' = Early(c) \union (IF queue[1].channel = c THEN {queue[1]} ELSE {})
<1> DEFINE h == queue[1]
           fs == <<h>>
<1>1. queue \in Seq(Frames) /\ wire \in Seq(Downward) /\ Buffering \in BOOLEAN
  <2>1. Buffering \in BOOLEAN
    BY DEF Buffering
  <2> QED BY <2>1 DEF TypeOK
<1>2. h \in Frames /\ Head(queue) = h
  BY <1>1, HeadOfQueue
<1>3. fs \in Seq(Frames) /\ Range(fs) = {h}
  <2> HIDE DEF h
  <2>1. fs \in Seq(Frames) /\ DOMAIN fs = {1} /\ fs[1] = h
    BY <1>2
  <2> HIDE DEF fs
  <2> QED BY <2>1 DEF Range
<1>4. Range(queue) = {h} \union Range(queue')
  BY <1>1, RangeTail
<1>5. wire' = wire \o Post(fs)
  BY <1>1, <1>2, <1>3, WrittenFacts
<1> HIDE DEF h, fs
<1>6. /\ Flying(wire', Buffering) = Flying(wire, Buffering) \union (IF Due THEN {} ELSE {h})
      /\ Waiting(wire', Buffering) = Waiting(wire, Buffering) \union (IF Due THEN {h} ELSE {})
  <2>1. /\ Flying(wire \o Post(fs), Buffering) =
              Flying(wire, Buffering) \union (IF Buffering /\ ~Ended(wire) THEN {} ELSE Range(fs))
        /\ Waiting(wire \o Post(fs), Buffering) =
              Waiting(wire, Buffering) \union (IF Buffering /\ ~Ended(wire) THEN Range(fs) ELSE {})
    BY <1>1, <1>3, FlyingJoin
  <2> QED BY <1>3, <1>5, <2>1 DEF Due
<1>7. Buffering' = Buffering
  BY DEF Buffering
<1>8. /\ Flying(wire', Buffering') = Flying(wire', Buffering)
      /\ Waiting(wire', Buffering') = Waiting(wire', Buffering)
  BY <1>7
<1>9. h \in Line(h.channel)
  BY <1>4 DEF Line
<1>10. ASSUME ~Due, NEW c
       PROVE  Line(c)' = Line(c) /\ Early(c)' = Early(c)
  BY <1>4, <1>6, <1>8, <1>10 DEF Line, Early
<1>11. ASSUME Due, NEW c
       PROVE  /\ Line(c)' \subseteq Line(c)
              /\ Line(c) = Line(c)' \union (IF h.channel = c THEN {h} ELSE {})
              /\ Early(c)' = Early(c) \union (IF h.channel = c THEN {h} ELSE {})
  BY <1>4, <1>6, <1>8, <1>11 DEF Line, Early
<1> QED BY <1>2, <1>9, <1>10, <1>11 DEF h

\* Marks, or a replay's frame, are written.
LEMMA FramesWritten ==
  ASSUME TypeOK, NEW fs \in Seq(Frames), Written(fs), UNCHANGED <<queue, held, opens, client>>
  PROVE  \A c : LET new == {f \in Range(fs) : f.channel = c}
                IN /\ Line(c)' = Line(c) \union (IF Due THEN {} ELSE new)
                   /\ Early(c)' = ((Early(c) \ sending.frames[c])
                                     \union ({f \in Range(held.frames) \union Waiting(wire, Buffering) : f.channel = c})
                                     \union (IF Due THEN new ELSE {})) \union sending'.frames[c]
<1>1. wire \in Seq(Downward) /\ Buffering \in BOOLEAN
  <2>1. Buffering \in BOOLEAN
    BY DEF Buffering
  <2> QED BY <2>1 DEF TypeOK
<1>2. wire' = wire \o Post(fs)
  BY <1>1, WrittenFacts
<1>3. /\ Flying(wire', Buffering) = Flying(wire, Buffering) \union (IF Due THEN {} ELSE Range(fs))
      /\ Waiting(wire', Buffering) = Waiting(wire, Buffering) \union (IF Due THEN Range(fs) ELSE {})
  BY <1>1, <1>2, FlyingJoin DEF Due
<1>4. Buffering' = Buffering
  BY DEF Buffering
<1>5. /\ Flying(wire', Buffering') = Flying(wire', Buffering)
      /\ Waiting(wire', Buffering') = Waiting(wire', Buffering)
  BY <1>4
<1> QED BY <1>3, <1>5 DEF Line, Early

\* The completion marker is written.
LEMMA FramesMarked ==
  ASSUME TypeOK, wire' = Append(wire, Marker), \A c \in Channels : sending'.frames[c] = sending.frames[c],
         UNCHANGED <<queue, held, opens, client>>
  PROVE  \A c \in Channels : Line(c)' = Line(c) /\ Early(c)' = Early(c)
<1>1. wire \in Seq(Downward) /\ Buffering \in BOOLEAN
  <2>1. Buffering \in BOOLEAN
    BY DEF Buffering
  <2> QED BY <2>1 DEF TypeOK
<1>2. Flying(wire', Buffering) = Flying(wire, Buffering) /\ Waiting(wire', Buffering) = Waiting(wire, Buffering)
  BY <1>1, MarkerJoin
<1>3. Buffering' = Buffering
  BY DEF Buffering
<1>4. /\ Flying(wire', Buffering') = Flying(wire', Buffering)
      /\ Waiting(wire', Buffering') = Waiting(wire', Buffering)
  BY <1>3
<1> QED BY <1>2, <1>4 DEF Line, Early

\* The client reads hello.
LEMMA FramesGreeted ==
  ASSUME TypeOK, Shape, wire # <<>>, wire[1].type = "hello", wire' = Tail(wire),
         UNCHANGED <<queue, sending, held, opens>>, client'.replaying = client.replaying
  PROVE  \A c : Line(c)' = Line(c) /\ Early(c)' = Early(c)
<1>1. wire \in Seq(Downward) /\ Buffering \in BOOLEAN /\ Framed(wire)
  <2>1. Buffering \in BOOLEAN
    BY DEF Buffering
  <2> QED BY <2>1 DEF TypeOK, Shape, Greeted
<1>2. Flying(wire', Buffering) = Flying(wire, Buffering) /\ Waiting(wire', Buffering) = Waiting(wire, Buffering)
  BY <1>1, FlyingTail
<1>3. Buffering' = Buffering
  BY DEF Buffering
<1>4. /\ Flying(wire', Buffering') = Flying(wire', Buffering)
      /\ Waiting(wire', Buffering') = Waiting(wire', Buffering)
  BY <1>3
<1> QED BY <1>2, <1>4 DEF Line, Early

\* The client holds a frame back, or overflows.
LEMMA FramesHeld ==
  ASSUME TypeOK, Shape, wire # <<>>, wire[1].type = "event", wire' = Tail(wire), Buffering,
         held' = Pushed(wire[1].frame), UNCHANGED <<queue, sending, opens, client>>
  PROVE  LET f == wire[1].frame
         IN /\ f \in Frames
            /\ f.channel \in Channels => f \in Early(f.channel)
            /\ \A c : Line(c)' = Line(c)
            /\ ~held'.overflow => \A c : Early(c)' = Early(c)
            /\ held'.overflow => \A c : /\ Early(c)' \subseteq Early(c)
                                        /\ Early(c) \subseteq Early(c)' \union (IF f.channel = c THEN {f} ELSE {})
                                                                \union Buffered(c)
            /\ held.overflow => held'.overflow
            /\ \A c \in Channels : held'.heads[c] \in {held.heads[c], f.seq} /\ held'.heads[c] >= held.heads[c]
            /\ held'.heads[f.channel] >= f.seq
            /\ \A c \in Channels : c # f.channel => held'.heads[c] = held.heads[c]
<1> DEFINE f == wire[1].frame
<1>1. wire \in Seq(Downward) /\ Framed(wire) /\ wire[1] \in Downward
      /\ held.frames \in Seq(Frames) /\ held.heads \in [Channels -> Nat]
      /\ \A c \in Channels : \A g \in Buffered(c) : g.seq <= held.heads[c]
  <2>1. wire \in Seq(Downward) /\ held.frames \in Seq(Frames) /\ held.heads \in [Channels -> Nat]
    BY DEF TypeOK
  <2>2. wire[1] \in Downward
    BY <2>1, TailFacts
  <2> QED BY <2>1, <2>2 DEF Shape, Greeted, Holding
<1>2. f \in Frames
  BY <1>1, DownwardKinds
<1> HIDE DEF f
<1>3. Waiting(wire, TRUE) = Waiting(wire', TRUE) \union {f} /\ Flying(wire, TRUE) = Flying(wire', TRUE)
  BY <1>1, FlyingTail DEF f
<1>4. /\ held' = Pushed(f)
  BY DEF f
<1>5. /\ held'.overflow => held'.frames = <<>>
      /\ held.overflow => held'.overflow
      /\ \A c \in Channels : held'.heads[c] \in {held.heads[c], f.seq} /\ held'.heads[c] >= held.heads[c]
      /\ held'.heads[f.channel] >= f.seq
      /\ \A c \in Channels : c # f.channel => held'.heads[c] = held.heads[c]
      /\ ~held'.overflow => Range(held'.frames) = Range(held.frames) \union {f}
  BY <1>1, <1>2, <1>4, PushedFacts
<1>6. Buffering = TRUE /\ Buffering' = TRUE
  BY DEF Buffering
<1>7. /\ Flying(wire', Buffering') = Flying(wire, Buffering)
      /\ Waiting(wire, Buffering) = Waiting(wire', Buffering') \union {f}
  BY <1>3, <1>6
<1>8. \A c : Line(c)' = Line(c)
  BY <1>7 DEF Line
<1>9. ~held'.overflow => \A c : Early(c)' = Early(c)
  BY <1>5, <1>7 DEF Early
<1>10. ASSUME held'.overflow, NEW c
       PROVE  /\ Early(c)' \subseteq Early(c)
              /\ Early(c) \subseteq Early(c)' \union (IF f.channel = c THEN {f} ELSE {}) \union Buffered(c)
  <2>1. Range(held'.frames) = {}
    BY <1>5, <1>10, OnNothing
  <2> QED BY <1>7, <2>1, BufferedRange DEF Early
<1>11. f \in Early(f.channel)
  BY <1>7 DEF Early
<1> QED BY <1>2, <1>5, <1>8, <1>9, <1>10, <1>11 DEF f

\* Out of a replay window nothing is early.
LEMMA NoneEarly ==
  ASSUME TypeOK, Shape, ~Buffering, NEW c \in Channels
  PROVE  Early(c) = {} /\ held.heads[c] = 0 /\ ~held.overflow
<1>1. held = NothingHeld
  BY DEF Shape, Holding
<1>2. held.frames = <<>> /\ held.heads[c] = 0 /\ ~held.overflow
  BY <1>1 DEF NothingHeld
<1>3. Buffering = FALSE
  BY DEF Buffering
<1>4. Waiting(wire, FALSE) = {}
  BY DEF Waiting, Live
<1>5. sending.frames[c] = {}
  <2>1. CASE opens <= 1
    BY <2>1 DEF Shape, Window
  <2>2. CASE ~client.replaying
    BY <2>2 DEF Shape, Window, NoReplay
  <2>3. opens \in Nat
    BY TypeFacts
  <2> QED BY <2>1, <2>2, <2>3 DEF Buffering
<1>6. Range(held.frames) = {}
  BY <1>2, OnNothing
<1> QED BY <1>2, <1>3, <1>4, <1>5, <1>6 DEF Early

\* The client handles a frame.
LEMMA FramesTaken ==
  ASSUME TypeOK, Shape, wire # <<>>, wire[1].type = "event", wire' = Tail(wire), ~Buffering,
         UNCHANGED <<queue, sending, held, opens, client>>
  PROVE  LET f == wire[1].frame
         IN /\ f \in Frames /\ f.channel \in Channels /\ f \in Line(f.channel)
            /\ \A c : Line(c) = Line(c)' \union (IF f.channel = c THEN {f} ELSE {})
            /\ Flying(wire', Buffering') = Flying(Tail(wire), FALSE)
<1> DEFINE f == wire[1].frame
<1>1. wire \in Seq(Downward) /\ Framed(wire) /\ wire[1] \in Downward
  <2>1. wire \in Seq(Downward)
    BY DEF TypeOK
  <2>2. wire[1] \in Downward
    BY <2>1, TailFacts
  <2> QED BY <2>1, <2>2 DEF Shape, Greeted
<1>2. f \in Frames /\ f.channel \in Channels
  BY <1>1, DownwardKinds DEF Frames
<1> HIDE DEF f
<1>3. Flying(wire, FALSE) = Flying(wire', FALSE) \union {f}
  BY <1>1, FlyingTail DEF f
<1>4. Buffering = FALSE /\ Buffering' = FALSE
  BY DEF Buffering
<1>5. Flying(wire, Buffering) = Flying(wire', Buffering') \union {f}
  BY <1>3, <1>4
<1>6. \A c : Line(c) = Line(c)' \union (IF f.channel = c THEN {f} ELSE {})
  BY <1>5 DEF Line
<1>7. f \in Line(f.channel)
  BY <1>6
<1> QED BY <1>2, <1>4, <1>6, <1>7 DEF f

\* A replay completes.
LEMMA FramesSettled ==
  ASSUME TypeOK, Shape, wire # <<>>, wire[1].type = "replay", wire' = Tail(wire), ~client'.replaying,
         held' = NothingHeld, UNCHANGED <<queue, sending, opens>>
  PROVE  /\ ~Buffering'
         /\ \A c \in Channels : Line(c)' = Line(c) /\ Early(c)' = {} /\ Early(c) = Buffered(c)
<1>1. wire \in Seq(Downward) /\ Framed(wire) /\ Buffering \in BOOLEAN
  <2>1. Buffering \in BOOLEAN
    BY DEF Buffering
  <2> QED BY <2>1 DEF TypeOK, Shape, Greeted
<1>2. /\ Flying(wire', FALSE) = Flying(wire, Buffering) /\ Waiting(wire', FALSE) = {}
      /\ Waiting(wire, Buffering) = {} /\ Ended(wire)
  BY <1>1, FlyingTail
<1>3. Buffering' = FALSE
  BY DEF Buffering
<1>4. \A c \in Channels : sending.frames[c] = {}
  BY <1>2 DEF Shape, Window, NoReplay
<1>5. held'.frames = <<>>
  BY DEF NothingHeld
<1>6. Range(held'.frames) = {}
  BY <1>5, OnNothing
<1>7. Flying(wire', Buffering') = Flying(wire, Buffering) /\ Waiting(wire', Buffering') = {}
  BY <1>2, <1>3
<1>8. ASSUME NEW c \in Channels
      PROVE  Line(c)' = Line(c) /\ Early(c)' = {} /\ Early(c) = Buffered(c)
  BY <1>2, <1>4, <1>6, <1>7, BufferedRange DEF Line, Early
<1> QED BY <1>3, <1>8

\* Nothing is left, or nothing is there yet.
LEMMA FramesGone ==
  ASSUME queue' = <<>>, \A buf : Flying(wire', buf) = {} /\ Waiting(wire', buf) = {},
         held' = NothingHeld, sending' = NoReplay
  PROVE  \A c \in Channels : Line(c)' = {} /\ Early(c)' = {}
<1>1. held'.frames = <<>> /\ \A c \in Channels : sending'.frames[c] = {}
  BY DEF NothingHeld, NoReplay
<1>2. Range(held'.frames) = {} /\ Range(queue') = {}
  BY <1>1, OnNothing
<1> QED BY <1>1, <1>2 DEF Line, Early

-----------------------------------------------------------------------------
(* Numbers.                                                                *)

\* Before hello is read nothing of the new launch was dispatched or told.
Blank ==
    client.launch # launch => \A c \in Channels : got[c] = {} /\ lately[c] = <<>> /\ told[c] = 0

\* What was dispatched since the last announcement ascends, up to the cursor.
Dispatching == \A c \in Channels : Ascends(lately[c], cursor[c].seq)

\* Nothing is numbered above the channel's head.
Retained(c) ==
    ring[c].oldest >= 1 /\ ring[c].oldest <= ring[c].seq + 1 /\ foreign[c] \subseteq 1 .. ring[c].seq

\* ... nor is anything under way.
Numbered(c) ==
    /\ \A f \in Line(c) \union Early(c) : f.seq <= ring[c].seq
    /\ pump.marks[c] <= ring[c].seq /\ sub.withheld[c] <= ring[c].seq /\ held.heads[c] <= ring[c].seq

\* The cursors, or those that hello will seed, are within the head.
Reached(c) ==
    /\ Greets(wire) => wire[1].baseline[c] <= ring[c].seq
    /\ client.launch = launch => cursor[c].seq <= ring[c].seq

\* A mark stands for a frame that the client declined.
Marked(c) ==
    /\ \A f \in Line(c) \union Early(c) : f.kind = "mark" => f.seq \in Declined(c)
    /\ pump.marks[c] # 0 => pump.marks[c] \in Declined(c)
    /\ sub.withheld[c] # 0 => sub.withheld[c] \in Declined(c)

\* The bounds of all channels.
Bounds == \A c \in Channels : Retained(c) /\ Numbered(c) /\ Reached(c) /\ Marked(c)

\* The numbers of a channel are numbers.
LEMMA ChannelTypes ==
  ASSUME TypeOK, NEW c \in Channels
  PROVE  /\ ring[c].seq \in Nat /\ ring[c].oldest \in Nat /\ foreign[c] \in SUBSET Nat
         /\ pump.marks[c] \in Nat /\ sub.withheld[c] \in Nat /\ held.heads[c] \in Nat
         /\ cursor[c].seq \in Nat /\ told[c] \in Nat /\ got[c] \in SUBSET Nat
BY DEF TypeOK

\* The fields of the blank records.
LEMMA BlankFields ==
  /\ \A c \in Channels : IdlePump.marks[c] = 0 /\ NoSubscriber.withheld[c] = 0 /\ NothingHeld.heads[c] = 0
  /\ NoSubscriber.gapped = {} /\ ~NoSubscriber.armed /\ ~NoSubscriber.on
  /\ NothingHeld.frames = <<>> /\ ~NothingHeld.overflow
BY DEF IdlePump, NoSubscriber, NothingHeld

\* What one frame does to the client.
LEMMA TakenFacts ==
  ASSUME TypeOK, ReadFrame, ~Buffering
  PROVE  LET f == wire[1].frame
             c == f.channel
             v == Handled(View(c), f)
         IN /\ wire # <<>> /\ wire[1].type = "event" /\ wire' = Tail(wire) /\ f \in Frames /\ c \in Channels
            /\ v \in ViewType
            /\ cursor'[c] = v.cur /\ got'[c] = v.got /\ lately'[c] = v.lately /\ told'[c] = v.told
            /\ \A d \in Channels : d # c => /\ cursor'[d] = cursor[d] /\ got'[d] = got[d]
                                            /\ lately'[d] = lately[d] /\ told'[d] = told[d]
            /\ UNCHANGED <<launch, ring, foreign, sub, queue, pump, sending, up, client, held, opens>>
<1>1. wire # <<>> /\ Head(wire).type = "event" /\ wire' = Tail(wire)
  BY DEF ReadFrame
<1>2. wire \in Seq(Downward) /\ cursor \in CursorType /\ got \in [Channels -> SUBSET Nat]
      /\ lately \in [Channels -> Seq(Nat)] /\ told \in [Channels -> Nat]
  BY TypeFacts
<1>3. Head(wire) = wire[1] /\ wire[1] \in Downward
  BY <1>1, <1>2, TailFacts
<1> DEFINE f == wire[1].frame
           c == f.channel
           v == Handled(View(c), f)
<1>4. f \in Frames /\ c \in Channels
  BY <1>1, <1>3, DownwardKinds DEF Frames
<1>5. v \in ViewType
  BY <1>4, ViewsAreTyped, HandledFacts
<1>6. /\ cursor' = [cursor EXCEPT ![c] = v.cur]
      /\ got' = [got EXCEPT ![c] = v.got]
      /\ lately' = [lately EXCEPT ![c] = v.lately]
      /\ told' = [told EXCEPT ![c] = v.told]
      /\ UNCHANGED <<launch, ring, foreign, sub, queue, pump, sending, up, client, held, opens>>
  BY <1>3 DEF ReadFrame, server, connection
<1>7. wire[1].type = "event"
  BY <1>1, <1>3
<1> HIDE DEF v, c, f
<1>8. /\ cursor'[c] = v.cur /\ got'[c] = v.got /\ lately'[c] = v.lately /\ told'[c] = v.told
      /\ \A d \in Channels : d # c => /\ cursor'[d] = cursor[d] /\ got'[d] = got[d]
                                      /\ lately'[d] = lately[d] /\ told'[d] = told[d]
  BY <1>2, <1>4, <1>6 DEF CursorType
<1> QED BY <1>1, <1>4, <1>5, <1>6, <1>7, <1>8 DEF v, c, f

\* What a completion does to the client.
LEMMA DoneFacts ==
  ASSUME TypeOK, ReadDone
  PROVE  /\ wire # <<>> /\ wire[1].type = "replay" /\ wire' = Tail(wire) /\ held' = NothingHeld
         /\ client' = [client EXCEPT !.replaying = FALSE, !.recover = FALSE]
         /\ ~client'.replaying /\ ~client'.recover /\ client'.open = client.open /\ client'.known = client.known
         /\ client'.launch = client.launch /\ client'.watch = client.watch
         /\ \A c \in Channels : /\ cursor'[c] = Settled(c).cur /\ got'[c] = Settled(c).got
                                /\ lately'[c] = Settled(c).lately /\ told'[c] = Settled(c).told
                                /\ Settled(c) \in ViewType
         /\ UNCHANGED <<launch, ring, foreign, sub, queue, pump, sending, up, opens>>
<1>1. /\ wire # <<>> /\ Head(wire).type = "replay" /\ wire' = Tail(wire) /\ held' = NothingHeld
      /\ client' = [client EXCEPT !.replaying = FALSE, !.recover = FALSE]
      /\ UNCHANGED <<launch, ring, foreign, sub, queue, pump, sending, up, opens>>
  BY DEF ReadDone, server, connection
<1>2. wire \in Seq(Downward) /\ client \in ClientType
  BY TypeFacts
<1>3. Head(wire) = wire[1]
  BY <1>1, <1>2, TailFacts
<1>4. \A c \in Channels : /\ cursor'[c] = Settled(c).cur /\ got'[c] = Settled(c).got
                          /\ lately'[c] = Settled(c).lately /\ told'[c] = Settled(c).told
  BY DEF ReadDone
<1>5. \A c \in Channels : Settled(c) \in ViewType
  BY SettledFacts
<1>6. ~client'.replaying /\ ~client'.recover /\ client'.open = client.open /\ client'.known = client.known
      /\ client'.launch = client.launch /\ client'.watch = client.watch
  BY <1>1, <1>2 DEF ClientType
<1> QED BY <1>1, <1>3, <1>4, <1>5, <1>6

\* What hello does to the client.
LEMMA HelloFacts ==
  ASSUME TypeOK, Shape, ReadHello
  PROVE  /\ wire # <<>> /\ wire[1].type = "hello" /\ wire' = Tail(wire) /\ Greets(wire) /\ ~Greets(wire')
         /\ wire[1].launch = launch /\ wire[1].baseline \in [Channels -> Nat] /\ held = NothingHeld
         /\ client.replaying /\ (opens <= 1 => ~client.known) /\ client.open
         /\ client'.launch = launch /\ client'.known /\ client'.replaying /\ client'.open
         /\ client'.watch = client.watch
         /\ client'.recover <=> client.recover \/ (client.known /\ client.launch # launch)
         /\ client.known => /\ told' = told
                            /\ client.launch = launch => cursor' = cursor
                            /\ client.launch # launch => \A c \in Channels : cursor'[c].seq = 0
         /\ ~client.known => /\ told' = wire[1].baseline
                             /\ \A c \in Channels : cursor'[c].seq = wire[1].baseline[c]
         /\ Ended(wire') <=> Ended(wire)
         /\ UNCHANGED <<launch, ring, foreign, sub, queue, pump, sending, up, held, opens, got, lately>>
<1>1. /\ wire # <<>> /\ Head(wire).type = "hello" /\ wire' = Tail(wire)
      /\ UNCHANGED <<launch, ring, foreign, sub, queue, pump, sending, up, held, opens, got, lately>>
  BY DEF ReadHello, server, connection
<1>2. wire \in Seq(Downward) /\ client \in ClientType /\ cursor \in CursorType /\ Buffering \in BOOLEAN
  <2>1. Buffering \in BOOLEAN
    BY DEF Buffering
  <2> QED BY <2>1, TypeFacts
<1>3. Head(wire) = wire[1] /\ wire[1] \in Downward /\ wire[1].type = "hello"
  BY <1>1, <1>2, TailFacts
<1>4. wire[1].baseline \in [Channels -> Nat]
  BY <1>3, DownwardKinds
<1>5. Framed(wire)
  BY DEF Shape, Greeted
<1>6. Greets(wire) /\ ~Greets(wire') /\ (Ended(wire') <=> Ended(wire))
  BY <1>1, <1>2, <1>3, <1>5, FlyingTail
<1>7. wire[1].launch = launch /\ held = NothingHeld /\ client.replaying /\ (opens <= 1 => ~client.known)
  BY <1>6 DEF Shape, Greeted
<1>8. client.open
  BY <1>1 DEF Shape, Closed
<1>9. client' = [client EXCEPT !.launch = launch, !.known = TRUE,
                               !.recover = client.recover \/ (Restarted(wire[1]) /\ client.known)]
  BY <1>3, <1>7 DEF ReadHello
<1>10. Restarted(wire[1]) /\ client.known <=> client.known /\ client.launch # launch
  BY <1>7 DEF Restarted, Shape, Known
<1>11. /\ client'.launch = launch /\ client'.known /\ client'.replaying /\ client'.open
       /\ client'.watch = client.watch
       /\ client'.recover <=> client.recover \/ (client.known /\ client.launch # launch)
  BY <1>2, <1>7, <1>8, <1>9, <1>10 DEF ClientType
<1>12. ASSUME client.known
       PROVE  /\ told' = told
              /\ client.launch = launch => cursor' = cursor
              /\ client.launch # launch => \A c \in Channels : cursor'[c].seq = 0
  <2>1. /\ told' = told
        /\ cursor' = IF Restarted(wire[1]) /\ client.known THEN [c \in Channels |-> [cursor[c] EXCEPT !.seq = 0]]
                     ELSE cursor
    BY <1>3, <1>12 DEF ReadHello
  <2> QED BY <1>2, <1>10, <1>12, <2>1 DEF CursorType
<1>13. ASSUME ~client.known
       PROVE  /\ told' = wire[1].baseline
              /\ \A c \in Channels : cursor'[c].seq = wire[1].baseline[c]
  <2>1. /\ told' = wire[1].baseline
        /\ cursor' = [c \in Channels |-> [seq |-> wire[1].baseline[c], fresh |-> TRUE]]
    BY <1>3, <1>13 DEF ReadHello
  <2> QED BY <2>1
<1> QED BY <1>1, <1>3, <1>4, <1>6, <1>7, <1>8, <1>11, <1>12, <1>13

\* The dispatches ascend.
LEMMA DispatchingInit == Init => Blank /\ Dispatching
<1> SUFFICES ASSUME Init PROVE Blank /\ Dispatching
  OBVIOUS
<1>1. \A c \in Channels : got[c] = {} /\ lately[c] = <<>> /\ told[c] = 0
  BY DEF Init
<1>2. \A top : Ascends(<<>>, top)
  BY DEF Ascends
<1> QED BY <1>1, <1>2 DEF Blank, Dispatching

\* Every step keeps the dispatches ascending.
LEMMA DispatchingStep ==
  TypeInv /\ Shape /\ Blank /\ Dispatching /\ [Next]_vars => Blank' /\ Dispatching'
<1> SUFFICES ASSUME TypeInv, Shape, Blank, Dispatching, [Next]_vars PROVE Blank' /\ Dispatching'
  OBVIOUS
<1>0. TypeOK /\ cursor \in CursorType /\ client \in ClientType
  <2>1. TypeOK
    BY DEF TypeInv
  <2> QED BY <2>1, TypeFacts
<1>e. \A top : Ascends(<<>>, top)
  BY DEF Ascends
<1>1. CASE ReadHello
  <2>1. /\ client'.launch = launch /\ launch' = launch /\ lately' = lately
        /\ client.known /\ client.launch = launch => cursor' = cursor
    BY <1>0, <1>1, HelloFacts
  <2>2. CASE client.launch = launch
    <3>1. client.known
      BY <2>2, <1>0, TypeFacts DEF Shape, Known
    <3> QED BY <2>1, <2>2, <3>1 DEF Blank, Dispatching
  <2>3. CASE client.launch # launch
    <3>1. \A c \in Channels : lately'[c] = <<>>
      BY <2>1, <2>3 DEF Blank
    <3> QED BY <1>e, <2>1, <3>1 DEF Blank, Dispatching
  <2> QED BY <2>2, <2>3
<1>2. CASE ReadFrame
  <2>1. CASE Buffering
    <3>1. UNCHANGED <<launch, cursor, history, client>>
      BY <1>2, <2>1 DEF ReadFrame, server
    <3> QED BY <3>1 DEF history, Blank, Dispatching
  <2>2. CASE ~Buffering
    <3> DEFINE f == wire[1].frame
               c == f.channel
               v == Handled(View(c), f)
    <3>1. /\ f \in Frames /\ c \in Channels
          /\ cursor'[c] = v.cur /\ got'[c] = v.got /\ lately'[c] = v.lately /\ told'[c] = v.told
          /\ \A d \in Channels : d # c => cursor'[d] = cursor[d] /\ lately'[d] = lately[d]
          /\ UNCHANGED <<launch, client>>
          /\ wire # <<>> /\ wire[1].type = "event"
      BY <1>0, <1>2, <2>2, TakenFacts
    <3>2. client.launch = launch
      <4>1. client.open /\ ~Greets(wire)
        BY <3>1 DEF Greets, Shape, Closed
      <4> QED BY <4>1 DEF Shape, Greeted
    <3>3. Ascends(v.lately, v.cur.seq)
      <4>1. View(c) \in ViewType /\ View(c).lately = lately[c] /\ View(c).cur = cursor[c]
        BY <1>0, <3>1, ViewsAreTyped
      <4>2. Ascends(View(c).lately, View(c).cur.seq)
        BY <3>1, <4>1 DEF Dispatching
      <4> HIDE DEF c, f
      <4> QED BY <3>1, <4>1, <4>2, HandledFacts
    <3> HIDE DEF v, c, f
    <3>4. Dispatching'
      <4> SUFFICES ASSUME NEW d \in Channels PROVE Ascends(lately'[d], cursor'[d].seq)
        BY DEF Dispatching
      <4>1. CASE d = c
        BY <3>1, <3>3, <4>1
      <4>2. CASE d # c
        BY <3>1, <4>2 DEF Dispatching
      <4> QED BY <4>1, <4>2
    <3> QED BY <3>1, <3>2, <3>4 DEF Blank
  <2> QED BY <2>1, <2>2
<1>3. CASE ReadDone
  <2>1. /\ client'.launch = client.launch /\ launch' = launch /\ wire # <<>> /\ wire[1].type = "replay"
        /\ \A c \in Channels : cursor'[c] = Settled(c).cur /\ lately'[c] = Settled(c).lately
    BY <1>0, <1>3, DoneFacts
  <2>2. client.launch = launch
    <3>1. client.open /\ ~Greets(wire)
      BY <2>1 DEF Greets, Shape, Closed
    <3> QED BY <3>1 DEF Shape, Greeted
  <2>3. Dispatching'
    <3> SUFFICES ASSUME NEW c \in Channels PROVE Ascends(lately'[c], cursor'[c].seq)
      BY DEF Dispatching
    <3> DEFINE w == IF held.overflow THEN Recovered(c) ELSE Drained(c)
    <3>1. /\ Settled(c).cur = w.cur
          /\ client.recover => Settled(c).lately = <<>>
          /\ ~client.recover => Settled(c) = w
      BY <1>0, SettledFacts
    <3>2. Ascends(w.lately, w.cur.seq)
      <4>1. CASE held.overflow
        BY <1>0, <1>e, <4>1, RecoveredFacts
      <4>2. CASE ~held.overflow
        <5>1. held.frames \in Seq(Frames)
          BY <1>0 DEF TypeOK
        <5>2. View(c) \in ViewType /\ Ascends(lately[c], cursor[c].seq)
          BY <1>0, ViewsAreTyped DEF Dispatching
        <5>3. Ascends(Drained(c).lately, Drained(c).cur.seq)
          BY <5>1, <5>2, DrainedFacts
        <5> QED BY <4>2, <5>3
      <4> QED BY <4>1, <4>2
    <3> HIDE DEF w
    <3> QED BY <1>e, <2>1, <3>1, <3>2
  <2> QED BY <2>1, <2>2, <2>3 DEF Blank
<1>4. CASE Open
  <2>1. /\ \A c \in Channels : cursor'[c].seq = cursor[c].seq
        /\ client'.launch = client.launch
        /\ UNCHANGED <<launch, got, lately, told>>
    BY <1>0, <1>4 DEF Open, CursorType, ClientType, server, history
  <2> QED BY <2>1 DEF Blank, Dispatching
<1>5. CASE Relaunch
  <2>1. \A c \in Channels : got'[c] = {} /\ lately'[c] = <<>> /\ told'[c] = 0
    BY <1>5 DEF Relaunch
  <2> QED BY <1>e, <2>1 DEF Blank, Dispatching
<1>6. CASE UNCHANGED <<launch, cursor, got, lately, told>> /\ client'.launch = client.launch
  BY <1>6 DEF Blank, Dispatching
<1>7. CASE BusNext \/ PumpNext \/ LoopNext \/ Watch \/ Disconnect \/ UNCHANGED vars
  <2>1. UNCHANGED <<launch, cursor, got, lately, told>> /\ client'.launch = client.launch
    <3>1. CASE BusNext
      BY <3>1 DEF BusNext, Release, Emit, history
    <3>2. CASE PumpNext
      BY <3>2 DEF PumpNext, PumpEvent, TakeWithheld, CountQueue, DrainEvent, WriteMarks, history, server
    <3>3. CASE LoopNext
      BY <3>3 DEF LoopNext, ReadWatch, ReadReplay, WriteDone, WriteReplay, history, server
    <3>4. CASE Watch
      BY <1>0, <3>4 DEF Watch, history, server, ClientType
    <3>5. CASE Disconnect
      BY <1>0, <3>5 DEF Disconnect, Disconnected, history, server, ClientType
    <3>6. CASE UNCHANGED vars
      BY <3>6 DEF vars, history, server
    <3> QED BY <1>7, <3>1, <3>2, <3>3, <3>4, <3>5, <3>6
  <2> QED BY <1>6, <2>1
<1> QED BY <1>1, <1>2, <1>3, <1>4, <1>5, <1>7 DEF Next, ClientReads

\* Types and shape together.
ShapeInv == TypeInv /\ Shape

\* They are invariant.
LEMMA ShapeInvariant == Spec => []ShapeInv
<1>1. Init => ShapeInv
  BY TypeInvInit, ShapeInit DEF ShapeInv
<1>2. ShapeInv /\ [Next]_vars => ShapeInv'
  BY TypeInvStep, ShapeStep DEF ShapeInv
<1> QED BY <1>1, <1>2, PTL DEF Spec

\* Frames are dispatched in the order of their numbers, and one is dispatched again only
\* after its channel's consumers were told of a loss (RepeatsAreTold).
THEOREM DispatchesAscend == Spec => []RepeatsAreTold
<1>1. Init => Blank /\ Dispatching
  BY DispatchingInit
<1>2. ShapeInv /\ Blank /\ Dispatching /\ [Next]_vars => Blank' /\ Dispatching'
  BY DispatchingStep DEF ShapeInv
<1>3. Dispatching => RepeatsAreTold
  BY DEF Dispatching, RepeatsAreTold, Ascends
<1> QED BY <1>1, <1>2, <1>3, ShapeInvariant, PTL DEF Spec

-----------------------------------------------------------------------------
(* The bounds are kept.                                                    *)

\* A frame the channel's line may hold.
Fits(c, f) == f.seq <= ring[c].seq /\ (f.kind = "mark" => f.seq \in Declined(c))

\* The bounds of a channel, by the frames it has.
LEMMA Fitting ==
  ASSUME NEW c \in Channels
  PROVE  Numbered(c) /\ Marked(c) <=>
            /\ \A f \in Line(c) \union Early(c) : Fits(c, f)
            /\ pump.marks[c] <= ring[c].seq /\ sub.withheld[c] <= ring[c].seq /\ held.heads[c] <= ring[c].seq
            /\ pump.marks[c] # 0 => pump.marks[c] \in Declined(c)
            /\ sub.withheld[c] # 0 => sub.withheld[c] \in Declined(c)
BY DEF Numbered, Marked, Fits

\* What is new within the bounds keeps them.
LEMMA BoundsKept ==
  ASSUME TypeOK, TypeOK', NEW c \in Channels, Numbered(c), Marked(c),
         ring'[c].seq >= ring[c].seq, Declined(c) \subseteq Declined(c)',
         \A f \in Line(c)' \union Early(c)' : f \in Line(c) \union Early(c) \/ Fits(c, f)',
         pump'.marks[c] \in {0, pump.marks[c], sub.withheld[c]},
         \/ sub'.withheld[c] \in {0, sub.withheld[c]}
         \/ sub'.withheld[c] <= ring'[c].seq /\ sub'.withheld[c] \in Declined(c)',
         \/ held'.heads[c] \in {0, held.heads[c]}
         \/ \E f \in Line(c) \union Early(c) : held'.heads[c] = f.seq
  PROVE  Numbered(c)' /\ Marked(c)'
<1>1. /\ ring[c].seq \in Nat /\ pump.marks[c] \in Nat
      /\ sub.withheld[c] \in Nat /\ held.heads[c] \in Nat
      /\ \A f \in Line(c) \union Early(c) : f.seq \in Nat
  BY ChannelTypes, FramesOfAChannel
<1>2. ring'[c].seq \in Nat
  BY DEF TypeOK
<1>3. /\ \A f \in Line(c) \union Early(c) : Fits(c, f)
      /\ pump.marks[c] <= ring[c].seq /\ sub.withheld[c] <= ring[c].seq /\ held.heads[c] <= ring[c].seq
      /\ pump.marks[c] # 0 => pump.marks[c] \in Declined(c)
      /\ sub.withheld[c] # 0 => sub.withheld[c] \in Declined(c)
  BY Fitting
<1>4. \A f \in Line(c) \union Early(c) : Fits(c, f)'
  BY <1>1, <1>2, <1>3 DEF Fits
<1>5. \A f \in Line(c)' \union Early(c)' : Fits(c, f)'
  BY <1>4
<1>6. pump'.marks[c] <= ring'[c].seq /\ (pump'.marks[c] # 0 => pump'.marks[c] \in Declined(c)')
  BY <1>1, <1>2, <1>3
<1>7. sub'.withheld[c] <= ring'[c].seq /\ (sub'.withheld[c] # 0 => sub'.withheld[c] \in Declined(c)')
  BY <1>1, <1>2, <1>3
<1>8. held'.heads[c] <= ring'[c].seq
  BY <1>1, <1>2, <1>3 DEF Fits
<1> QED BY <1>5, <1>6, <1>7, <1>8 DEF Numbered, Marked, Fits

\* What an emission does to the ring.
LEMMA EmitFacts ==
  ASSUME TypeOK, NEW c \in Channels, NEW away \in BOOLEAN, Emit(c, away)
  PROVE  LET n == ring[c].seq + 1
         IN /\ ring'[c].seq = n /\ n \in Nat /\ n > 0
            /\ ring'[c].oldest >= ring[c].oldest /\ ring'[c].oldest >= n - Capacity(c) + 1
            /\ ring'[c].oldest \in {ring[c].oldest, n - Capacity(c) + 1}
            /\ \A d \in Channels : d # c => ring'[d] = ring[d] /\ foreign'[d] = foreign[d]
            /\ foreign'[c] = foreign[c] \union (IF away THEN {n} ELSE {})
            /\ away => c \in Narrow
            /\ \/ ~sub.on /\ UNCHANGED <<sub, queue>>
               \/ sub.on /\ sub.armed /\ away /\ NoteWithheld(c, n) /\ UNCHANGED queue
               \/ sub.on /\ ~(sub.armed /\ away) /\ Enqueue(c, n)
            /\ UNCHANGED <<launch, pump, sending, up, wire, client, cursor, held, opens, got, lately, told>>
<1> DEFINE n == ring[c].seq + 1
           o == Max({ring[c].oldest, n - Capacity(c) + 1})
<1>1. ring \in RingType /\ foreign \in [Channels -> SUBSET Nat] /\ sub.on \in BOOLEAN /\ sub.armed \in BOOLEAN
  BY TypeFacts DEF SubType
<1>2. n \in Nat /\ n > 0 /\ ring[c].oldest \in Nat /\ Capacity(c) \in Nat
  <2>1. ring[c].seq \in Nat /\ ring[c].oldest \in Nat
    BY <1>1 DEF RingType
  <2>2. Capacity(c) \in Nat
    BY CapsAssumption DEF Capacity
  <2> QED BY <2>1, <2>2
<1>3. ring[c].oldest \in Int /\ n - Capacity(c) + 1 \in Int
  BY <1>2
<1>4. o \in {ring[c].oldest, n - Capacity(c) + 1} /\ o >= ring[c].oldest /\ o >= n - Capacity(c) + 1
  BY <1>3, MaxOfTwo
<1>5. ring' = [ring EXCEPT ![c] = [seq |-> n, oldest |-> o]]
  BY DEF Emit
<1>6. foreign' = IF away THEN [foreign EXCEPT ![c] = @ \union {n}] ELSE foreign
  BY DEF Emit
<1>7. \/ ~sub.on /\ UNCHANGED <<sub, queue>>
      \/ sub.on /\ sub.armed /\ away /\ NoteWithheld(c, n) /\ UNCHANGED queue
      \/ sub.on /\ ~(sub.armed /\ away) /\ Enqueue(c, n)
  BY DEF Emit
<1>8. UNCHANGED <<launch, pump, sending, up, wire, client, cursor, held, opens, got, lately, told>>
  BY DEF Emit, history
<1>9. away => c \in Narrow
  BY DEF Emit
<1> HIDE DEF o, n
<1>10. /\ ring'[c].seq = n /\ ring'[c].oldest = o
       /\ \A d \in Channels : d # c => ring'[d] = ring[d]
  BY <1>1, <1>5 DEF RingType
<1>11. /\ foreign'[c] = foreign[c] \union (IF away THEN {n} ELSE {})
       /\ \A d \in Channels : d # c => foreign'[d] = foreign[d]
  BY <1>1, <1>6
<1> QED BY <1>2, <1>4, <1>7, <1>8, <1>9, <1>10, <1>11 DEF n

\* At first nothing is numbered.
LEMMA BoundsInit == Init => Bounds
<1> SUFFICES ASSUME Init, NEW c \in Channels PROVE Retained(c) /\ Numbered(c) /\ Reached(c) /\ Marked(c)
  BY DEF Bounds
<1>1. /\ ring[c] = [seq |-> 0, oldest |-> 1] /\ foreign[c] = {} /\ cursor[c].seq = 0
      /\ queue = <<>> /\ wire = <<>> /\ held = NothingHeld /\ sending = NoReplay
      /\ pump = IdlePump /\ sub = NoSubscriber
  BY DEF Init
<1>2. pump.marks[c] = 0 /\ sub.withheld[c] = 0 /\ held.heads[c] = 0 /\ ~Greets(wire)
  BY <1>1, BlankFields DEF Greets
<1>3. Line(c) = {} /\ Early(c) = {}
  <2>1. held.frames = <<>> /\ sending.frames[c] = {}
    BY <1>1 DEF NothingHeld, NoReplay
  <2>2. Range(held.frames) = {} /\ Range(queue) = {}
    BY <1>1, <2>1, OnNothing
  <2>3. \A buf : Flying(wire, buf) = {} /\ Waiting(wire, buf) = {}
    BY <1>1, OnNothing
  <2> QED BY <2>1, <2>2, <2>3 DEF Line, Early
<1> QED BY <1>1, <1>2, <1>3 DEF Retained, Numbered, Reached, Marked

\* What an action leaves of the numbers' bounds.
LEMMA BoundsFrom ==
  ASSUME TypeInv, TypeInv', Bounds, \A c \in Channels : ring'[c].seq >= ring[c].seq,
         \A c \in Channels : Retained(c)',
         \A c \in Channels : Declined(c) \subseteq Declined(c)',
         \A c \in Channels : \A f \in Line(c)' \union Early(c)' : f \in Line(c) \union Early(c) \/ Fits(c, f)',
         \A c \in Channels : pump'.marks[c] \in {0, pump.marks[c], sub.withheld[c]},
         \A c \in Channels : \/ sub'.withheld[c] \in {0, sub.withheld[c]}
                             \/ sub'.withheld[c] <= ring'[c].seq /\ sub'.withheld[c] \in Declined(c)',
         \A c \in Channels : \/ held'.heads[c] \in {0, held.heads[c]}
                             \/ \E f \in Line(c) \union Early(c) : held'.heads[c] = f.seq,
         \A c \in Channels : Reached(c)'
  PROVE  Bounds'
<1> SUFFICES ASSUME NEW c \in Channels PROVE Numbered(c)' /\ Marked(c)'
  BY DEF Bounds
<1>1. TypeOK /\ TypeOK' /\ Numbered(c) /\ Marked(c)
  BY DEF TypeInv, Bounds
<1>2. /\ ring'[c].seq >= ring[c].seq /\ Declined(c) \subseteq Declined(c)'
      /\ \A f \in Line(c)' \union Early(c)' : f \in Line(c) \union Early(c) \/ Fits(c, f)'
      /\ pump'.marks[c] \in {0, pump.marks[c], sub.withheld[c]}
      /\ \/ sub'.withheld[c] \in {0, sub.withheld[c]}
         \/ sub'.withheld[c] <= ring'[c].seq /\ sub'.withheld[c] \in Declined(c)'
      /\ \/ held'.heads[c] \in {0, held.heads[c]}
         \/ \E f \in Line(c) \union Early(c) : held'.heads[c] = f.seq
  OBVIOUS
<1> QED BY <1>1, <1>2, BoundsKept

\* A cursor that stays is reached still.
LEMMA StillReached ==
  ASSUME TypeOK, TypeOK', NEW c \in Channels, Reached(c), ring'[c].seq >= ring[c].seq,
         Greets(wire') => Greets(wire) /\ wire'[1] = wire[1],
         client'.launch = launch' => client.launch = launch /\ cursor'[c].seq = cursor[c].seq
  PROVE  Reached(c)'
<1>1. ring[c].seq \in Nat /\ cursor[c].seq \in Nat
  BY ChannelTypes
<1>2. ring'[c].seq \in Nat
  BY DEF TypeOK
<1>3. Greets(wire) => wire[1].baseline[c] \in Nat
  <2>1. ASSUME Greets(wire)
        PROVE  wire[1].baseline[c] \in Nat
    <3>1. wire \in Seq(Downward) /\ wire # <<>> /\ wire[1].type = "hello"
      BY <2>1 DEF TypeOK, Greets
    <3>2. wire[1] \in Downward
      BY <3>1, TailFacts
    <3> QED BY <3>1, <3>2, DownwardKinds
  <2> QED BY <2>1
<1> QED BY <1>1, <1>2, <1>3 DEF Reached

\* Nothing under way has nothing to bound.
LEMMA NothingNumbered ==
  ASSUME TypeInv', held' = NothingHeld, sub'.withheld = NoSubscriber.withheld, pump' = IdlePump,
         NEW c \in Channels, Line(c)' = {}, Early(c)' = {}
  PROVE  Numbered(c)' /\ Marked(c)'
<1>1. pump'.marks[c] = 0 /\ sub'.withheld[c] = 0 /\ held'.heads[c] = 0
  BY BlankFields
<1>2. ring'[c].seq \in Nat
  BY DEF TypeInv, TypeOK
<1> QED BY <1>1, <1>2 DEF Numbered, Marked

\* An emission raises the head before the frame is under way.
LEMMA BoundsEmit ==
  ASSUME TypeInv, TypeInv', Shape, Bounds, NEW d \in Channels, NEW away \in BOOLEAN, Emit(d, away)
  PROVE  Bounds'
<1> DEFINE n == ring[d].seq + 1
<1>0. TypeOK /\ TypeOK'
  BY DEF TypeInv
<1>1. /\ ring'[d].seq = n /\ n \in Nat /\ n > 0 /\ ring'[d].oldest >= ring[d].oldest
      /\ ring'[d].oldest \in {ring[d].oldest, n - Capacity(d) + 1}
      /\ \A e \in Channels : e # d => ring'[e] = ring[e] /\ foreign'[e] = foreign[e]
      /\ foreign'[d] = foreign[d] \union (IF away THEN {n} ELSE {})
      /\ \/ ~sub.on /\ UNCHANGED <<sub, queue>>
         \/ sub.on /\ sub.armed /\ away /\ NoteWithheld(d, n) /\ UNCHANGED queue
         \/ sub.on /\ ~(sub.armed /\ away) /\ Enqueue(d, n)
      /\ UNCHANGED <<launch, pump, sending, up, wire, client, cursor, held, opens>>
  BY <1>0, EmitFacts
<1> HIDE DEF n
<1>2. \A c \in Channels : ring'[c].seq >= ring[c].seq
  <2> SUFFICES ASSUME NEW c \in Channels PROVE ring'[c].seq >= ring[c].seq
    OBVIOUS
  <2>1. ring[c].seq \in Nat
    BY <1>0, ChannelTypes
  <2> QED BY <1>1, <2>1 DEF n
<1>3. \A c \in Channels : foreign[c] \subseteq foreign'[c]
  BY <1>1
<1>4. \A c \in Channels : Declined(c) \subseteq Declined(c)'
  BY <1>1, <1>3 DEF Declined
<1>5. ASSUME NEW c \in Channels
      PROVE  Retained(c)'
  <2>1. ring[c].seq \in Nat /\ ring[c].oldest \in Nat /\ foreign[c] \in SUBSET Nat /\ Retained(c)
    BY <1>0, ChannelTypes DEF Bounds
  <2>2. CASE c # d
    BY <1>1, <2>1, <2>2 DEF Retained
  <2>3. CASE c = d
    <3>1. Capacity(d) \in Nat /\ Capacity(d) >= 1
      BY CapsAssumption DEF Capacity
    <3>2. ring'[c].oldest >= 1 /\ ring'[c].oldest <= ring'[c].seq + 1
      BY <1>1, <2>1, <2>3, <3>1 DEF Retained, n
    <3>3. foreign'[c] \subseteq 1 .. ring'[c].seq
      BY <1>1, <2>1, <2>3 DEF Retained, n
    <3> QED BY <3>2, <3>3 DEF Retained
  <2> QED BY <2>2, <2>3
<1>6. ASSUME NEW c \in Channels
      PROVE  Reached(c)'
  <2>1. Reached(c)
    BY DEF Bounds
  <2> QED BY <1>0, <1>1, <1>2, <2>1, StillReached
<1>7. CASE UNCHANGED queue
  <2>1. \A c \in Channels : Line(c)' = Line(c) /\ Early(c)' = Early(c)
    BY <1>1, <1>7, FramesStay
  <2>2. ASSUME NEW c \in Channels
        PROVE  \/ sub'.withheld[c] \in {0, sub.withheld[c]}
               \/ sub'.withheld[c] <= ring'[c].seq /\ sub'.withheld[c] \in Declined(c)'
    <3>1. CASE UNCHANGED sub
      BY <3>1
    <3>2. CASE sub.armed /\ away /\ NoteWithheld(d, n)
      <4>1. sub' = IF d \in sub.gapped THEN sub ELSE [sub EXCEPT !.withheld[d] = n]
        BY <3>2 DEF NoteWithheld
      <4>2. sub \in SubType
        BY <1>0, TypeFacts
      <4>3. sub'.withheld[c] \in {sub.withheld[c]} \/ (c = d /\ sub'.withheld[c] = n)
        BY <4>1, <4>2 DEF SubType
      <4>4. client.watch
        BY <3>2 DEF Shape, Pumping
      <4>5. n \in foreign'[d] /\ client'.watch /\ n <= ring'[d].seq
        BY <1>1, <3>2, <4>4
      <4> QED BY <4>3, <4>5 DEF Declined
    <3>3. CASE Enqueue(d, n)
      <4>0. TypeOK /\ d \in Channels /\ n \in Nat /\ Enqueue(d, n)
        BY <1>0, <1>1, <3>3
      <4>1. PICK flushed \in SUBSET (sub.gapped \ {d}), fits \in BOOLEAN :
              sub' = [sub EXCEPT !.gapped = (sub.gapped \ (flushed \union {d}))
                                                   \union (IF fits THEN {} ELSE Dropped(d)),
                                        !.withheld = ClearWithheld(d)]
        BY <4>0, EnqueueFacts
      <4>2. sub \in SubType
        BY <1>0, TypeFacts
      <4> QED BY <4>1, <4>2 DEF SubType, ClearWithheld
    <3> QED BY <1>1, <3>1, <3>2, <3>3
  <2> QED BY <1>1, <1>2, <1>4, <1>5, <1>6, <2>1, <2>2, BoundsFrom
<1>8. CASE Enqueue(d, n)
  <2>0. TypeOK /\ d \in Channels /\ n \in Nat /\ Enqueue(d, n)
    BY <1>0, <1>1, <1>8
  <2>1. PICK flushed \in SUBSET (sub.gapped \ {d}), fits \in BOOLEAN, fs \in Seq(Frames) :
          /\ queue' = queue \o fs
          /\ Range(fs) = Markers(flushed) \union (IF fits THEN {Frame(d, Kind(d), n)} ELSE {})
          /\ Len(queue) + Len(fs) <= QueueCap
          /\ sub' = [sub EXCEPT !.gapped = (sub.gapped \ (flushed \union {d}))
                                           \union (IF fits THEN {} ELSE Dropped(d)),
                                !.withheld = ClearWithheld(d)]
          /\ \A i, j \in DOMAIN fs : i < j => fs[i].channel # fs[j].channel
    BY <2>0, EnqueueFacts
  <2>2. \A c : Line(c)' = Line(c) \union {f \in Range(fs) : f.channel = c} /\ Early(c)' = Early(c)
    BY <1>0, <1>1, <2>1, FramesEnqueued
  <2>3. ASSUME NEW c \in Channels, NEW f \in Range(fs), f.channel = c
        PROVE  Fits(c, f)'
    <3>1. ring[c].seq \in Nat
      BY <1>0, ChannelTypes
    <3>2. CASE f \in Markers(flushed)
      BY <1>2, <2>3, <3>1, <3>2 DEF Markers, Frame, Fits
    <3>3. CASE f = Frame(d, Kind(d), n)
      BY <1>1, <2>3, <3>3 DEF Frame, Fits, Kind
    <3> QED BY <2>1, <3>2, <3>3
  <2>4. \A c \in Channels : \A f \in Line(c)' \union Early(c)' : f \in Line(c) \union Early(c) \/ Fits(c, f)'
    BY <2>2, <2>3
  <2>5. \A c \in Channels : sub'.withheld[c] \in {0, sub.withheld[c]}
    <3>1. sub \in SubType
      BY <1>0, TypeFacts
    <3> QED BY <2>1, <3>1 DEF SubType, ClearWithheld
  <2> QED BY <1>1, <1>2, <1>4, <1>5, <1>6, <2>4, <2>5, BoundsFrom
<1> QED BY <1>1, <1>7, <1>8

\* Actions that leave the bus, the client and the cursors alone.
LEMMA BoundsConnection ==
  ASSUME TypeInv, TypeInv', Bounds,
         UNCHANGED <<server, cursor>>, client'.launch = client.launch, client'.watch \/ ~client.watch,
         Greets(wire') => Greets(wire) /\ wire'[1] = wire[1],
         \A c \in Channels : \A f \in Line(c)' \union Early(c)' : f \in Line(c) \union Early(c) \/ Fits(c, f)',
         \A c \in Channels : pump'.marks[c] \in {0, pump.marks[c], sub.withheld[c]},
         \A c \in Channels : sub'.withheld[c] \in {0, sub.withheld[c]},
         \A c \in Channels : \/ held'.heads[c] \in {0, held.heads[c]}
                             \/ \E f \in Line(c) \union Early(c) : held'.heads[c] = f.seq
  PROVE  Bounds'
<1>0. TypeOK /\ TypeOK'
  BY DEF TypeInv
<1>1. UNCHANGED <<launch, ring, foreign, cursor>>
  BY DEF server
<1>2. \A c \in Channels : ring'[c].seq >= ring[c].seq
  <2> SUFFICES ASSUME NEW c \in Channels PROVE ring'[c].seq >= ring[c].seq
    OBVIOUS
  <2>1. ring[c].seq \in Nat
    BY <1>0, ChannelTypes
  <2> QED BY <1>1, <2>1
<1>3. \A c \in Channels : Declined(c) \subseteq Declined(c)'
  BY <1>1 DEF Declined
<1>4. \A c \in Channels : Retained(c)'
  BY <1>1 DEF Retained, Bounds
<1>5. ASSUME NEW c \in Channels
      PROVE  Reached(c)'
  <2>1. Reached(c)
    BY DEF Bounds
  <2> QED BY <1>0, <1>1, <1>2, <2>1, StillReached
<1> QED BY <1>2, <1>3, <1>4, <1>5, BoundsFrom

\* Frames that only change places stay within the bounds.
LEMMA BoundsStill ==
  ASSUME TypeInv, TypeInv', Bounds,
         UNCHANGED <<server, cursor, held>>, client'.launch = client.launch, client'.watch \/ ~client.watch,
         Greets(wire') => Greets(wire) /\ wire'[1] = wire[1],
         \A c \in Channels : Line(c)' \subseteq Line(c) \union Early(c) /\ Early(c)' \subseteq Line(c) \union Early(c),
         sub'.withheld = sub.withheld, pump'.marks = pump.marks
  PROVE  Bounds'
<1>1. \A c \in Channels : \A f \in Line(c)' \union Early(c)' : f \in Line(c) \union Early(c) \/ Fits(c, f)'
  OBVIOUS
<1>2. \A c \in Channels : /\ pump'.marks[c] \in {0, pump.marks[c], sub.withheld[c]}
                          /\ sub'.withheld[c] \in {0, sub.withheld[c]}
                          /\ held'.heads[c] \in {0, held.heads[c]}
  OBVIOUS
<1> QED BY <1>1, <1>2, BoundsConnection

\* A frame is moved from the queue to the wire.
LEMMA BoundsForward ==
  ASSUME TypeInv, TypeInv', Shape, Bounds, queue # <<>>, queue' = Tail(queue), Written(<<Head(queue)>>),
         UNCHANGED <<server, sub, sending, client, cursor, held, opens>>, pump'.marks = pump.marks
  PROVE  Bounds'
<1>0. TypeOK /\ TypeOK'
  BY DEF TypeInv
<1>1. /\ queue[1] \in Frames /\ queue[1] \in Line(queue[1].channel)
      /\ ~Due => \A c : Line(c)' = Line(c) /\ Early(c)' = Early(c)
      /\ Due => \A c : /\ Line(c)' \subseteq Line(c)
                       /\ Early(c)' = Early(c) \union (IF queue[1].channel = c THEN {queue[1]} ELSE {})
  BY <1>0, FramesForwarded
<1>2. \A c \in Channels : Line(c)' \subseteq Line(c) \union Early(c) /\ Early(c)' \subseteq Line(c) \union Early(c)
  BY <1>1
<1>3. Greets(wire') => Greets(wire) /\ wire'[1] = wire[1]
  <2>1. queue \in Seq(Frames) /\ wire \in Seq(Downward)
    BY <1>0 DEF TypeOK
  <2>2. <<Head(queue)>> \in Seq(Frames)
    BY <2>1, HeadOfQueue
  <2> QED BY <2>1, <2>2, WrittenShape
<1> QED BY <1>2, <1>3, BoundsStill

\* The pump stays within the bounds.
LEMMA BoundsPump ==
  ASSUME TypeInv, TypeInv', Shape, Bounds, PumpNext
  PROVE  Bounds'
<1>0. TypeOK /\ TypeOK'
  BY DEF TypeInv
<1>t. queue \in Seq(Frames) /\ wire \in Seq(Downward) /\ pump \in PumpType /\ sub \in SubType
  BY <1>0, TypeFacts
<1>1. CASE PumpEvent
  <2>1. /\ queue # <<>> /\ queue' = Tail(queue) /\ Written(<<Head(queue)>>)
        /\ UNCHANGED <<server, sub, pump, sending, client, cursor, held, opens>>
    BY <1>1 DEF PumpEvent
  <2> QED BY <2>1, BoundsForward
<1>2. CASE TakeWithheld
  <2>1. /\ pump'.marks = sub.withheld /\ sub'.withheld = NoSubscriber.withheld
        /\ UNCHANGED <<server, queue, sending, wire, client, cursor, held, opens>>
    BY <1>2, <1>t DEF TakeWithheld, SubType
  <2>2. \A c : Line(c)' = Line(c) /\ Early(c)' = Early(c)
    BY <2>1, FramesStay
  <2>3. \A c \in Channels : sub'.withheld[c] = 0
    BY <2>1, BlankFields
  <2>4. \A c \in Channels : \A f \in Line(c)' \union Early(c)' : f \in Line(c) \union Early(c) \/ Fits(c, f)'
    BY <2>2
  <2>5. \A c \in Channels : /\ pump'.marks[c] \in {0, pump.marks[c], sub.withheld[c]}
                            /\ sub'.withheld[c] \in {0, sub.withheld[c]}
                            /\ held'.heads[c] \in {0, held.heads[c]}
    BY <2>1, <2>3
  <2> QED BY <2>1, <2>4, <2>5, BoundsConnection
<1>3. CASE CountQueue
  <2>1. /\ pump'.marks = pump.marks
        /\ UNCHANGED <<server, sub, queue, sending, wire, client, cursor, held, opens>>
    BY <1>3, <1>t DEF CountQueue, PumpType
  <2>2. \A c : Line(c)' = Line(c) /\ Early(c)' = Early(c)
    BY <2>1, FramesStay
  <2> QED BY <2>1, <2>2, BoundsStill
<1>4. CASE DrainEvent
  <2>1. /\ pump.pc = "drain" /\ pump.left > 0 /\ queue' = Tail(queue) /\ Written(<<Head(queue)>>)
        /\ UNCHANGED <<server, sub, sending, client, cursor, held, opens>>
        /\ pump'.marks = pump.marks
    BY <1>4, <1>t DEF DrainEvent, PumpType
  <2>2. queue # <<>>
    <3>1. pump.left <= Len(queue)
      BY <2>1 DEF TypeInv
    <3>2. queue = <<>> => Len(queue) = 0
      OBVIOUS
    <3>3. pump.left \in Nat
      BY <1>t, CapsAssumption DEF PumpType
    <3> QED BY <2>1, <3>1, <3>2, <3>3
  <2> QED BY <2>1, <2>2, BoundsForward
<1>5. CASE WriteMarks
  <2> DEFINE fs == SetToSeq(MarksToWrite)
  <2>1. /\ Written(fs) /\ pump' = IdlePump
        /\ UNCHANGED <<server, sub, queue, sending, client, cursor, held, opens>>
    BY <1>5 DEF WriteMarks, MarksToWrite
  <2>2. fs \in Seq(Frames) /\ Range(fs) = MarksToWrite
    BY <1>t, MarksToWriteFacts
  <2> HIDE DEF fs
  <2>3. \A c : LET new == {f \in Range(fs) : f.channel = c}
               IN /\ Line(c)' = Line(c) \union (IF Due THEN {} ELSE new)
                  /\ Early(c)' = ((Early(c) \ sending.frames[c])
                                     \union ({f \in Range(held.frames) \union Waiting(wire, Buffering) : f.channel = c})
                                     \union (IF Due THEN new ELSE {})) \union sending'.frames[c]
    BY <1>0, <2>1, <2>2, FramesWritten
  <2>4. \A c \in Channels : \A f \in Line(c)' \union Early(c)' :
           f \in Line(c) \union Early(c) \/ (f \in MarksToWrite /\ f.channel = c)
    BY <2>1, <2>2, <2>3 DEF Early
  <2>5. ASSUME NEW c \in Channels, NEW f \in MarksToWrite, f.channel = c
        PROVE  Fits(c, f)'
    <3>1. f.seq = pump.marks[c] /\ pump.marks[c] # 0 
      BY <2>5 DEF MarksToWrite, Frame
    <3>2. Numbered(c) /\ Marked(c)
      BY DEF Bounds
    <3>3. UNCHANGED <<ring, foreign, client>>
      BY <2>1 DEF server
    <3> QED BY <3>1, <3>2, <3>3 DEF Numbered, Marked, Fits, Declined
  <2>6. \A c \in Channels : \A f \in Line(c)' \union Early(c)' : f \in Line(c) \union Early(c) \/ Fits(c, f)'
    BY <2>4, <2>5
  <2>7. \A c \in Channels : /\ pump'.marks[c] \in {0, pump.marks[c], sub.withheld[c]}
                            /\ sub'.withheld[c] \in {0, sub.withheld[c]}
                            /\ held'.heads[c] \in {0, held.heads[c]}
    BY <2>1, BlankFields
  <2>8. Greets(wire') => Greets(wire) /\ wire'[1] = wire[1]
    BY <1>t, <2>1, <2>2, WrittenShape
  <2> QED BY <2>1, <2>6, <2>7, <2>8, BoundsConnection
<1> QED BY <1>1, <1>2, <1>3, <1>4, <1>5 DEF PumpNext

\* ... and so does the read loop: a replay's frames are retained ones.
LEMMA BoundsLoop ==
  ASSUME TypeInv, TypeInv', Shape, Bounds, LoopNext
  PROVE  Bounds'
<1>0. TypeOK /\ TypeOK'
  BY DEF TypeInv
<1>t. /\ queue \in Seq(Frames) /\ wire \in Seq(Downward) /\ pump \in PumpType /\ sub \in SubType
      /\ sending \in SendingType /\ up \in Seq(Upward) /\ client \in ClientType
  BY <1>0, TypeFacts
<1>1. CASE ReadWatch
  <2>1. /\ sub'.withheld = sub.withheld
        /\ UNCHANGED <<server, pump, queue, sending, wire, client, cursor, held, opens>>
    BY <1>1, <1>t DEF ReadWatch, SubType
  <2>2. \A c : Line(c)' = Line(c) /\ Early(c)' = Early(c)
    BY <2>1, FramesStay
  <2> QED BY <2>1, <2>2, BoundsStill
<1>2. CASE ReadReplay
  <2>1. /\ up # <<>> /\ Head(up).type = "replay" 
        /\ \A c \in Channels : sending'.frames[c] = IF Head(up).known THEN Filtered(c, Head(up).from[c]) ELSE {}
        /\ UNCHANGED <<server, sub, pump, queue, wire, client, cursor, held, opens>>
    BY <1>2 DEF ReadReplay
  <2>2. Head(up) = up[1] /\ up[1] \in Upward /\ up[1].from \in [Channels -> Nat]
    BY <1>t, <2>1, TailFacts, UpwardKinds
  <2>3. ASSUME NEW c \in Channels, NEW f \in sending'.frames[c]
        PROVE  Fits(c, f)'
    <3>1. up[1].from[c] \in Nat /\ f \in Filtered(c, up[1].from[c])
      BY <2>1, <2>2, <2>3
    <3>2. f.seq <= ring[c].seq /\ (f.kind = "mark" => sub.armed /\ f.seq \in foreign[c])
      BY <1>0, <3>1, FilteredFacts
    <3>3. sub.armed => client.watch
      BY DEF Shape, Pumping
    <3>4. UNCHANGED <<ring, foreign, client>>
      BY <2>1 DEF server
    <3> QED BY <3>2, <3>3, <3>4 DEF Fits, Declined
  <2>4. Buffering' = Buffering
    BY <2>1 DEF Buffering
  <2>5. \A c \in Channels : \A f \in Line(c)' \union Early(c)' :
            f \in Line(c) \union Early(c) \/ f \in sending'.frames[c]
    BY <2>1, <2>4 DEF Line, Early
  <2>6. \A c \in Channels : \A f \in Line(c)' \union Early(c)' : f \in Line(c) \union Early(c) \/ Fits(c, f)'
    BY <2>3, <2>5
  <2>7. \A c \in Channels : /\ pump'.marks[c] \in {0, pump.marks[c], sub.withheld[c]}
                            /\ sub'.withheld[c] \in {0, sub.withheld[c]}
                            /\ held'.heads[c] \in {0, held.heads[c]}
    BY <2>1
  <2> QED BY <2>1, <2>6, <2>7, BoundsConnection
<1>3. CASE WriteDone
  <2>1. /\ wire' = Append(wire, Marker) /\ sending' = NoReplay /\ \A c \in Channels : sending.frames[c] = {}
        /\ UNCHANGED <<server, sub, pump, queue, client, cursor, held, opens>>
    BY <1>3 DEF WriteDone, Marker
  <2>2. \A c \in Channels : sending'.frames[c] = sending.frames[c]
    BY <2>1 DEF NoReplay
  <2>3. \A c \in Channels : Line(c)' = Line(c) /\ Early(c)' = Early(c)
    BY <1>0, <2>1, <2>2, FramesMarked
  <2>4. Greets(wire') => Greets(wire) /\ wire'[1] = wire[1]
    BY <1>t, <2>1, MarkerJoin
  <2> QED BY <2>1, <2>3, <2>4, BoundsStill
<1>4. ASSUME NEW d \in Channels, WriteReplay(d)
      PROVE  Bounds'
  <2>1. PICK f \in sending.frames[d] :
          /\ Written(<<f>>) /\ sending' = [sending EXCEPT !.frames[d] = @ \ {f}]
    BY <1>4 DEF WriteReplay
  <2> DEFINE fs == <<f>>
  <2>2. UNCHANGED <<server, sub, pump, queue, client, cursor, held, opens>>
    BY <1>4 DEF WriteReplay
  <2>3. f \in Frames /\ f.channel = d
    BY <1>t DEF SendingType, Shape, Window
  <2>4. fs \in Seq(Frames) /\ Range(fs) = {f}
    <3>1. fs \in Seq(Frames) /\ DOMAIN fs = {1} /\ fs[1] = f
      BY <2>3
    <3> HIDE DEF fs
    <3> QED BY <3>1 DEF Range
  <2>5. \A c \in Channels : sending'.frames[c] \subseteq sending.frames[c]
    BY <1>t, <2>1 DEF SendingType
  <2>6. Written(fs)
    BY <2>1
  <2> HIDE DEF fs
  <2>7. \A c : LET new == {g \in Range(fs) : g.channel = c}
               IN /\ Line(c)' = Line(c) \union (IF Due THEN {} ELSE new)
                  /\ Early(c)' = ((Early(c) \ sending.frames[c])
                                     \union ({g \in Range(held.frames) \union Waiting(wire, Buffering) : g.channel = c})
                                     \union (IF Due THEN new ELSE {})) \union sending'.frames[c]
    BY <1>0, <2>2, <2>4, <2>6, FramesWritten
  <2>8. f \in Early(d)
    BY <2>1 DEF Early
  <2>9. \A c \in Channels : /\ Line(c)' \subseteq Line(c) \union Early(c)
                            /\ Early(c)' \subseteq Line(c) \union Early(c)
    BY <2>3, <2>4, <2>5, <2>7, <2>8 DEF Early
  <2>10. Greets(wire') => Greets(wire) /\ wire'[1] = wire[1]
    BY <1>t, <2>4, <2>6, WrittenShape
  <2> QED BY <2>2, <2>9, <2>10, BoundsStill
<1> QED BY <1>1, <1>2, <1>3, <1>4 DEF LoopNext

\* ... and the client: a cursor only moves to a frame's number.
LEMMA BoundsReads ==
  ASSUME TypeInv, TypeInv', Shape, Bounds, ClientReads
  PROVE  Bounds'
<1>0. TypeOK /\ TypeOK'
  BY DEF TypeInv
<1>t. client \in ClientType /\ ring \in RingType /\ cursor \in CursorType /\ held \in HeldType /\ wire \in Seq(Downward)
  BY <1>0, TypeFacts
<1>b. Buffering \in BOOLEAN
  BY DEF Buffering
<1>1. CASE ReadHello
  <2>1. /\ wire # <<>> /\ wire[1].type = "hello" /\ wire' = Tail(wire) /\ Greets(wire) /\ ~Greets(wire')
        /\ wire[1].baseline \in [Channels -> Nat]
        /\ client'.replaying = client.replaying /\ client'.watch = client.watch /\ client'.launch = launch
        /\ client.known /\ client.launch = launch => cursor' = cursor
        /\ client.known /\ client.launch # launch => \A c \in Channels : cursor'[c].seq = 0
        /\ ~client.known => \A c \in Channels : cursor'[c].seq = wire[1].baseline[c]
        /\ UNCHANGED <<launch, ring, foreign, sub, queue, pump, sending, up, held, opens>>
    BY <1>0, <1>1, HelloFacts
  <2>2. \A c : Line(c)' = Line(c) /\ Early(c)' = Early(c)
    BY <1>0, <2>1, FramesGreeted
  <2>3. ASSUME NEW c \in Channels
        PROVE  Reached(c)'
    <3>1. Reached(c) /\ ring[c].seq \in Nat
      BY <1>0, ChannelTypes DEF Bounds
    <3>2. cursor'[c].seq <= ring[c].seq
      <4>1. CASE client.known /\ client.launch = launch
        BY <2>1, <3>1, <4>1 DEF Reached
      <4>2. CASE client.known /\ client.launch # launch
        BY <2>1, <3>1, <4>2
      <4>3. CASE ~client.known
        BY <2>1, <3>1, <4>3 DEF Reached
      <4> QED BY <4>1, <4>2, <4>3
    <3> QED BY <2>1, <3>2 DEF Reached
  <2>4. ASSUME NEW c \in Channels
        PROVE  Retained(c)' /\ Numbered(c)' /\ Marked(c)'
    <3>1. Retained(c) /\ Numbered(c) /\ Marked(c)
      BY DEF Bounds
    <3> QED BY <2>1, <2>2, <3>1 DEF Retained, Numbered, Marked, Declined
  <2> QED BY <2>3, <2>4 DEF Bounds
<1>2. CASE ReadFrame
  <2>1. wire # <<>> /\ Head(wire).type = "event" /\ wire' = Tail(wire)
        /\ UNCHANGED <<server, connection, client, opens>>
    BY <1>2 DEF ReadFrame
  <2>2. Head(wire) = wire[1] /\ wire[1].type = "event"
    BY <1>t, <2>1, TailFacts
  <2>3. Framed(wire)
    BY DEF Shape, Greeted
  <2>4. ~Greets(wire')
    BY <1>t, <1>b, <2>1, <2>2, <2>3, FlyingTail
  <2>5. CASE Buffering
    <3>1. held' = Pushed(wire[1].frame) /\ UNCHANGED <<cursor, history>>
      BY <1>2, <2>2, <2>5 DEF ReadFrame
    <3> DEFINE f == wire[1].frame
    <3>2. UNCHANGED <<queue, sending, opens, client, sub, pump>>
      BY <2>1 DEF connection
    <3>3. /\ f \in Frames
          /\ f.channel \in Channels => f \in Early(f.channel)
          /\ \A c : Line(c)' = Line(c)
          /\ ~held'.overflow => \A c : Early(c)' = Early(c)
          /\ held'.overflow => \A c : Early(c)' \subseteq Early(c)
          /\ \A c \in Channels : held'.heads[c] \in {held.heads[c], f.seq}
          /\ \A c \in Channels : c # f.channel => held'.heads[c] = held.heads[c]
      BY <1>0, <2>1, <2>2, <2>5, <3>1, <3>2, FramesHeld
    <3> HIDE DEF f
    <3>4. \A c \in Channels : \/ held'.heads[c] \in {0, held.heads[c]}
                              \/ \E g \in Line(c) \union Early(c) : held'.heads[c] = g.seq
      BY <3>3
    <3>5. \A c \in Channels : \A g \in Line(c)' \union Early(c)' : g \in Line(c) \union Early(c) \/ Fits(c, g)'
      BY <3>3
    <3>6. \A c \in Channels : /\ pump'.marks[c] \in {0, pump.marks[c], sub.withheld[c]}
                              /\ sub'.withheld[c] \in {0, sub.withheld[c]}
      BY <3>2
    <3> QED BY <2>1, <2>4, <3>1, <3>2, <3>4, <3>5, <3>6, BoundsConnection
  <2>6. CASE ~Buffering
    <3> DEFINE f == wire[1].frame
               e == f.channel
               v == Handled(View(e), f)
    <3>1. /\ wire # <<>> /\ wire[1].type = "event" /\ wire' = Tail(wire) /\ f \in Frames /\ e \in Channels
          /\ cursor'[e] = v.cur
          /\ \A d \in Channels : d # e => cursor'[d] = cursor[d]
          /\ UNCHANGED <<launch, ring, foreign, sub, queue, pump, sending, up, client, held, opens>>
      BY <1>0, <1>2, <2>6, TakenFacts
    <3>2. f \in Line(f.channel) /\ \A c : Line(c) = Line(c)' \union (IF f.channel = c THEN {f} ELSE {})
      BY <1>0, <2>6, <3>1, FramesTaken
    <3>3. View(e) \in ViewType /\ View(e).cur = cursor[e]
      BY <1>0, <3>1, ViewsAreTyped
    <3>4. v.cur.seq \in {f.seq, View(e).cur.seq}
      <4> HIDE DEF f, e
      <4> QED BY <3>1, <3>3, HandledFacts
    <3> HIDE DEF v
    <3>5. Buffering' = Buffering
      BY <3>1 DEF Buffering
    <3>6. \A c \in Channels : Early(c)' = {}
      <4>1. Buffering' = FALSE
        BY <2>6, <3>5 DEF Buffering
      <4>2. \A w : Waiting(w, FALSE) = {}
        BY DEF Waiting, Live
      <4>3. Waiting(wire', Buffering') = {} /\ Waiting(wire, Buffering) = {}
        BY <2>6, <1>b, <4>1, <4>2
      <4>4. \A c \in Channels : Early(c) = {}
        BY <1>0, <2>6, NoneEarly
      <4> QED BY <3>1, <4>3, <4>4 DEF Early
    <3>7. ASSUME NEW c \in Channels
          PROVE  Reached(c)'
      <4>1. Reached(c) /\ Numbered(c)
        BY DEF Bounds
      <4>2. CASE c = e
        BY <2>4, <3>1, <3>2, <3>3, <3>4, <4>1, <4>2 DEF Reached, Numbered
      <4>3. CASE c # e
        BY <2>4, <3>1, <4>1, <4>3 DEF Reached
      <4> QED BY <4>2, <4>3
    <3>8. ASSUME NEW c \in Channels
          PROVE  Retained(c)' /\ Numbered(c)' /\ Marked(c)'
      <4>1. Retained(c) /\ Numbered(c) /\ Marked(c)
        BY DEF Bounds
      <4>2. Line(c)' \subseteq Line(c) /\ Early(c)' \subseteq Early(c)
        BY <3>2, <3>6
      <4>3. Retained(c)'
        BY <3>1, <4>1 DEF Retained
      <4> QED BY <3>1, <4>1, <4>2, <4>3 DEF Numbered, Marked, Declined
    <3> QED BY <3>7, <3>8 DEF Bounds
  <2> QED BY <2>5, <2>6
<1>3. CASE ReadDone
  <2>1. /\ wire # <<>> /\ wire[1].type = "replay" /\ wire' = Tail(wire) /\ held' = NothingHeld
        /\ ~client'.replaying /\ client'.launch = client.launch /\ client'.watch = client.watch
        /\ \A c \in Channels : cursor'[c] = Settled(c).cur
        /\ UNCHANGED <<launch, ring, foreign, sub, queue, pump, sending, up, opens>>
    BY <1>0, <1>3, DoneFacts
  <2>2. \A c \in Channels : Line(c)' = Line(c) /\ Early(c)' = {} /\ Early(c) = Buffered(c)
    BY <1>0, <2>1, FramesSettled
  <2>3. ~Greets(wire')
    <3>1. Framed(wire)
      BY DEF Shape, Greeted
    <3> QED BY <1>t, <1>b, <2>1, <3>1, FlyingTail
  <2>4. ASSUME NEW c \in Channels
        PROVE  Reached(c)'
    <3> DEFINE w == IF held.overflow THEN Recovered(c) ELSE Drained(c)
    <3>1. Reached(c) /\ Numbered(c)
      BY DEF Bounds
    <3>2. Settled(c).cur = w.cur
      BY <1>0, SettledFacts
    <3>3. w.cur.seq \in {cursor[c].seq, held.heads[c]} \union {f.seq : f \in Buffered(c)}
      <4>1. CASE held.overflow
        <5>1. Recovered(c).cur.seq = Newest(c)
          BY <1>0, RecoveredFacts
        <5> QED BY <4>1, <5>1 DEF Newest
      <4>2. CASE ~held.overflow
        <5>1. View(c) \in ViewType /\ held.frames \in Seq(Frames)
          BY <1>0, ViewsAreTyped DEF TypeOK
        <5>2. Drained(c).cur.seq \in {cursor[c].seq} \union {f.seq : f \in Buffered(c)}
          BY <5>1, DrainedFacts
        <5> QED BY <4>2, <5>2
      <4> QED BY <4>1, <4>2
    <3> HIDE DEF w
    <3>4. \A f \in Buffered(c) : f.seq <= ring[c].seq
      BY <2>2, <3>1 DEF Numbered
    <3>5. client.launch = launch => w.cur.seq <= ring[c].seq
      BY <3>1, <3>3, <3>4 DEF Reached, Numbered
    <3> QED BY <2>1, <2>3, <3>2, <3>5 DEF Reached
  <2>5. ASSUME NEW c \in Channels
        PROVE  Retained(c)' /\ Numbered(c)' /\ Marked(c)'
    <3>1. Retained(c) /\ Numbered(c) /\ Marked(c) /\ ring[c].seq \in Nat
      BY <1>0, ChannelTypes DEF Bounds
    <3>2. held'.heads[c] = 0
      BY <2>1, BlankFields
    <3>3. Retained(c)'
      BY <2>1, <3>1 DEF Retained
    <3>4. Numbered(c)'
      BY <2>1, <2>2, <3>1, <3>2 DEF Numbered
    <3>5. Marked(c)'
      BY <2>1, <2>2, <3>1 DEF Marked, Declined
    <3> QED BY <3>3, <3>4, <3>5
  <2> QED BY <2>4, <2>5 DEF Bounds
<1> QED BY <1>1, <1>2, <1>3 DEF ClientReads

\* A new connection, and none.
LEMMA BoundsOutages ==
  ASSUME TypeInv, TypeInv', Shape, Bounds, Open \/ Disconnect \/ Relaunch
  PROVE  Bounds'
<1>0. TypeOK /\ TypeOK'
  BY DEF TypeInv
<1>t. client \in ClientType /\ ring \in RingType /\ cursor \in CursorType /\ launch \in Nat
  BY <1>0, TypeFacts
<1>1. CASE Open
  <2> DEFINE hello == [type |-> "hello", launch |-> launch, baseline |-> [c \in Channels |-> ring[c].seq]]
  <2>1. /\ ~client.open /\ wire' = <<hello>> /\ client'.launch = client.launch /\ client'.watch = client.watch
        /\ sub' = [NoSubscriber EXCEPT !.on = TRUE]
        /\ \A c \in Channels : cursor'[c].seq = cursor[c].seq
        /\ UNCHANGED <<server, queue, pump, sending, held>>
    BY <1>1, <1>t DEF Open, ClientType, CursorType
  <2>2. queue = <<>> /\ held = NothingHeld /\ sending = NoReplay /\ pump = IdlePump
    BY <2>1 DEF Shape, Closed
  <2>3. hello.type = "hello" /\ \A c \in Channels : hello.baseline[c] = ring[c].seq
    OBVIOUS
  <2> HIDE DEF hello
  <2>4. (\A buf : Flying(wire', buf) = {} /\ Waiting(wire', buf) = {}) /\ wire'[1] = hello
    BY <2>1, <2>3, OnHello
  <2>5. \A c \in Channels : Line(c)' = {} /\ Early(c)' = {}
    BY <2>1, <2>2, <2>4, FramesGone
  <2>6. sub'.withheld = NoSubscriber.withheld
    BY <2>1 DEF NoSubscriber
  <2>7. ASSUME NEW c \in Channels
        PROVE  Numbered(c)' /\ Marked(c)'
    BY <2>1, <2>2, <2>5, <2>6, NothingNumbered
  <2>8. ASSUME NEW c \in Channels
        PROVE  Reached(c)' /\ Retained(c)'
    <3>1. Reached(c) /\ Retained(c) /\ UNCHANGED <<ring, foreign, launch>>
      BY <2>1 DEF Bounds, server
    <3>2. ring[c].seq \in Nat
      BY <1>0, ChannelTypes
    <3> QED BY <2>1, <2>3, <2>4, <3>1, <3>2 DEF Reached, Retained
  <2> QED BY <2>7, <2>8 DEF Bounds
<1>2. CASE Disconnect \/ Relaunch
  <2>1. Disconnected
    BY <1>2 DEF Disconnect, Relaunch
  <2>2. /\ sub' = NoSubscriber /\ queue' = <<>> /\ pump' = IdlePump /\ sending' = NoReplay
        /\ wire' = <<>> /\ held' = NothingHeld /\ cursor' = cursor
        /\ client'.launch = client.launch /\ client'.watch = client.watch
    BY <2>1, <1>t DEF Disconnected, ClientType
  <2>3. (\A buf : Flying(wire', buf) = {} /\ Waiting(wire', buf) = {}) /\ ~Greets(wire')
    BY <2>2, OnNothing
  <2>4. \A c \in Channels : Line(c)' = {} /\ Early(c)' = {}
    BY <2>2, <2>3, FramesGone
  <2>5. ASSUME NEW c \in Channels
        PROVE  Numbered(c)' /\ Marked(c)'
    BY <2>2, <2>4, NothingNumbered
  <2>6. ASSUME Disconnect, NEW c \in Channels
        PROVE  Reached(c)' /\ Retained(c)'
    <3>1. Reached(c) /\ Retained(c) /\ UNCHANGED <<ring, foreign, launch>>
      BY <2>6 DEF Bounds, Disconnect, server
    <3> QED BY <2>2, <2>3, <3>1 DEF Reached, Retained
  <2>7. ASSUME Relaunch, NEW c \in Channels
        PROVE  Reached(c)' /\ Retained(c)'
    <3>1. ring'[c] = [seq |-> 0, oldest |-> 1] /\ foreign'[c] = {} /\ launch' = launch + 1
      BY <2>7 DEF Relaunch
    <3>2. Retained(c)'
      BY <3>1 DEF Retained
    <3>3. client.launch <= launch /\ client.launch \in Nat
      BY <1>0, TypeFacts DEF Shape, Known
    <3>4. client'.launch # launch'
      BY <1>t, <2>2, <3>1, <3>3
    <3> QED BY <2>3, <3>2, <3>4 DEF Reached
  <2> QED BY <1>2, <2>5, <2>6, <2>7 DEF Bounds
<1> QED BY <1>1, <1>2

\* The retained numbers bound what is under way, and the cursors.
LEMMA BoundsStep == TypeInv /\ TypeInv' /\ Shape /\ Bounds /\ [Next]_vars => Bounds'
<1> SUFFICES ASSUME TypeInv, TypeInv', Shape, Bounds, [Next]_vars PROVE Bounds'
  OBVIOUS
<1>0. TypeOK /\ TypeOK'
  BY DEF TypeInv
<1>1. ASSUME NEW c \in Channels, NEW away \in BOOLEAN, Emit(c, away)
      PROVE  Bounds'
  BY <1>1, BoundsEmit
<1>2. ASSUME NEW d \in Channels, Release(d)
      PROVE  Bounds'
  <2>1. /\ ring' = [ring EXCEPT ![d].oldest = @ + 1] /\ ring[d].oldest <= ring[d].seq
        /\ UNCHANGED <<launch, foreign, connection, wire, client, cursor, held, opens>>
    BY <1>2 DEF Release
  <2>2. /\ \A c \in Channels : ring'[c].seq = ring[c].seq
        /\ \A c \in Channels : ring'[c].oldest \in {ring[c].oldest, ring[c].oldest + 1}
        /\ \A c \in Channels : ring'[c].oldest = ring[c].oldest + 1 => ring[c].oldest <= ring[c].seq
    <3>1. ring \in RingType
      BY <1>0, TypeFacts
    <3>2. \A c \in Channels : ring'[c] = IF c = d THEN [ring[d] EXCEPT !.oldest = @ + 1] ELSE ring[c]
      BY <2>1, <3>1 DEF RingType
    <3> SUFFICES ASSUME NEW c \in Channels
                 PROVE  /\ ring'[c].seq = ring[c].seq
                        /\ ring'[c].oldest \in {ring[c].oldest, ring[c].oldest + 1}
                        /\ ring'[c].oldest = ring[c].oldest + 1 => ring[c].oldest <= ring[c].seq
      OBVIOUS
    <3>3. ring[c] \in [seq : Nat, oldest : Nat]
      BY <3>1 DEF RingType
    <3>4. CASE c = d
      BY <2>1, <3>2, <3>3, <3>4
    <3>5. CASE c # d
      BY <3>2, <3>3, <3>5
    <3> QED BY <3>4, <3>5
  <2>3. \A c : Line(c)' = Line(c) /\ Early(c)' = Early(c)
    BY <2>1, FramesStay DEF connection
  <2>4. UNCHANGED <<sub, pump>>
    BY <2>1 DEF connection
  <2> SUFFICES ASSUME NEW c \in Channels PROVE Retained(c)' /\ Numbered(c)' /\ Reached(c)' /\ Marked(c)'
    BY DEF Bounds
  <2>5. Retained(c) /\ Numbered(c) /\ Reached(c) /\ Marked(c)
    BY DEF Bounds
  <2>6. ring[c].oldest \in Nat /\ ring[c].seq \in Nat
    BY <1>0, ChannelTypes
  <2>7. Retained(c)'
    BY <2>1, <2>2, <2>5, <2>6 DEF Retained
  <2>8. Numbered(c)' /\ Marked(c)'
    BY <2>1, <2>2, <2>3, <2>4, <2>5 DEF Numbered, Marked, Declined
  <2>9. Reached(c)'
    BY <2>1, <2>2, <2>5 DEF Reached
  <2> QED BY <2>7, <2>8, <2>9
<1>3. CASE PumpNext
  BY <1>3, BoundsPump
<1>4. CASE LoopNext
  BY <1>4, BoundsLoop
<1>5. CASE ClientReads
  BY <1>5, BoundsReads
<1>6. CASE Open \/ Disconnect \/ Relaunch
  BY <1>6, BoundsOutages
<1>7. CASE Watch
  <2>1. /\ client'.launch = client.launch /\ client'.watch /\ client'.replaying = client.replaying
        /\ UNCHANGED <<server, connection, wire, cursor, held, opens>>
    <3>1. client \in ClientType
      BY <1>0, TypeFacts
    <3> QED BY <1>7, <3>1 DEF Watch, ClientType
  <2>2. UNCHANGED <<queue, sending, sub, pump>>
    BY <2>1 DEF connection
  <2>3. \A c : Line(c)' = Line(c) /\ Early(c)' = Early(c)
    BY <2>1, <2>2, FramesStay
  <2> QED BY <2>1, <2>2, <2>3, BoundsStill
<1>8. CASE UNCHANGED vars
  <2>1. UNCHANGED <<launch, ring, foreign, sub, queue, pump, sending, wire, client, cursor, held, opens>>
    BY <1>8 DEF vars, server, connection
  <2>2. \A c : Line(c)' = Line(c) /\ Early(c)' = Early(c)
    BY <2>1, FramesStay
  <2> QED BY <2>1, <2>2, BoundsStill DEF server
<1> QED BY <1>1, <1>2, <1>3, <1>4, <1>5, <1>6, <1>7, <1>8 DEF Next, BusNext

\* Types, shape and bounds together.
BoundsInv == ShapeInv /\ Bounds

\* They are invariant.
LEMMA BoundsInvariant == Spec => []BoundsInv
<1>1. Init => Bounds
  BY BoundsInit
<1>2. ShapeInv /\ ShapeInv' /\ Bounds /\ [Next]_vars => Bounds'
  BY BoundsStep DEF ShapeInv
<1> QED BY <1>1, <1>2, ShapeInvariant, PTL DEF Spec, BoundsInv

\* A cursor never points above the head of the launch it belongs to (CursorIsReachable).
THEOREM CursorsAreReached == Spec => []CursorIsReachable
<1>1. BoundsInv => CursorIsReachable
  BY DEF BoundsInv, Bounds, Reached, CursorIsReachable
<1> QED BY <1>1, BoundsInvariant, PTL

-----------------------------------------------------------------------------
(* The order of a line: what flies is below what is queued, and both rise. *)

\* A channel's frames ascend in the queue.
Ascending(q) == \A i, j \in DOMAIN q : i < j /\ q[i].channel = q[j].channel => q[i].seq < q[j].seq

\* Frames are below all that is queued of their channel.
Below(F, q) == \A f \in F : \A j \in DOMAIN q : f.channel = q[j].channel => f.seq < q[j].seq

\* The order of a line.
Orderly(w, buf, q) == Rising(w, buf) /\ Below(Flying(w, buf), q) /\ Ascending(q)

\* The queue's head goes to the wire.
LEMMA OrderlyForward ==
  ASSUME NEW w \in Seq(Downward), NEW q \in Seq(Frames), q # <<>>, NEW buf \in BOOLEAN, Orderly(w, buf, q)
  PROVE  /\ \A j \in DOMAIN Tail(q) : Tail(q)[j].channel = q[1].channel => q[1].seq < Tail(q)[j].seq
         /\ Orderly(w \o Post(<<q[1]>>), buf, Tail(q))
<1> DEFINE n == Len(q)
           t == Tail(q)
           h == q[1]
           fs == <<h>>
<1>1. /\ n \in Nat /\ n > 0 /\ DOMAIN q = 1 .. n /\ DOMAIN t = 1 .. n - 1
      /\ \A i \in 1 .. n - 1 : t[i] = q[i + 1]
      /\ h \in Frames
  BY TailFacts
<1>2. fs \in Seq(Frames) /\ DOMAIN fs = {1} /\ fs[1] = h /\ Range(fs) = {h}
  <2>1. fs \in Seq(Frames) /\ DOMAIN fs = {1} /\ fs[1] = h
    BY <1>1
  <2> HIDE DEF fs
  <2> QED BY <2>1 DEF Range
<1>3. h = q[1]
  OBVIOUS
<1> HIDE DEF n, t, h, fs
<1>4. 1 \in 1 .. n /\ \A i \in 1 .. n - 1 : i + 1 \in 1 .. n /\ 1 < i + 1
  BY <1>1
<1>5. \A j \in 1 .. n - 1 : t[j].channel = h.channel => h.seq < t[j].seq
  BY <1>1, <1>3, <1>4 DEF Orderly, Ascending
<1>6. Ascending(t)
  <2> SUFFICES ASSUME NEW i \in 1 .. n - 1, NEW j \in 1 .. n - 1, i < j, t[i].channel = t[j].channel
               PROVE  t[i].seq < t[j].seq
    BY <1>1 DEF Ascending
  <2>1. i + 1 < j + 1 /\ i + 1 \in 1 .. n /\ j + 1 \in 1 .. n
    BY <1>4
  <2> QED BY <1>1, <2>1 DEF Orderly, Ascending
<1>7. \A g \in Flying(w, buf) : g.channel = h.channel => g.seq < h.seq
  BY <1>1, <1>3, <1>4 DEF Orderly, Below
<1>8. Rising(w \o Post(fs), buf)
  <2>1. \A g \in Flying(w, buf) : \A i \in DOMAIN fs :
            fs[i].kind # "mark" /\ fs[i].channel = g.channel => g.seq < fs[i].seq
    BY <1>2, <1>7
  <2>2. \A i \in DOMAIN fs : fs[i].kind # "mark" => i = 1
    BY <1>2
  <2>3. Rising(w, buf)
    BY DEF Orderly
  <2> QED BY <1>2, <2>1, <2>2, <2>3, RisingJoin
<1>9. Flying(w \o Post(fs), buf) \subseteq Flying(w, buf) \union {h}
  <2>1. Flying(w \o Post(fs), buf) = Flying(w, buf) \union (IF buf /\ ~Ended(w) THEN {} ELSE Range(fs))
    BY <1>2, FlyingJoin
  <2> QED BY <1>2, <2>1
<1>10. Below(Flying(w, buf), t)
  BY <1>1, <1>4 DEF Orderly, Below
<1>11. Below(Flying(w \o Post(fs), buf), t)
  BY <1>1, <1>5, <1>9, <1>10 DEF Below
<1> QED BY <1>1, <1>5, <1>6, <1>8, <1>11 DEF Orderly, h, t, fs

\* What is enqueued is above all that is under way of its channel.
LEMMA OrderlyJoin ==
  ASSUME NEW w \in Seq(Downward), NEW q \in Seq(Frames), NEW buf \in BOOLEAN, Orderly(w, buf, q),
         NEW fs \in Seq(Frames),
         \A i, j \in DOMAIN fs : i < j => fs[i].channel # fs[j].channel,
         \A f \in Range(fs) : \A g \in Flying(w, buf) \union Range(q) : g.channel = f.channel => g.seq < f.seq
  PROVE  Orderly(w, buf, q \o fs)
<1> DEFINE v == q \o fs
           n == Len(q)
           k == Len(fs)
<1>1. /\ n \in Nat /\ k \in Nat /\ DOMAIN q = 1 .. n /\ DOMAIN fs = 1 .. k /\ DOMAIN v = 1 .. n + k
      /\ \A i \in 1 .. n : v[i] = q[i]
      /\ \A i \in 1 .. k : v[n + i] = fs[i]
  BY JoinFacts
<1> HIDE DEF v, n, k
<1>2. ASSUME NEW j \in 1 .. n + k
      PROVE  j \in 1 .. n \/ (j - n \in 1 .. k /\ v[j] = fs[j - n] /\ fs[j - n] \in Range(fs))
  <2>1. CASE j <= n
    BY <1>1, <2>1
  <2>2. CASE j > n
    <3>1. j - n \in 1 .. k /\ n + (j - n) = j
      BY <1>1, <2>2
    <3>2. fs[j - n] \in Range(fs)
      BY <1>1, <3>1 DEF Range
    <3> QED BY <1>1, <3>1, <3>2
  <2> QED BY <1>1, <2>1, <2>2
<1>3. Below(Flying(w, buf), v)
  <2> SUFFICES ASSUME NEW f \in Flying(w, buf), NEW j \in 1 .. n + k, f.channel = v[j].channel
               PROVE  f.seq < v[j].seq
    BY <1>1 DEF Below
  <2>1. CASE j \in 1 .. n
    BY <1>1, <2>1 DEF Orderly, Below
  <2>2. CASE v[j] = fs[j - n] /\ fs[j - n] \in Range(fs)
    BY <2>2
  <2> QED BY <1>2, <2>1, <2>2
<1>4. Ascending(v)
  <2> SUFFICES ASSUME NEW i \in 1 .. n + k, NEW j \in 1 .. n + k, i < j, v[i].channel = v[j].channel
               PROVE  v[i].seq < v[j].seq
    BY <1>1 DEF Ascending
  <2>1. CASE j \in 1 .. n
    <3>1. i \in 1 .. n
      BY <1>1, <2>1
    <3> QED BY <1>1, <2>1, <3>1 DEF Orderly, Ascending
  <2>2. CASE j \notin 1 .. n /\ i \in 1 .. n
    <3>1. v[j] \in Range(fs)
      BY <1>2, <2>2
    <3>2. v[i] \in Range(q)
      BY <1>1, <2>2 DEF Range
    <3> QED BY <3>1, <3>2
  <2>3. CASE j \notin 1 .. n /\ i \notin 1 .. n
    <3>1. j - n \in 1 .. k /\ v[j] = fs[j - n] /\ i - n \in 1 .. k /\ v[i] = fs[i - n]
      BY <1>2, <2>3
    <3> DEFINE a == i - n
               b == j - n
    <3>2. a \in DOMAIN fs /\ b \in DOMAIN fs /\ a < b /\ v[j] = fs[b] /\ v[i] = fs[a]
      BY <1>1, <3>1
    <3> HIDE DEF a, b
    <3>3. fs[a].channel # fs[b].channel
      BY <3>2
    <3> QED BY <3>2, <3>3
  <2> QED BY <2>1, <2>2, <2>3
<1> QED BY <1>3, <1>4 DEF Orderly, v

\* Frames that are written past the queue: a replay's, which wait, or marks.
LEMMA OrderlyWritten ==
  ASSUME NEW w \in Seq(Downward), NEW q, NEW buf \in BOOLEAN, Orderly(w, buf, q),
         NEW fs \in Seq(Frames),
         \A i \in DOMAIN fs : \A g \in Flying(w, buf) : 
             fs[i].kind # "mark" /\ fs[i].channel = g.channel => g.seq < fs[i].seq,
         \/ buf /\ ~Ended(w)
         \/ (\A i \in DOMAIN fs : fs[i].kind = "mark") /\ Below(Range(fs), q)
  PROVE  Orderly(w \o Post(fs), buf, q)
<1>1. Rising(w \o Post(fs), buf)
  <2>1. Rising(w, buf)
    BY DEF Orderly
  <2> QED BY <2>1, RisingJoin
<1>2. Flying(w \o Post(fs), buf) = Flying(w, buf) \union (IF buf /\ ~Ended(w) THEN {} ELSE Range(fs))
  BY FlyingJoin
<1>3. Below(Flying(w \o Post(fs), buf), q)
  BY <1>2 DEF Below, Orderly
<1> QED BY <1>1, <1>3 DEF Orderly

\* While the marker is due, nothing flies.
LEMMA NothingFlies ==
  ASSUME NEW w \in Seq(Downward), ~Ended(w)
  PROVE  Flying(w, TRUE) = {}
<1>1. ASSUME NEW i \in DOMAIN w, Live(w, TRUE, i)
      PROVE  FALSE
  <2>1. PICK k \in 1 .. i - 1 : w[k].type = "replay"
    BY <1>1 DEF Live, Past
  <2>2. k \in DOMAIN w
    <3>1. DOMAIN w = 1 .. Len(w) /\ Len(w) \in Nat
      BY LenProperties
    <3> QED BY <2>1, <3>1
  <2> QED BY <2>1, <2>2 DEF Ended
<1> QED BY <1>1 DEF Flying

\* What is queued behind the frames that the pass is draining is above its marks.
Watermark ==
    pump.pc = "drain" =>
        \A j \in DOMAIN queue : j > pump.left => queue[j].seq > pump.marks[queue[j].channel]

\* A channel whose loss is to be announced has nothing under way up to its head.
Losses ==
    \A c \in sub.gapped :
       /\ sub.withheld[c] = 0 /\ pump.marks[c] < ring[c].seq
       /\ \A f \in Line(c) : f.seq < ring[c].seq

\* Only frames of narrowed channels are of a foreign entity.
Scoped == \A c \in Channels : foreign[c] # {} => c \in Narrow

\* The order of the lines, and what a loss and a pass leave behind.
Order == Orderly(wire, Buffering, queue) /\ Watermark /\ Losses /\ Scoped

\* A loss stays ahead of what is under way, where no ring moves.
LEMMA LossesKept ==
  ASSUME TypeInv, Losses, sub'.gapped \subseteq sub.gapped,
         \A c \in Channels : sub'.withheld[c] \in {0, sub.withheld[c]},
         \A c \in Channels : pump'.marks[c] \in {0, pump.marks[c], sub.withheld[c]},
         \A c \in Channels : ring'[c].seq = ring[c].seq,
         \A c \in Channels : \A f \in Line(c)' : f \in Line(c) \/ f.seq = pump.marks[c]
  PROVE  Losses'
<1> SUFFICES ASSUME NEW c \in sub'.gapped
             PROVE  /\ sub'.withheld[c] = 0 /\ pump'.marks[c] < ring'[c].seq
                    /\ \A f \in Line(c)' : f.seq < ring'[c].seq
  BY DEF Losses
<1>1. c \in sub.gapped /\ c \in Channels
  BY TypeFacts DEF TypeInv, SubType
<1>2. ring[c].seq \in Nat /\ pump.marks[c] \in Nat
  BY <1>1, ChannelTypes DEF TypeInv
<1>3. /\ sub.withheld[c] = 0 /\ pump.marks[c] < ring[c].seq
      /\ \A f \in Line(c) : f.seq < ring[c].seq
  BY <1>1 DEF Losses
<1>4. sub'.withheld[c] = 0 /\ pump'.marks[c] \in {0, pump.marks[c]} /\ ring'[c].seq = ring[c].seq
  BY <1>1, <1>3
<1> QED BY <1>1, <1>2, <1>3, <1>4

\* At first nothing is under way.
LEMMA OrderInit == Init => Order
<1> SUFFICES ASSUME Init PROVE Order
  OBVIOUS
<1>1. wire = <<>> /\ queue = <<>> /\ sub = NoSubscriber /\ pump = IdlePump /\ \A c \in Channels : foreign[c] = {}
  BY DEF Init
<1>2. sub.gapped = {} /\ pump.pc # "drain" /\ DOMAIN queue = {}
  BY <1>1 DEF NoSubscriber, IdlePump
<1>3. Rising(wire, Buffering)
  BY <1>1, OnNothing
<1> QED BY <1>1, <1>2, <1>3 DEF Order, Orderly, Below, Ascending, Watermark, Losses, Scoped

\* An emission enqueues above all that is under way.
LEMMA OrderEmit ==
  ASSUME TypeInv, Shape, Bounds, Order, NEW d \in Channels, NEW away \in BOOLEAN, Emit(d, away)
  PROVE  Order'
<1> DEFINE n == ring[d].seq + 1
<1>0. TypeOK
  BY DEF TypeInv
<1>t. /\ queue \in Seq(Frames) /\ wire \in Seq(Downward) /\ sub \in SubType /\ Buffering \in BOOLEAN
      /\ pump \in PumpType
  <2>1. Buffering \in BOOLEAN
    BY DEF Buffering
  <2> QED BY <1>0, <2>1, TypeFacts
<1>1. /\ ring'[d].seq = n /\ n \in Nat /\ n > 0
      /\ \A e \in Channels : e # d => ring'[e] = ring[e] /\ foreign'[e] = foreign[e]
      /\ foreign'[d] = foreign[d] \union (IF away THEN {n} ELSE {})
      /\ away => d \in Narrow
      /\ \/ ~sub.on /\ UNCHANGED <<sub, queue>>
         \/ sub.on /\ sub.armed /\ away /\ NoteWithheld(d, n) /\ UNCHANGED queue
         \/ sub.on /\ ~(sub.armed /\ away) /\ Enqueue(d, n)
      /\ UNCHANGED <<launch, pump, sending, up, wire, client, cursor, held, opens>>
  BY <1>0, EmitFacts
<1>n. n > ring[d].seq
  BY <1>0, ChannelTypes
<1> HIDE DEF n
<1>2. Scoped'
  BY <1>1 DEF Order, Scoped
<1>3. Buffering' = Buffering
  BY <1>1 DEF Buffering
<1>4. \A c \in Channels : ring[c].seq \in Nat /\ pump.marks[c] \in Nat /\ ring'[c].seq >= ring[c].seq
  <2> SUFFICES ASSUME NEW c \in Channels
               PROVE  ring[c].seq \in Nat /\ pump.marks[c] \in Nat /\ ring'[c].seq >= ring[c].seq
    OBVIOUS
  <2>1. ring[c].seq \in Nat /\ pump.marks[c] \in Nat
    BY <1>0, ChannelTypes
  <2> QED BY <1>1, <1>n, <2>1
<1>5. CASE UNCHANGED queue /\ (UNCHANGED sub \/ NoteWithheld(d, n))
  <2>1. \A c \in Channels : Line(c)' = Line(c)
    BY <1>1, <1>5, FramesStay
  <2>2. sub'.gapped = sub.gapped /\ \A c \in sub.gapped : sub'.withheld[c] = sub.withheld[c]
    <3>1. CASE UNCHANGED sub
      BY <3>1
    <3>2. CASE NoteWithheld(d, n)
      BY <1>t, <3>2 DEF NoteWithheld, SubType
    <3> QED BY <1>5, <3>1, <3>2
  <2>3. Losses'
    <3> SUFFICES ASSUME NEW c \in sub.gapped
                 PROVE  /\ sub'.withheld[c] = 0 /\ pump'.marks[c] < ring'[c].seq
                        /\ \A f \in Line(c)' : f.seq < ring'[c].seq
      BY <2>2 DEF Losses
    <3>1. c \in Channels
      BY <1>t DEF SubType
    <3>2. sub.withheld[c] = 0 /\ pump.marks[c] < ring[c].seq /\ \A f \in Line(c) : f.seq < ring[c].seq
      BY DEF Order, Losses
    <3>3. \A f \in Line(c) : f.seq \in Nat
      BY <1>0, <3>1, FramesOfAChannel
    <3>4. ring'[c].seq \in Nat
      BY <1>1, <1>4, <3>1
    <3> QED BY <1>1, <1>4, <2>1, <2>2, <3>1, <3>2, <3>3, <3>4
  <2>4. Orderly(wire', Buffering', queue')
    <3>1. Orderly(wire, Buffering, queue)
      BY DEF Order
    <3> QED BY <1>1, <1>3, <1>5, <3>1
  <2>5. Watermark'
    BY <1>1, <1>5 DEF Order, Watermark
  <2> QED BY <1>2, <2>3, <2>4, <2>5 DEF Order
<1>6. CASE Enqueue(d, n)
  <2>0. TypeOK /\ d \in Channels /\ n \in Nat /\ Enqueue(d, n)
    BY <1>0, <1>1, <1>6
  <2>1. PICK flushed \in SUBSET (sub.gapped \ {d}), fits \in BOOLEAN, fs \in Seq(Frames) :
          /\ queue' = queue \o fs
          /\ Range(fs) = Markers(flushed) \union (IF fits THEN {Frame(d, Kind(d), n)} ELSE {})
          /\ Len(queue) + Len(fs) <= QueueCap
          /\ sub' = [sub EXCEPT !.gapped = (sub.gapped \ (flushed \union {d}))
                                           \union (IF fits THEN {} ELSE Dropped(d)),
                                !.withheld = ClearWithheld(d)]
          /\ \A i, j \in DOMAIN fs : i < j => fs[i].channel # fs[j].channel
    BY <2>0, EnqueueFacts
  <2>2. \A c : Line(c)' = Line(c) \union {f \in Range(fs) : f.channel = c} /\ Early(c)' = Early(c)
    BY <1>0, <1>1, <2>1, FramesEnqueued
  <2>3. \A f \in Range(fs) : \/ f.channel \in flushed /\ f.seq = ring[f.channel].seq
                             \/ fits /\ f.channel = d /\ f.seq = n
    BY <2>1 DEF Markers, Frame
  <2>4. \A c \in sub.gapped : c \in Channels
    BY <1>t DEF SubType
  <2>5. \A c \in Channels : \A f \in Line(c) : f.seq \in Nat /\ f.seq <= ring[c].seq
    BY <1>0, FramesOfAChannel DEF Bounds, Numbered
  <2>6. \A f \in Range(fs) : f.channel \in Channels /\ \A g \in Line(f.channel) : g.seq < f.seq
    <3> SUFFICES ASSUME NEW f \in Range(fs)
                 PROVE  f.channel \in Channels /\ \A g \in Line(f.channel) : g.seq < f.seq
      OBVIOUS
    <3>1. CASE f.channel \in flushed /\ f.seq = ring[f.channel].seq
      BY <2>4, <3>1 DEF Order, Losses
    <3>2. CASE f.channel = d /\ f.seq = n
      BY <1>1, <1>4, <1>n, <2>5, <3>2
    <3> QED BY <2>3, <3>1, <3>2
  <2>7. Orderly(wire', Buffering', queue')
    <3>1. Orderly(wire, Buffering, queue)
      BY DEF Order
    <3>2. \A f \in Range(fs) : \A g \in Flying(wire, Buffering) \union Range(queue) :
             g.channel = f.channel => g.seq < f.seq
      BY <2>6 DEF Line
    <3>3. Orderly(wire, Buffering, queue \o fs)
      BY <1>t, <2>1, <3>1, <3>2, OrderlyJoin
    <3> QED BY <1>1, <1>3, <2>1, <3>3
  <2>8. Watermark'
    <3> SUFFICES ASSUME pump.pc = "drain", NEW j \in DOMAIN queue', j > pump.left
                 PROVE  queue'[j].seq > pump.marks[queue'[j].channel]
      BY <1>1 DEF Watermark
    <3>1. /\ Len(queue) \in Nat /\ Len(fs) \in Nat
          /\ DOMAIN queue = 1 .. Len(queue) /\ DOMAIN fs = 1 .. Len(fs)
          /\ DOMAIN queue' = 1 .. Len(queue) + Len(fs)
          /\ \A i \in 1 .. Len(queue) : queue'[i] = queue[i]
          /\ \A i \in 1 .. Len(fs) : queue'[Len(queue) + i] = fs[i]
      BY <1>t, <2>1, JoinFacts
    <3>2. CASE j <= Len(queue)
      BY <3>1, <3>2 DEF Order, Watermark
    <3>3. CASE j > Len(queue)
      <4> DEFINE i == j - Len(queue)
      <4>1. i \in 1 .. Len(fs) /\ Len(queue) + i = j
        BY <3>1, <3>3
      <4>2. queue'[j] = fs[i] /\ fs[i] \in Range(fs)
        BY <3>1, <4>1 DEF Range
      <4> HIDE DEF i
      <4> DEFINE f == fs[i]
      <4>3. f \in Range(fs) /\ queue'[j] = f
        BY <4>2
      <4> HIDE DEF f
      <4>4. CASE f.channel \in flushed /\ f.seq = ring[f.channel].seq
        BY <1>4, <2>4, <4>3, <4>4 DEF Order, Losses
      <4>5. CASE f.channel = d /\ f.seq = n
        <5>1. pump.marks[d] <= ring[d].seq
          BY DEF Bounds, Numbered
        <5> QED BY <1>1, <1>4, <1>n, <4>3, <4>5, <5>1
      <4> QED BY <2>3, <4>3, <4>4, <4>5
    <3>4. j \in Nat
      BY <3>1
    <3> QED BY <3>1, <3>2, <3>3, <3>4
  <2>9. Losses'
    <3> SUFFICES ASSUME NEW c \in sub'.gapped
                 PROVE  /\ sub'.withheld[c] = 0 /\ pump'.marks[c] < ring'[c].seq
                        /\ \A f \in Line(c)' : f.seq < ring'[c].seq
      BY DEF Losses
    <3>1. /\ sub'.gapped = (sub.gapped \ (flushed \union {d})) \union (IF fits THEN {} ELSE Dropped(d))
          /\ sub'.withheld = ClearWithheld(d)
      BY <1>t, <2>1 DEF SubType
    <3>2. CASE c \in sub.gapped \ (flushed \union {d})
      <4>1. c \in Channels /\ c # d /\ ring'[c] = ring[c]
        BY <1>1, <2>4, <3>2
      <4>2. \A f \in Range(fs) : f.channel # c
        BY <2>3, <3>2
      <4>3. Line(c)' = Line(c)
        BY <2>2, <4>1, <4>2
      <4>4. sub'.withheld[c] = sub.withheld[c]
        BY <1>t, <3>1, <4>1 DEF ClearWithheld, SubType
      <4> QED BY <1>1, <3>2, <4>1, <4>3, <4>4 DEF Order, Losses
    <3>3. CASE ~fits /\ c = d
      <4>1. sub'.withheld[d] = 0
        BY <1>t, <3>1 DEF ClearWithheld, SubType
      <4>2. \A f \in Range(fs) : f.channel # d
        BY <2>3, <3>3
      <4>3. Line(d)' = Line(d)
        BY <2>2, <4>2
      <4>4. pump.marks[d] <= ring[d].seq
        BY DEF Bounds, Numbered
      <4> QED BY <1>1, <1>4, <1>n, <2>5, <3>3, <4>1, <4>3, <4>4
    <3> QED BY <3>1, <3>2, <3>3 DEF Dropped
  <2> QED BY <1>2, <2>7, <2>8, <2>9 DEF Order
<1> QED BY <1>1, <1>5, <1>6

\* Actions of the pump, the read loop and the client leave the bus alone.
LEMMA OrderFrom ==
  ASSUME TypeInv, Order, UNCHANGED <<ring, foreign>>, Orderly(wire', Buffering', queue'), Watermark',
         sub'.gapped \subseteq sub.gapped,
         \A c \in Channels : sub'.withheld[c] \in {0, sub.withheld[c]},
         \A c \in Channels : pump'.marks[c] \in {0, pump.marks[c], sub.withheld[c]},
         \A c \in Channels : \A f \in Line(c)' : f \in Line(c) \/ f.seq = pump.marks[c]
  PROVE  Order'
<1>1. Losses'
  <2>1. \A c \in Channels : ring'[c].seq = ring[c].seq
    OBVIOUS
  <2> QED BY <2>1, LossesKept DEF Order
<1>2. Scoped'
  BY DEF Order, Scoped
<1> QED BY <1>1, <1>2 DEF Order

\* The pump forwards the queue's head.
LEMMA OrderForward ==
  ASSUME TypeInv, Order, queue # <<>>, queue' = Tail(queue), Written(<<Head(queue)>>), Watermark',
         UNCHANGED <<server, sub, sending, client, cursor, held, opens>>, pump'.marks = pump.marks
  PROVE  Order'
<1>0. TypeOK
  BY DEF TypeInv
<1>t. queue \in Seq(Frames) /\ wire \in Seq(Downward) /\ Buffering \in BOOLEAN
  <2>1. Buffering \in BOOLEAN
    BY DEF Buffering
  <2> QED BY <1>0, <2>1, TypeFacts
<1>1. Head(queue) = queue[1] /\ <<Head(queue)>> \in Seq(Frames)
  BY <1>t, HeadOfQueue
<1>2. wire' = wire \o Post(<<queue[1]>>)
  BY <1>t, <1>1, WrittenFacts
<1>3. Orderly(wire, Buffering, queue)
  BY DEF Order
<1>4. Orderly(wire \o Post(<<queue[1]>>), Buffering, Tail(queue))
  BY <1>t, <1>3, OrderlyForward
<1>5. Buffering' = Buffering
  BY DEF Buffering
<1>6. Orderly(wire', Buffering', queue')
  BY <1>2, <1>4, <1>5
<1>7. \A c : Line(c)' \subseteq Line(c)
  <2>1. /\ ~Due => \A c : Line(c)' = Line(c)
        /\ Due => \A c : Line(c)' \subseteq Line(c)
    BY <1>0, FramesForwarded
  <2> QED BY <2>1
<1>8. UNCHANGED <<ring, foreign>>
  BY DEF server
<1> QED BY <1>6, <1>7, <1>8, OrderFrom

\* The pump keeps the order: marks are written once all they cover is drained.
LEMMA OrderPump ==
  ASSUME TypeInv, Shape, Order, PumpNext
  PROVE  Order'
<1>0. TypeOK
  BY DEF TypeInv
<1>t. /\ queue \in Seq(Frames) /\ wire \in Seq(Downward) /\ pump \in PumpType /\ sub \in SubType
      /\ Buffering \in BOOLEAN
  <2>1. Buffering \in BOOLEAN
    BY DEF Buffering
  <2> QED BY <1>0, <2>1, TypeFacts
<1>o. Orderly(wire, Buffering, queue)
  BY DEF Order
<1>1. CASE PumpEvent
  <2>1. /\ queue # <<>> /\ queue' = Tail(queue) /\ Written(<<Head(queue)>>) /\ pump.pc = "idle"
        /\ UNCHANGED <<server, sub, pump, sending, client, cursor, held, opens>>
    BY <1>1 DEF PumpEvent
  <2>2. Watermark'
    BY <2>1 DEF Watermark
  <2> QED BY <2>1, <2>2, OrderForward
<1>2. CASE TakeWithheld
  <2>1. /\ pump'.marks = sub.withheld /\ pump'.pc = "count" /\ sub'.withheld = NoSubscriber.withheld
        /\ sub'.gapped = sub.gapped
        /\ UNCHANGED <<server, queue, sending, wire, client, cursor, held, opens>>
    BY <1>2, <1>t DEF TakeWithheld, SubType
  <2>2. \A c : Line(c)' = Line(c)
    BY <2>1, FramesStay
  <2>3. \A c \in Channels : sub'.withheld[c] = 0
    BY <2>1, BlankFields
  <2>4. Watermark'
    BY <2>1 DEF Watermark
  <2>5. Orderly(wire', Buffering', queue')
    <3>1. Buffering' = Buffering
      BY <2>1 DEF Buffering
    <3> QED BY <1>o, <2>1, <3>1
  <2>6. UNCHANGED <<ring, foreign>>
    BY <2>1 DEF server
  <2> QED BY <2>1, <2>2, <2>3, <2>4, <2>5, <2>6, OrderFrom
<1>3. CASE CountQueue
  <2>1. /\ pump'.marks = pump.marks /\ pump'.left = Len(queue)
        /\ UNCHANGED <<server, sub, queue, sending, wire, client, cursor, held, opens>>
    BY <1>3, <1>t DEF CountQueue, PumpType
  <2>2. \A c : Line(c)' = Line(c)
    BY <2>1, FramesStay
  <2>4. Watermark'
    <3>1. Len(queue) \in Nat /\ DOMAIN queue = 1 .. Len(queue)
      BY <1>t, LenProperties
    <3> QED BY <2>1, <3>1 DEF Watermark
  <2>5. Orderly(wire', Buffering', queue')
    <3>1. Buffering' = Buffering
      BY <2>1 DEF Buffering
    <3> QED BY <1>o, <2>1, <3>1
  <2>6. UNCHANGED <<ring, foreign>>
    BY <2>1 DEF server
  <2> QED BY <2>1, <2>2, <2>4, <2>5, <2>6, OrderFrom
<1>4. CASE DrainEvent
  <2>1. /\ pump.pc = "drain" /\ pump.left > 0 /\ queue' = Tail(queue) /\ Written(<<Head(queue)>>)
        /\ UNCHANGED <<server, sub, sending, client, cursor, held, opens>>
        /\ pump'.marks = pump.marks /\ pump'.left = pump.left - 1
    BY <1>4, <1>t DEF DrainEvent, PumpType
  <2>2. pump.left \in Nat /\ queue # <<>>
    <3>1. pump.left <= Len(queue)
      BY <2>1 DEF TypeInv
    <3>2. queue = <<>> => Len(queue) = 0
      OBVIOUS
    <3>3. pump.left \in Nat
      BY <1>t, CapsAssumption DEF PumpType
    <3> QED BY <2>1, <3>1, <3>2, <3>3
  <2>3. Watermark'
    <3> DEFINE t == Tail(queue)
               m == Len(queue)
    <3>1. /\ m \in Nat /\ DOMAIN queue = 1 .. m /\ DOMAIN t = 1 .. m - 1
          /\ \A i \in 1 .. m - 1 : t[i] = queue[i + 1]
      BY <1>t, <2>2, TailFacts
    <3> HIDE DEF t, m
    <3> SUFFICES ASSUME NEW j \in 1 .. m - 1, j > pump.left - 1
                 PROVE  t[j].seq > pump.marks[t[j].channel]
      BY <2>1, <3>1 DEF Watermark, t
    <3>2. j + 1 \in 1 .. m /\ j + 1 > pump.left
      BY <2>2, <3>1
    <3> QED BY <2>1, <3>1, <3>2 DEF Order, Watermark
  <2> QED BY <2>1, <2>2, <2>3, OrderForward
<1>5. CASE WriteMarks
  <2> DEFINE fs == SetToSeq(MarksToWrite)
  <2>1. /\ Written(fs) /\ pump' = IdlePump /\ pump.pc = "drain" /\ pump.left = 0
        /\ UNCHANGED <<server, sub, queue, sending, client, cursor, held, opens>>
    BY <1>5 DEF WriteMarks, MarksToWrite
  <2>2. fs \in Seq(Frames) /\ Range(fs) = MarksToWrite
    BY <1>t, MarksToWriteFacts
  <2> HIDE DEF fs
  <2>3. \A c : LET new == {f \in Range(fs) : f.channel = c}
               IN /\ Line(c)' = Line(c) \union (IF Due THEN {} ELSE new)
                  /\ Early(c)' = ((Early(c) \ sending.frames[c])
                                     \union ({f \in Range(held.frames) \union Waiting(wire, Buffering) : f.channel = c})
                                     \union (IF Due THEN new ELSE {})) \union sending'.frames[c]
    BY <1>0, <2>1, <2>2, FramesWritten
  <2>4. \A f \in MarksToWrite : f.kind = "mark" /\ f.seq = pump.marks[f.channel]
    BY DEF MarksToWrite, Frame
  <2>5. \A i \in DOMAIN fs : fs[i] \in MarksToWrite
    BY <2>2 DEF Range
  <2>6. \A c \in Channels : \A f \in Line(c)' : f \in Line(c) \/ f.seq = pump.marks[c]
    BY <2>2, <2>3, <2>4
  <2>7. Below(Range(fs), queue)
    <3> SUFFICES ASSUME NEW f \in MarksToWrite, NEW j \in DOMAIN queue, f.channel = queue[j].channel
                 PROVE  f.seq < queue[j].seq
      BY <2>2 DEF Below
    <3>1. j > 0 /\ queue[j] \in Frames
      BY <1>t, LenProperties, ElementOfSeq
    <3>2. queue[j].seq > pump.marks[queue[j].channel]
      BY <2>1, <3>1 DEF Order, Watermark
    <3>3. queue[j].seq \in Nat /\ pump.marks[queue[j].channel] \in Nat
      BY <1>t, <3>1 DEF Frames, PumpType
    <3> QED BY <2>4, <3>2, <3>3
  <2>8. Orderly(wire', Buffering', queue')
    <3>1. wire' = wire \o Post(fs)
      BY <1>t, <2>1, <2>2, WrittenFacts
    <3>2. Orderly(wire \o Post(fs), Buffering, queue)
      BY <1>t, <1>o, <2>2, <2>4, <2>5, <2>7, OrderlyWritten
    <3>3. Buffering' = Buffering
      BY <2>1 DEF Buffering
    <3> QED BY <2>1, <3>1, <3>2, <3>3
  <2>9. Watermark'
    BY <2>1 DEF Watermark, IdlePump
  <2>10. \A c \in Channels : pump'.marks[c] = 0 /\ sub'.withheld[c] = sub.withheld[c]
    BY <2>1, BlankFields
  <2>11. UNCHANGED <<ring, foreign>>
    BY <2>1 DEF server
  <2> QED BY <2>1, <2>6, <2>8, <2>9, <2>10, <2>11, OrderFrom
<1> QED BY <1>1, <1>2, <1>3, <1>4, <1>5 DEF PumpNext

\* The read loop keeps it: a replay's frames wait, they do not fly.
LEMMA OrderLoop ==
  ASSUME TypeInv, Shape, Order, LoopNext
  PROVE  Order'
<1>0. TypeOK
  BY DEF TypeInv
<1>t. /\ queue \in Seq(Frames) /\ wire \in Seq(Downward) /\ pump \in PumpType /\ sub \in SubType
      /\ Buffering \in BOOLEAN /\ sending \in SendingType /\ opens \in Nat
  <2>1. Buffering \in BOOLEAN
    BY DEF Buffering
  <2> QED BY <1>0, <2>1, TypeFacts
<1>o. Orderly(wire, Buffering, queue) /\ Watermark
  BY DEF Order
<1>1. CASE ReadWatch
  <2>1. /\ sub'.withheld = sub.withheld /\ sub'.gapped = sub.gapped
        /\ UNCHANGED <<server, pump, queue, sending, wire, client, cursor, held, opens>>
    BY <1>1, <1>t DEF ReadWatch, SubType
  <2>2. \A c : Line(c)' = Line(c)
    BY <2>1, FramesStay
  <2>3. Buffering' = Buffering
    BY <2>1 DEF Buffering
  <2>4. Orderly(wire', Buffering', queue') /\ Watermark'
    BY <1>o, <2>1, <2>3 DEF Watermark
  <2>5. UNCHANGED <<ring, foreign>>
    BY <2>1 DEF server
  <2> QED BY <2>1, <2>2, <2>4, <2>5, OrderFrom
<1>2. CASE ReadReplay
  <2>1. UNCHANGED <<server, sub, pump, queue, wire, client, cursor, held, opens>>
    BY <1>2 DEF ReadReplay
  <2>2. Buffering' = Buffering
    BY <2>1 DEF Buffering
  <2>3. \A c : Line(c)' = Line(c)
    BY <2>1, <2>2 DEF Line
  <2>4. Orderly(wire', Buffering', queue') /\ Watermark'
    BY <1>o, <2>1, <2>2 DEF Watermark
  <2>5. UNCHANGED <<ring, foreign>>
    BY <2>1 DEF server
  <2> QED BY <2>1, <2>3, <2>4, <2>5, OrderFrom
<1>3. CASE WriteDone
  <2>1. /\ wire' = Append(wire, Marker) /\ sending' = NoReplay /\ \A c \in Channels : sending.frames[c] = {}
        /\ UNCHANGED <<server, sub, pump, queue, client, cursor, held, opens>>
    BY <1>3 DEF WriteDone, Marker
  <2>2. \A c \in Channels : sending'.frames[c] = sending.frames[c]
    BY <2>1 DEF NoReplay
  <2>3. \A c \in Channels : Line(c)' = Line(c) /\ Early(c)' = Early(c)
    BY <1>0, <2>1, <2>2, FramesMarked
  <2>4. Buffering' = Buffering
    BY <2>1 DEF Buffering
  <2>5. Orderly(wire', Buffering, queue)
    <3>1. /\ Flying(wire', Buffering) = Flying(wire, Buffering)
          /\ Rising(wire, Buffering) => Rising(wire', Buffering)
      BY <1>t, <2>1, MarkerJoin
    <3> QED BY <1>o, <3>1 DEF Orderly
  <2>6. Orderly(wire', Buffering', queue') /\ Watermark'
    BY <1>o, <2>1, <2>4, <2>5 DEF Watermark
  <2>7. UNCHANGED <<ring, foreign>>
    BY <2>1 DEF server
  <2> QED BY <2>1, <2>3, <2>6, <2>7, OrderFrom
<1>4. ASSUME NEW d \in Channels, WriteReplay(d)
      PROVE  Order'
  <2>1. PICK f \in sending.frames[d] :
          /\ Written(<<f>>) /\ sending' = [sending EXCEPT !.frames[d] = @ \ {f}]
    BY <1>4 DEF WriteReplay
  <2> DEFINE fs == <<f>>
  <2>2. UNCHANGED <<server, sub, pump, queue, client, cursor, held, opens>>
    BY <1>4 DEF WriteReplay
  <2>3. f \in Frames
    BY <1>t DEF SendingType
  <2>4. fs \in Seq(Frames)
    BY <2>3
  <2>5. Written(fs)
    BY <2>1
  <2> HIDE DEF fs
  <2>6. Due /\ Buffering = TRUE /\ ~Ended(wire)
    <3>1. opens > 1
      BY <1>t, <2>1 DEF Shape, Window
    <3>2. sending.busy
      <4>1. sending.busy \/ sending = NoReplay
        BY DEF Shape, Window
      <4> QED BY <2>1, <4>1 DEF NoReplay
    <3> QED BY <3>1, <3>2 DEF Shape, Window, Due, Buffering
  <2>7. Flying(wire, Buffering) = {}
    <3>1. Flying(wire, TRUE) = {}
      BY <1>t, <2>6, NothingFlies
    <3> QED BY <2>6, <3>1
  <2>8. \A c : Line(c)' = Line(c)
    <3>1. \A c : LET new == {g \in Range(fs) : g.channel = c}
                 IN /\ Line(c)' = Line(c) \union (IF Due THEN {} ELSE new)
                    /\ Early(c)' = ((Early(c) \ sending.frames[c])
                                     \union ({g \in Range(held.frames) \union Waiting(wire, Buffering) : g.channel = c})
                                     \union (IF Due THEN new ELSE {})) \union sending'.frames[c]
      BY <1>0, <2>2, <2>4, <2>5, FramesWritten
    <3> QED BY <2>6, <3>1
  <2>9. wire' = wire \o Post(fs)
    BY <1>t, <2>4, <2>5, WrittenFacts
  <2>10. Orderly(wire \o Post(fs), Buffering, queue)
    BY <1>t, <1>o, <2>4, <2>6, <2>7, OrderlyWritten
  <2>11. Buffering' = Buffering
    BY <2>2 DEF Buffering
  <2>12. Orderly(wire', Buffering', queue') /\ Watermark'
    BY <1>o, <2>2, <2>9, <2>10, <2>11 DEF Watermark
  <2>13. UNCHANGED <<ring, foreign>>
    BY <2>2 DEF server
  <2> QED BY <2>2, <2>8, <2>12, <2>13, OrderFrom
<1> QED BY <1>1, <1>2, <1>3, <1>4 DEF LoopNext

\* The client takes the head of the wire, and handles it or waits.
LEMMA OrderReads ==
  ASSUME TypeInv, Shape, Order, ClientReads
  PROVE  Order'
<1>0. TypeOK
  BY DEF TypeInv
<1>t. wire \in Seq(Downward) /\ Buffering \in BOOLEAN /\ Framed(wire) /\ client \in ClientType
  <2>1. Buffering \in BOOLEAN
    BY DEF Buffering
  <2> QED BY <1>0, <2>1, TypeFacts DEF Shape, Greeted
<1>o. Rising(wire, Buffering) /\ Below(Flying(wire, Buffering), queue) /\ Ascending(queue) /\ Watermark
  BY DEF Order, Orderly
<1>1. ASSUME wire # <<>>, wire' = Tail(wire), UNCHANGED <<server, connection, opens>>,
             Rising(wire', Buffering'), Flying(wire', Buffering') \subseteq Flying(wire, Buffering)
      PROVE  Order'
  <2>1. UNCHANGED <<ring, foreign, sub, queue, pump>>
    BY <1>1 DEF server, connection
  <2>2. Orderly(wire', Buffering', queue') /\ Watermark'
    BY <1>o, <1>1, <2>1 DEF Orderly, Below, Watermark
  <2>3. \A c : Line(c)' \subseteq Line(c)
    BY <1>1, <2>1 DEF Line
  <2> QED BY <2>1, <2>2, <2>3, OrderFrom
<1>2. CASE ReadHello
  <2>1. wire # <<>> /\ Head(wire).type = "hello" /\ wire' = Tail(wire) /\ UNCHANGED <<server, connection, opens>>
        /\ client'.replaying = client.replaying
    BY <1>2, <1>t DEF ReadHello, ClientType
  <2>2. wire[1].type = "hello" /\ Buffering' = Buffering
    BY <1>t, <2>1, TailFacts DEF Buffering
  <2>3. Rising(wire', Buffering) /\ Flying(wire', Buffering) = Flying(wire, Buffering)
    <3>1. Flying(Tail(wire), Buffering) = Flying(wire, Buffering)
      BY <1>t, <2>1, <2>2, FlyingTail
    <3>2. Rising(Tail(wire), Buffering)
      BY <1>t, <1>o, <2>1, RisingTail
    <3> QED BY <2>1, <3>1, <3>2
  <2> QED BY <1>1, <2>1, <2>2, <2>3
<1>3. CASE ReadFrame
  <2>1. wire # <<>> /\ Head(wire).type = "event" /\ wire' = Tail(wire)
        /\ UNCHANGED <<server, connection, client, opens>>
    BY <1>3 DEF ReadFrame
  <2>2. wire[1].type = "event" /\ Buffering' = Buffering
    BY <1>t, <2>1, TailFacts DEF Buffering
  <2>3. Rising(wire', Buffering) /\ Flying(wire', Buffering) \subseteq Flying(wire, Buffering)
    <3>1. /\ ~Buffering => Flying(wire, Buffering) = Flying(Tail(wire), Buffering) \union {wire[1].frame}
          /\ Buffering => Flying(wire, Buffering) = Flying(Tail(wire), Buffering)
      BY <1>t, <2>1, <2>2, FlyingTail
    <3>2. Rising(Tail(wire), Buffering)
      BY <1>t, <1>o, <2>1, RisingTail
    <3> QED BY <2>1, <3>1, <3>2
  <2> QED BY <1>1, <2>1, <2>2, <2>3
<1>4. CASE ReadDone
  <2>1. wire # <<>> /\ Head(wire).type = "replay" /\ wire' = Tail(wire) /\ UNCHANGED <<server, connection, opens>>
        /\ ~client'.replaying
    BY <1>4, <1>t DEF ReadDone, ClientType
  <2>2. wire[1].type = "replay" /\ Buffering' = FALSE
    BY <1>t, <2>1, TailFacts DEF Buffering
  <2>3. Rising(wire', FALSE) /\ Flying(wire', FALSE) = Flying(wire, Buffering)
    <3>1. Flying(Tail(wire), FALSE) = Flying(wire, Buffering)
      BY <1>t, <2>1, <2>2, FlyingTail
    <3>2. Rising(Tail(wire), FALSE)
      BY <1>t, <1>o, <2>1, <2>2, RisingTail
    <3> QED BY <2>1, <3>1, <3>2
  <2> QED BY <1>1, <2>1, <2>2, <2>3
<1> QED BY <1>2, <1>3, <1>4 DEF ClientReads

\* Every step keeps the order.
LEMMA OrderStep == TypeInv /\ Shape /\ Bounds /\ Order /\ [Next]_vars => Order'
<1> SUFFICES ASSUME TypeInv, Shape, Bounds, Order, [Next]_vars PROVE Order'
  OBVIOUS
<1>0. TypeOK
  BY DEF TypeInv
<1>t. client \in ClientType /\ ring \in RingType
  BY <1>0, TypeFacts
<1>1. ASSUME NEW d \in Channels, NEW away \in BOOLEAN, Emit(d, away)
      PROVE  Order'
  BY <1>1, OrderEmit
<1>2. CASE PumpNext
  BY <1>2, OrderPump
<1>3. CASE LoopNext
  BY <1>3, OrderLoop
<1>4. CASE ClientReads
  BY <1>4, OrderReads
<1>5. ASSUME UNCHANGED <<foreign, sub, queue, pump, sending, wire, held, opens>>,
             client'.replaying = client.replaying, \A c \in Channels : ring'[c].seq = ring[c].seq
      PROVE  Order'
  <2>1. \A c : Line(c)' = Line(c)
    BY <1>5, FramesStay
  <2>2. Losses'
    BY <1>5, <2>1, LossesKept DEF Order
  <2>3. Buffering' = Buffering
    BY <1>5 DEF Buffering
  <2> QED BY <1>5, <2>2, <2>3 DEF Order, Watermark, Scoped
<1>6. CASE Watch \/ UNCHANGED vars
  <2>1. UNCHANGED <<ring, foreign, sub, queue, pump, sending, wire, held, opens>> /\ client'.replaying = client.replaying
    BY <1>6, <1>t DEF Watch, vars, server, connection, ClientType
  <2> QED BY <1>5, <2>1
<1>7. ASSUME NEW d \in Channels, Release(d)
      PROVE  Order'
  <2>1. /\ ring' = [ring EXCEPT ![d].oldest = @ + 1]
        /\ UNCHANGED <<foreign, sub, queue, pump, sending, wire, held, opens, client>>
    BY <1>7 DEF Release, connection
  <2>2. \A c \in Channels : ring'[c].seq = ring[c].seq
    BY <1>t, <2>1 DEF RingType
  <2> QED BY <1>5, <2>1, <2>2
<1>8. ASSUME queue' = <<>>, sub'.gapped = {}, pump' = IdlePump,
             \A buf : Flying(wire', buf) = {} /\ Rising(wire', buf), Scoped'
      PROVE  Order'
  <2>1. DOMAIN queue' = {}
    BY <1>8
  <2> QED BY <1>8, <2>1 DEF Order, Orderly, Below, Ascending, Watermark, Losses, IdlePump
<1>9. CASE Open
  <2> DEFINE hello == [type |-> "hello", launch |-> launch, baseline |-> [c \in Channels |-> ring[c].seq]]
  <2>1. /\ ~client.open /\ wire' = <<hello>> /\ sub' = [NoSubscriber EXCEPT !.on = TRUE]
        /\ UNCHANGED <<foreign, queue, pump>>
    BY <1>9 DEF Open, server
  <2>2. queue = <<>> /\ pump = IdlePump /\ sub'.gapped = {}
    BY <2>1 DEF Shape, Closed, NoSubscriber
  <2>3. hello.type = "hello"
    OBVIOUS
  <2> HIDE DEF hello
  <2>4. \A buf : Flying(wire', buf) = {} /\ Rising(wire', buf)
    BY <2>1, <2>3, OnHello
  <2>5. Scoped'
    BY <2>1 DEF Order, Scoped
  <2> QED BY <1>8, <2>1, <2>2, <2>4, <2>5
<1>10. CASE Disconnect \/ Relaunch
  <2>1. wire' = <<>> /\ queue' = <<>> /\ pump' = IdlePump /\ sub' = NoSubscriber
    BY <1>10 DEF Disconnect, Relaunch, Disconnected
  <2>2. \A c \in Channels : foreign'[c] = foreign[c] \/ foreign'[c] = {}
    BY <1>10 DEF Disconnect, Relaunch, server
  <2>3. \A buf : Flying(wire', buf) = {} /\ Rising(wire', buf)
    BY <2>1, OnNothing
  <2>4. sub'.gapped = {}
    BY <2>1 DEF NoSubscriber
  <2>5. Scoped'
    BY <2>2 DEF Order, Scoped
  <2> QED BY <1>8, <2>1, <2>3, <2>4, <2>5
<1> QED BY <1>1, <1>2, <1>3, <1>4, <1>6, <1>7, <1>9, <1>10 DEF Next, BusNext

-----------------------------------------------------------------------------
(* What is missing.  A frame is covered by a frame of its number or by a   *)
(* gap above it.  Line and heights of a channel: what is under way to it   *)
(* in order, and the numbers it will reach without a gap.                  *)

\* The channels with a ring of several frames.
Deep == Channels \ LatestOnly

\* A frame covers its number, a gap all below as well.
Cov(g, s) == g.seq = s \/ (Gappy(g) /\ g.seq > s)

\* The numbers that a channel's cursor will reach without a gap.
Heights(c) == {g.seq : g \in {h \in Line(c) : ~Gappy(h)}} \union {pump.marks[c], sub.withheld[c]}

\* Above x nothing is missing up to the head r, if no loss is still to be announced,
\* and nothing is missing below a height, when the line has come that far.
Covers(c, lost, L, H, r, x, E, X) ==
    /\ c \in lost \/ \A s \in x + 1 .. r : s \in X \/ \E g \in E \union L : Cov(g, s)
    /\ \A n \in H : \A s \in x + 1 .. n - 1 :
          s \in X \/ (\E g \in E : Cov(g, s)) \/ (\E g \in L : Cov(g, s) /\ g.seq <= n)

\* Nothing of the channel is missing above x, but what E covers or X excuses.
Whole(c, x, E, X) == Covers(c, sub.gapped, Line(c), Heights(c), ring[c].seq, x, E, X)

\* Nothing is missing below an early frame that is no gap.
Packed(x, E, X) ==
    \A f \in E : ~Gappy(f) => \A s \in x + 1 .. f.seq - 1 : s \in X \/ \E g \in E : Cov(g, s)

\* Nothing is missing behind a gap, to which the client sets its cursor.
NoneBehind(c) == \A h \in Line(c) : Gappy(h) => Whole(c, h.seq, {}, Declined(c))

\* ... on any of the deep channels.
Behind == \A c \in Deep : NoneBehind(c)

\* The connection's cursors, or the ones that hello will seed.
Current == client.open /\ ~client.recover /\ (client.known => client.launch = launch)

\* A channel's cursor, or the one that hello will seed.
Base(c) == IF client.known THEN cursor[c].seq ELSE wire[1].baseline[c]

\* Once the replay was read nothing is missing above the cursors.
Excused(c) == Declined(c) \union {s \in Nat : s <= told[c] \/ (held.overflow /\ s <= held.heads[c])}

\* No replay is owed any more.
Tracked == Current /\ \A m \in Asks(up) : ~m.known

\* Nothing is missing above the cursor.
Covered(c) ==
    /\ Whole(c, Base(c), Early(c), Excused(c))
    /\ Packed(Base(c), Early(c), Excused(c))

\* Once no replay is owed, nothing is missing above the cursors.
Tracking == Tracked => \A c \in Deep : Covered(c)

\* What reaches a reconnecting client in its replay window is above its cursors.
Fresh(c) ==
    /\ \A f \in Early(c) \union Line(c) : f.seq > Base(c)
    /\ \A n \in {held.heads[c], pump.marks[c], sub.withheld[c]} : n # 0 => n > Base(c)
    /\ c \in sub.gapped => ring[c].seq > Base(c)

\* In a replay window of a current connection all is fresh, and a request that is under
\* way asks from the cursors.
Freshness ==
    /\ Current /\ Buffering => \A c \in Channels : Fresh(c)
    /\ Current => \A m \in Asks(up) : m.known => \A c \in Channels : m.from[c] = cursor[c].seq

\* What was passed was accounted for.
Kept(c) == \A s \in 1 .. cursor[c].seq : s \in got[c] \union Declined(c) \/ s <= told[c]

\* ... or superseded by the whole state the cursor is at.
LatestKept(c) == cursor[c].seq = 0 \/ cursor[c].seq \in got[c] \/ cursor[c].seq <= told[c]

\* What the cursors passed was accounted for, or a recovery will tell.
Keeping ==
    client.launch = launch /\ ~client.recover =>
        /\ \A c \in Deep : Kept(c)
        /\ \A c \in LatestOnly : LatestKept(c)

\* An open connection is subscribed.
Subscribed == client.open => sub.on

\* The invariant of delivery.
Delivery == Behind /\ Tracking /\ Freshness /\ Keeping /\ Subscribed

\* What is covered stays covered: what leaves the line turns early or is passed,
\* what is no longer early is passed or excused.
LEMMA CoversStill ==
  ASSUME NEW L, NEW L2, NEW E, NEW E2, NEW H, NEW H2, NEW X, NEW X2,
         NEW r \in Nat, NEW x \in Nat, NEW x2 \in Nat, x <= x2, NEW c, NEW lost, NEW lost2,
         \A g \in L : g.seq \in Nat, \A g \in E : g.seq \in Nat, \A n \in H : n \in Nat,
         Covers(c, lost, L, H, r, x, E, X),
         c \in lost => c \in lost2, H2 \subseteq H \union {0},
         \A g \in L : g \in L2 \/ g \in E2 \/ g.seq <= x2,
         \A g \in E : g \in E2 \/ g.seq <= x2 \/ \A s \in Nat : s <= g.seq => s \in X2,
         \A s \in X : s \in X2 \/ s <= x2
  PROVE  Covers(c, lost2, L2, H2, r, x2, E2, X2)
<1>1. ASSUME NEW s \in Nat, s > x2, s \in X
      PROVE  s \in X2
  BY <1>1
<1>2. ASSUME NEW s \in Nat, s > x2, NEW g \in E, Cov(g, s)
      PROVE  s \in X2 \/ \E h \in E2 : Cov(h, s)
  <2>1. s <= g.seq
    BY <1>2 DEF Cov
  <2> QED BY <1>2, <2>1
<1>3. ASSUME NEW s \in Nat, s > x2, NEW g \in L, Cov(g, s)
      PROVE  g \in E2 \/ g \in L2
  <2>1. s <= g.seq
    BY <1>3 DEF Cov
  <2> QED BY <1>3, <2>1
<1>4. c \notin lost2 => \A s \in x2 + 1 .. r : s \in X2 \/ \E g \in E2 \union L2 : Cov(g, s)
  <2> SUFFICES ASSUME c \notin lost2, NEW s \in x2 + 1 .. r
               PROVE  s \in X2 \/ \E g \in E2 \union L2 : Cov(g, s)
    OBVIOUS
  <2>1. s \in Nat /\ s > x2 /\ s \in x + 1 .. r
    OBVIOUS
  <2>2. s \in X \/ \E g \in E \union L : Cov(g, s)
    BY <2>1 DEF Covers
  <2> QED BY <1>1, <1>2, <1>3, <2>1, <2>2
<1>5. ASSUME NEW n \in H2, NEW s \in x2 + 1 .. n - 1
      PROVE  s \in X2 \/ (\E g \in E2 : Cov(g, s)) \/ (\E g \in L2 : Cov(g, s) /\ g.seq <= n)
  <2>1. n \in Nat /\ n # 0
    BY <1>5
  <2>2. n \in H
    BY <2>1
  <2>3. s \in Nat /\ s > x2 /\ s \in x + 1 .. n - 1
    BY <2>1, <1>5
  <2>4. s \in X \/ (\E g \in E : Cov(g, s)) \/ (\E g \in L : Cov(g, s) /\ g.seq <= n)
    BY <2>2, <2>3 DEF Covers
  <2> QED BY <1>1, <1>2, <1>3, <2>3, <2>4
<1> QED BY <1>4, <1>5 DEF Covers

\* ... and so do the frames below an early one.
LEMMA PackedStill ==
  ASSUME NEW E, NEW E2, NEW X, NEW X2, NEW x \in Nat, NEW x2 \in Nat, x <= x2,
         \A g \in E : g.seq \in Nat, Packed(x, E, X),
         \A g \in E : g \in E2 \/ g.seq <= x2 \/ \A s \in Nat : s <= g.seq => s \in X2,
         \A s \in X : s \in X2 \/ s <= x2,
         \A f \in E2 : f \in E \/ Gappy(f)
             \/ \A s \in x2 + 1 .. f.seq - 1 : s \in X2 \/ \E g \in E2 : Cov(g, s)
  PROVE  Packed(x2, E2, X2)
<1> SUFFICES ASSUME NEW f \in E2, f \in E, ~Gappy(f), NEW s \in x2 + 1 .. f.seq - 1
             PROVE  s \in X2 \/ \E g \in E2 : Cov(g, s)
  BY DEF Packed
<1>1. s \in Nat /\ s > x2 /\ s \in x + 1 .. f.seq - 1
  OBVIOUS
<1>2. s \in X \/ \E g \in E : Cov(g, s)
  BY <1>1 DEF Packed
<1>3. ASSUME NEW g \in E, Cov(g, s)
      PROVE  s \in X2 \/ \E h \in E2 : Cov(h, s)
  <2>1. s <= g.seq
    BY <1>1, <1>3 DEF Cov
  <2> QED BY <1>1, <1>3, <2>1
<1> QED BY <1>1, <1>2, <1>3

\* How a channel's line grows with its ring: by a frame of the new number, by a
\* mark to come, by the announcement of a loss, or not at all and something is lost.
Grown(c, lost, L, H, r, lost2, L2, H2, r2, D) ==
    /\ L \subseteq L2 /\ r <= r2
    /\ \A f \in L2 \ L : Gappy(f) => f.seq = r2
    /\ \/ r2 = r /\ H2 \subseteq H \union {0} /\ (c \in lost => c \in lost2)
       \/ /\ r2 = r + 1 /\ (c \in lost => c \in lost2)
          /\ r2 \in D \/ \E f \in L2 : f.seq = r2
          /\ H2 \subseteq H \union {0, r2} /\ (r2 \in H2 => c \notin lost)
       \/ H2 \subseteq H \union {0} /\ \E f \in L2 : Gappy(f) /\ f.seq = r2
       \/ H2 \subseteq H \union {0} /\ c \in lost2

\* What was covered is, as the line grows.
LEMMA CoversGrown ==
  ASSUME NEW L, NEW L2, NEW E, NEW H, NEW H2, NEW X, NEW X2, NEW D,
         NEW r \in Nat, NEW r2 \in Nat, NEW x \in Nat, NEW c, NEW lost, NEW lost2,
         \A g \in L : g.seq \in Nat /\ g.seq <= r, \A g \in E : g.seq \in Nat, \A n \in H : n \in Nat /\ n <= r,
         Covers(c, lost, L, H, r, x, E, X), X \subseteq X2, D \subseteq X2,
         Grown(c, lost, L, H, r, lost2, L2, H2, r2, D)
  PROVE  Covers(c, lost2, L2, H2, r2, x, E, X2)
<1>1. L \subseteq L2 /\ r <= r2
  BY DEF Grown
<1>2. ASSUME NEW n \in H2, n \in H \union {0}, NEW s \in x + 1 .. n - 1
      PROVE  s \in X2 \/ (\E g \in E : Cov(g, s)) \/ (\E g \in L2 : Cov(g, s) /\ g.seq <= n)
  <2>1. n \in Nat /\ n # 0
    BY <1>2
  <2>2. n \in H
    BY <1>2, <2>1
  <2>3. s \in X \/ (\E g \in E : Cov(g, s)) \/ (\E g \in L : Cov(g, s) /\ g.seq <= n)
    BY <1>2, <2>2 DEF Covers
  <2> QED BY <1>1, <2>3
<1>3. ASSUME c \notin lost, NEW s \in x + 1 .. r
      PROVE  s \in X2 \/ (\E g \in E : Cov(g, s)) \/ (\E g \in L2 : Cov(g, s) /\ g.seq <= r)
  <2>1. s \in X \/ \E g \in E \union L : Cov(g, s)
    BY <1>3 DEF Covers
  <2> QED BY <1>1, <2>1
<1>4. CASE r2 = r /\ H2 \subseteq H \union {0} /\ (c \in lost => c \in lost2)
  <2>1. c \in lost2 \/ \A s \in x + 1 .. r2 : s \in X2 \/ \E g \in E \union L2 : Cov(g, s)
    BY <1>3, <1>4
  <2> QED BY <1>2, <1>4, <2>1 DEF Covers
<1>5. CASE /\ r2 = r + 1 /\ (c \in lost => c \in lost2)
           /\ r2 \in D \/ \E f \in L2 : f.seq = r2
           /\ H2 \subseteq H \union {0, r2} /\ (r2 \in H2 => c \notin lost)
  <2>1. \A s \in x + 1 .. r2 : s \in x + 1 .. r \/ s = r2
    BY <1>5
  <2>2. r2 \in X2 \/ \E g \in L2 : Cov(g, r2)
    BY <1>5 DEF Cov
  <2>3. c \in lost2 \/ \A s \in x + 1 .. r2 : s \in X2 \/ \E g \in E \union L2 : Cov(g, s)
    BY <1>3, <1>5, <2>1, <2>2
  <2>4. ASSUME NEW n \in H2, NEW s \in x + 1 .. n - 1
        PROVE  s \in X2 \/ (\E g \in E : Cov(g, s)) \/ (\E g \in L2 : Cov(g, s) /\ g.seq <= n)
    <3>1. CASE n \in H \union {0}
      BY <1>2, <2>4, <3>1
    <3>2. CASE n = r2
      <4>1. c \notin lost /\ s \in x + 1 .. r
        BY <1>5, <2>4, <3>2
      <4>2. s \in X2 \/ (\E g \in E : Cov(g, s)) \/ (\E g \in L : Cov(g, s))
        BY <4>1 DEF Covers
      <4>3. \A g \in L : g.seq <= n /\ g \in L2
        BY <1>1, <1>5, <3>2
      <4> QED BY <4>2, <4>3
    <3> QED BY <1>5, <2>4, <3>1, <3>2
  <2> QED BY <2>3, <2>4 DEF Covers
<1>6. CASE H2 \subseteq H \union {0} /\ \E f \in L2 : Gappy(f) /\ f.seq = r2
  <2>1. \A s \in x + 1 .. r2 : \E g \in E \union L2 : Cov(g, s)
    BY <1>6 DEF Cov
  <2> QED BY <1>2, <1>6, <2>1 DEF Covers
<1>7. CASE H2 \subseteq H \union {0} /\ c \in lost2
  BY <1>2, <1>7 DEF Covers
<1> QED BY <1>4, <1>5, <1>6, <1>7 DEF Grown

\* Nothing is missing above the top.
LEMMA CoversTop ==
  ASSUME NEW L, NEW E, NEW H, NEW X, NEW r \in Nat, NEW x \in Nat, r <= x, NEW c, NEW lost,
         \A n \in H : n \in Nat /\ n <= x
  PROVE  Covers(c, lost, L, H, r, x, E, X)
<1>1. \A s \in x + 1 .. r : FALSE
  OBVIOUS
<1>2. \A n \in H : \A s \in x + 1 .. n - 1 : FALSE
  OBVIOUS
<1> QED BY <1>1, <1>2 DEF Covers

\* ... nor where everything up to the top is excused, or covered early.
LEMMA CoversAll ==
  ASSUME NEW L, NEW E, NEW H, NEW X, NEW r \in Nat, NEW x \in Nat, NEW c, NEW lost,
         \A n \in H : n \in Nat /\ n <= r, \A f \in E : f.seq \in Nat /\ f.seq <= r,
         \A s \in x + 1 .. r : s \in X \/ \E g \in E : Cov(g, s)
  PROVE  Covers(c, lost, L, H, r, x, E, X) /\ Packed(x, E, X)
<1>1. \A n \in H : \A s \in x + 1 .. n - 1 : s \in x + 1 .. r
  OBVIOUS
<1>2. \A f \in E : \A s \in x + 1 .. f.seq - 1 : s \in x + 1 .. r
  OBVIOUS
<1>3. Covers(c, lost, L, H, r, x, E, X)
  BY <1>1 DEF Covers
<1>4. Packed(x, E, X)
  BY <1>2 DEF Packed
<1> QED BY <1>3, <1>4

\* The numbers of a channel's line, its early frames and its heights.
LEMMA LineTypes ==
  ASSUME TypeOK, NEW c \in Channels
  PROVE  /\ \A g \in Line(c) : g \in Frames /\ g.seq \in Nat
         /\ \A g \in Early(c) : g \in Frames /\ g.seq \in Nat
         /\ \A n \in Heights(c) : n \in Nat
         /\ ring[c].seq \in Nat
         /\ told[c] \in Nat /\ held.heads[c] \in Nat /\ cursor[c].seq \in Nat
         /\ Bounds => /\ \A g \in Line(c) \union Early(c) : g.seq <= ring[c].seq
                      /\ \A n \in Heights(c) : n <= ring[c].seq
<1>1. /\ \A g \in Line(c) : g \in Frames /\ g.channel = c /\ g.seq \in Nat
      /\ \A g \in Early(c) : g \in Frames /\ g.seq \in Nat
  BY FramesOfAChannel
<1>2. /\ ring[c].seq \in Nat /\ pump.marks[c] \in Nat /\ sub.withheld[c] \in Nat /\ held.heads[c] \in Nat
      /\ cursor[c].seq \in Nat /\ told[c] \in Nat
  BY ChannelTypes
<1>3. \A n \in Heights(c) : n \in Nat
  BY <1>1, <1>2 DEF Heights
<1>4. ASSUME Bounds
      PROVE  /\ \A g \in Line(c) \union Early(c) : g.seq <= ring[c].seq
             /\ pump.marks[c] <= ring[c].seq /\ sub.withheld[c] <= ring[c].seq
  BY <1>4 DEF Bounds, Numbered
<1>5. Bounds => \A n \in Heights(c) : n <= ring[c].seq
  BY <1>4 DEF Heights
<1> QED BY <1>1, <1>2, <1>3, <1>4, <1>5

\* No height is new if no frame is, but marks taken up by the pump or written.
LEMMA HeightsFrom ==
  ASSUME NEW c,
         \A f \in Line(c)' : f \in Line(c) \/ f.seq = pump.marks[c],
         pump'.marks[c] \in {0, pump.marks[c], sub.withheld[c]},
         sub'.withheld[c] \in {0, sub.withheld[c]}
  PROVE  Heights(c)' \subseteq Heights(c) \union {0}
<1>1. ASSUME NEW f \in Line(c)', ~Gappy(f)
      PROVE  f.seq \in Heights(c)
  BY <1>1 DEF Heights
<1>2. pump'.marks[c] \in Heights(c) \union {0} /\ sub'.withheld[c] \in Heights(c) \union {0}
  BY DEF Heights
<1> QED BY <1>1, <1>2 DEF Heights

\* No gap is new, and what left the line was below the gaps.
LEMMA BehindFrom ==
  ASSUME TypeOK, TypeOK', NEW c \in Channels, NoneBehind(c),
         ring'[c].seq = ring[c].seq, c \in sub.gapped => c \in sub'.gapped,
         Heights(c)' \subseteq Heights(c) \union {0}, Declined(c) \subseteq Declined(c)',
         \A h \in Line(c)' : Gappy(h) => /\ h \in Line(c)
                                         /\ \A g \in Line(c) : g \in Line(c)' \/ g.seq <= h.seq
  PROVE  NoneBehind(c)'
<1> SUFFICES ASSUME NEW h \in Line(c)', Gappy(h)
             PROVE  Whole(c, h.seq, {}, Declined(c))'
  BY DEF NoneBehind
<1>1. Covers(c, sub.gapped, Line(c), Heights(c), ring[c].seq, h.seq, {}, Declined(c))
  BY DEF NoneBehind, Whole
<1>2. h.seq \in Nat /\ \A g \in Line(c) : g.seq \in Nat
  BY LineTypes
<1>3. ring[c].seq \in Nat /\ \A n \in Heights(c) : n \in Nat
  BY LineTypes
<1>4. \A g \in Line(c) : g \in Line(c)' \/ g.seq <= h.seq
  OBVIOUS
<1>5. Covers(c, sub'.gapped, Line(c)', Heights(c)', ring[c].seq, h.seq, {}, Declined(c)')
  BY <1>1, <1>2, <1>3, <1>4, CoversStill
<1> QED BY <1>5 DEF Whole

\* What left the line or was early is early now, passed, or excused.
LEMMA CoveredFrom ==
  ASSUME TypeOK, TypeOK', NEW c \in Channels, Covered(c), Base(c) \in Nat, Base(c)' \in Nat, Base(c) <= Base(c)',
         ring'[c].seq = ring[c].seq, c \in sub.gapped => c \in sub'.gapped,
         Heights(c)' \subseteq Heights(c) \union {0},
         \A g \in Line(c) : g \in Line(c)' \/ g \in Early(c)' \/ g.seq <= Base(c)',
         \A g \in Early(c) : \/ g \in Early(c)' \/ g.seq <= Base(c)'
                             \/ \A s \in Nat : s <= g.seq => s \in Excused(c)',
         \A s \in Excused(c) : s \in Excused(c)' \/ s <= Base(c)',
         \A f \in Early(c)' : f \in Early(c) \/ Gappy(f)
             \/ \A s \in Base(c)' + 1 .. f.seq - 1 : s \in Excused(c)' \/ \E g \in Early(c)' : Cov(g, s)
  PROVE  Covered(c)'
<1>1. /\ Covers(c, sub.gapped, Line(c), Heights(c), ring[c].seq, Base(c), Early(c), Excused(c))
      /\ Packed(Base(c), Early(c), Excused(c))
  BY DEF Covered, Whole
<1>2. /\ \A g \in Line(c) : g.seq \in Nat
      /\ \A g \in Early(c) : g.seq \in Nat
      /\ \A n \in Heights(c) : n \in Nat
      /\ ring[c].seq \in Nat
  BY LineTypes
<1>3. Covers(c, sub'.gapped, Line(c)', Heights(c)', ring[c].seq, Base(c)', Early(c)', Excused(c)')
  BY <1>1, <1>2, CoversStill
<1>4. Packed(Base(c)', Early(c)', Excused(c)')
  BY <1>1, <1>2, PackedStill
<1> QED BY <1>3, <1>4 DEF Covered, Whole

\* What is new in the window is above the cursor.
LEMMA FreshFrom ==
  ASSUME TypeOK, TypeOK', NEW c \in Channels, Fresh(c), Base(c) \in Nat, Base(c)' = Base(c),
         ring'[c].seq >= ring[c].seq,
         \A f \in Early(c)' \union Line(c)' : f \in Early(c) \union Line(c) \/ f.seq > Base(c),
         held'.heads[c] \in {0, held.heads[c]} \/ held'.heads[c] > Base(c),
         pump'.marks[c] \in {0, pump.marks[c], sub.withheld[c]},
         sub'.withheld[c] \in {0, sub.withheld[c]} \/ sub'.withheld[c] > Base(c),
         c \in sub'.gapped => c \in sub.gapped \/ ring'[c].seq > Base(c)
  PROVE  Fresh(c)'
<1>1. /\ ring[c].seq \in Nat /\ pump.marks[c] \in Nat /\ sub.withheld[c] \in Nat /\ held.heads[c] \in Nat
      /\ ring'[c].seq \in Nat
  BY ChannelTypes DEF TypeOK
<1>2. \A f \in Early(c)' \union Line(c)' : f.seq > Base(c)'
  <2>1. \A f \in Early(c) \union Line(c) : f.seq > Base(c)
    BY DEF Fresh
  <2> QED BY <2>1
<1>3. \A n \in {held'.heads[c], pump'.marks[c], sub'.withheld[c]} : n # 0 => n > Base(c)'
  BY DEF Fresh
<1>4. c \in sub'.gapped => ring'[c].seq > Base(c)'
  BY <1>1 DEF Fresh
<1> QED BY <1>2, <1>3, <1>4 DEF Fresh

\* Where the frames of a current connection begin.
LEMMA BaseFacts ==
  ASSUME TypeOK, Shape, Bounds, Current, NEW c \in Channels
  PROVE  /\ Base(c) \in Nat /\ Base(c) <= ring[c].seq
         /\ client.known => Base(c) = cursor[c].seq /\ client.launch = launch
         /\ ~client.known => Greets(wire) /\ wire[1].baseline[c] = Base(c)
<1>1. cursor[c].seq \in Nat /\ wire \in Seq(Downward)
  BY ChannelTypes, TypeFacts
<1>2. CASE client.known
  <2>1. Base(c) = cursor[c].seq /\ client.launch = launch
    BY <1>2 DEF Base, Current
  <2> QED BY <1>1, <1>2, <2>1 DEF Bounds, Reached
<1>3. CASE ~client.known
  <2>1. Greets(wire) /\ Base(c) = wire[1].baseline[c]
    BY <1>3 DEF Base, Current, Shape, Greeted
  <2>2. wire[1].baseline[c] \in Nat
    <3>1. wire # <<>> /\ wire[1].type = "hello"
      BY <2>1 DEF Greets
    <3>2. wire[1] \in Downward
      BY <1>1, <3>1, TailFacts
    <3>3. wire[1].baseline \in [Channels -> Nat]
      BY <3>1, <3>2, DownwardKinds
    <3> QED BY <3>3
  <2> QED BY <1>3, <2>1, <2>2 DEF Bounds, Reached
<1> QED BY <1>2, <1>3

\* A cursor that stays, or will be seeded as before.
LEMMA BaseStays ==
  ASSUME TypeOK, Shape, Bounds, Current, NEW c \in Channels, UNCHANGED cursor,
         client'.known = client.known, Greets(wire) => wire'[1] = wire[1]
  PROVE  Base(c)' = Base(c)
<1>1. ~client.known => Greets(wire)
  BY BaseFacts
<1> QED BY <1>1 DEF Base

\* What is accounted for stays so.
LEMMA KeepingStill ==
  ASSUME TypeOK, Keeping, client'.launch = launch' /\ ~client'.recover => client.launch = launch /\ ~client.recover,
         \A c \in Channels : cursor'[c].seq = cursor[c].seq,
         \A c \in Channels : got[c] \subseteq got'[c] /\ told'[c] \in Nat /\ told'[c] >= told[c]
                             /\ Declined(c) \subseteq Declined(c)'
  PROVE  Keeping'
<1> SUFFICES ASSUME client'.launch = launch', ~client'.recover
             PROVE  /\ \A c \in Deep : Kept(c)'
                    /\ \A c \in LatestOnly : LatestKept(c)'
  BY DEF Keeping
<1>1. /\ \A c \in Deep : Kept(c)
      /\ \A c \in LatestOnly : LatestKept(c)
  BY DEF Keeping
<1>2. \A c \in Channels : cursor[c].seq \in Nat /\ told[c] \in Nat
  BY ChannelTypes
<1>3. ASSUME NEW c \in Deep
      PROVE  Kept(c)'
  <2>1. c \in Channels
    BY DEF Deep
  <2> QED BY <1>1, <1>2, <2>1 DEF Kept
<1>4. ASSUME NEW c \in LatestOnly
      PROVE  LatestKept(c)'
  <2>1. c \in Channels
    BY ChannelsAssumption
  <2> QED BY <1>1, <1>2, <2>1 DEF LatestKept
<1> QED BY <1>3, <1>4

\* What is below a height is covered early, if all of the line is above it.
LEMMA PackedBelow ==
  ASSUME TypeOK, NEW c \in Channels, Covered(c), Base(c) \in Nat, NEW n \in Heights(c),
         \A g \in Line(c) : g.seq > n \/ (g.seq = n /\ ~Gappy(g))
  PROVE  \A s \in Base(c) + 1 .. n - 1 : s \in Excused(c) \/ \E g \in Early(c) : Cov(g, s)
<1> SUFFICES ASSUME NEW s \in Base(c) + 1 .. n - 1
             PROVE  s \in Excused(c) \/ \E g \in Early(c) : Cov(g, s)
  OBVIOUS
<1>1. \/ s \in Excused(c) \/ \E g \in Early(c) : Cov(g, s)
      \/ \E g \in Line(c) : Cov(g, s) /\ g.seq <= n
  BY DEF Covered, Whole, Covers
<1>2. n \in Nat /\ \A g \in Line(c) : g.seq \in Nat
  BY LineTypes
<1>3. ASSUME NEW g \in Line(c), Cov(g, s), g.seq <= n
      PROVE  FALSE
  BY <1>2, <1>3 DEF Cov
<1> QED BY <1>1, <1>3

\* The server's steps leave the client's view alone.  Frames go on in order.
Onward(c) ==
    /\ \A f \in Line(c)' : f \in Line(c) \/ (f.seq = pump.marks[c] /\ f.seq # 0 /\ ~Gappy(f))
    /\ \A g \in Line(c) : g \in Line(c)' \/ (g \in Early(c)' /\ \A h \in Line(c)' : g.seq <= h.seq)
    /\ Early(c) \subseteq Early(c)'
    /\ \A f \in Early(c)' : f \in Early(c) \/ f \in Line(c) \/ (f.seq = pump.marks[c] /\ f.seq # 0)
    /\ c \in Deep /\ Tracked => \A f \in Early(c)' : f \in Early(c) \/ Gappy(f)
          \/ \A s \in Base(c) + 1 .. f.seq - 1 : s \in Excused(c) \/ \E g \in Early(c)' : Cov(g, s)

\* The server's steps keep the invariant of delivery, if every channel goes onward.
LEMMA DeliveryServed ==
  ASSUME TypeInv, TypeInv', Shape, Bounds, Delivery,
         client'.open = client.open, client'.known = client.known, client'.launch = client.launch,
         client'.replaying = client.replaying, client'.recover = client.recover, client.watch => client'.watch,
         UNCHANGED <<launch, foreign, cursor, held, opens, got, told>>,
         sub'.gapped = sub.gapped, sub'.on = sub.on, Greets(wire) => wire'[1] = wire[1],
         Asks(up') = Asks(up) \/ (Asks(up') = {} /\ \A m \in Asks(up) : ~m.known),
         \A c \in Channels : ring'[c].seq = ring[c].seq,
         \A c \in Channels : pump'.marks[c] \in {0, pump.marks[c], sub.withheld[c]}
                             /\ sub'.withheld[c] \in {0, sub.withheld[c]},
         \A c \in Channels : Onward(c)
  PROVE  Delivery'
<1>0. TypeOK /\ TypeOK'
  BY DEF TypeInv
<1>d. \A c \in Deep : c \in Channels
  BY DEF Deep
<1>1. \A c : Declined(c) \subseteq Declined(c)'
  BY DEF Declined
<1>2. ASSUME NEW c \in Channels
      PROVE  Heights(c)' \subseteq Heights(c) \union {0}
  <2>1. \A f \in Line(c)' : f \in Line(c) \/ f.seq = pump.marks[c]
    BY DEF Onward
  <2> QED BY <2>1, HeightsFrom
<1>3. Behind'
  <2> SUFFICES ASSUME NEW c \in Deep PROVE NoneBehind(c)'
    BY DEF Behind
  <2>1. c \in Channels /\ NoneBehind(c)
    BY <1>d DEF Delivery, Behind
  <2>2. \A h \in Line(c)' : Gappy(h) => /\ h \in Line(c)
                                        /\ \A g \in Line(c) : g \in Line(c)' \/ g.seq <= h.seq
    BY <2>1 DEF Onward
  <2> QED BY <1>0, <1>1, <1>2, <2>1, <2>2, BehindFrom
<1>4. Current' <=> Current
  BY DEF Current
<1>5. ASSUME Current, NEW c \in Channels
      PROVE  Base(c)' = Base(c) /\ Base(c) \in Nat
  BY <1>0, <1>5, BaseFacts, BaseStays
<1>6. Tracking'
  <2> SUFFICES ASSUME Tracked', NEW c \in Deep PROVE Covered(c)'
    BY DEF Tracking
  <2>1. Tracked /\ Current
    BY <1>4 DEF Tracked
  <2>2. c \in Channels /\ Covered(c)
    BY <1>d, <2>1 DEF Delivery, Tracking
  <2>3. Base(c)' = Base(c) /\ Base(c) \in Nat
    BY <1>5, <2>1, <2>2
  <2>4. Excused(c) \subseteq Excused(c)'
    BY <1>1 DEF Excused
  <2>5. \A g \in Line(c) : g \in Line(c)' \/ g \in Early(c)' \/ g.seq <= Base(c)'
    BY <2>2 DEF Onward
  <2>6. \A g \in Early(c) : \/ g \in Early(c)' \/ g.seq <= Base(c)'
                            \/ \A s \in Nat : s <= g.seq => s \in Excused(c)'
    BY <2>2 DEF Onward
  <2>7. \A f \in Early(c)' : f \in Early(c) \/ Gappy(f)
             \/ \A s \in Base(c)' + 1 .. f.seq - 1 : s \in Excused(c)' \/ \E g \in Early(c)' : Cov(g, s)
    <3>1. \A f \in Early(c)' : f \in Early(c) \/ Gappy(f)
             \/ \A s \in Base(c) + 1 .. f.seq - 1 : s \in Excused(c) \/ \E g \in Early(c)' : Cov(g, s)
      BY <2>1, <2>2 DEF Onward
    <3> QED BY <2>3, <2>4, <3>1
  <2>8. Base(c) <= Base(c)' /\ Base(c)' \in Nat
    BY <2>3
  <2>9. \A s \in Excused(c) : s \in Excused(c)' \/ s <= Base(c)'
    BY <2>4
  <2> QED BY <1>0, <1>2, <2>2, <2>3, <2>5, <2>6, <2>7, <2>8, <2>9, CoveredFrom
<1>7. Freshness'
  <2>1. ASSUME Current', Buffering', NEW c \in Channels
        PROVE  Fresh(c)'
    <3>1. Current /\ Fresh(c)
      BY <1>4, <2>1 DEF Delivery, Freshness, Buffering
    <3>2. Base(c)' = Base(c) /\ Base(c) \in Nat
      BY <1>5, <3>1
    <3>3. pump.marks[c] # 0 => pump.marks[c] > Base(c)
      BY <3>1 DEF Fresh
    <3>4. \A f \in Early(c)' \union Line(c)' : f \in Early(c) \union Line(c) \/ f.seq > Base(c)
      <4>1. \A f \in Early(c)' \union Line(c)' :
               f \in Early(c) \union Line(c) \/ (f.seq = pump.marks[c] /\ f.seq # 0)
        BY DEF Onward
      <4> QED BY <3>3, <4>1
    <3>5. ring'[c].seq >= ring[c].seq
      BY <1>0, ChannelTypes
    <3> QED BY <1>0, <3>1, <3>2, <3>4, <3>5, FreshFrom
  <2>2. Current' => \A m \in Asks(up') : m.known => \A c \in Channels : m.from[c] = cursor'[c].seq
    BY <1>4 DEF Delivery, Freshness
  <2> QED BY <2>1, <2>2 DEF Freshness
<1>8. Keeping'
  <2>1. \A c \in Channels : told'[c] \in Nat /\ told'[c] >= told[c] /\ got[c] \subseteq got'[c]
    BY <1>0, ChannelTypes
  <2>2. Keeping
    BY DEF Delivery
  <2> QED BY <1>0, <1>1, <2>1, <2>2, KeepingStill
<1>9. Subscribed'
  BY DEF Delivery, Subscribed
<1> QED BY <1>3, <1>6, <1>7, <1>8, <1>9 DEF Delivery

\* Frames that stay go onward.
LEMMA OnwardStay ==
  ASSUME NEW c, Line(c)' = Line(c), Early(c)' = Early(c)
  PROVE  Onward(c)
BY DEF Onward

\* The queue's head goes on toward the wire.
LEMMA OnwardForward ==
  ASSUME TypeInv, Shape, Bounds, Order, Delivery, queue # <<>>, queue' = Tail(queue), Written(<<Head(queue)>>),
         UNCHANGED <<sending, held, opens, client>>, NEW c \in Channels
  PROVE  Onward(c)
<1>0. TypeOK
  BY DEF TypeInv
<1>t. queue \in Seq(Frames) /\ wire \in Seq(Downward) /\ Buffering \in BOOLEAN
  <2>1. Buffering \in BOOLEAN
    BY DEF Buffering
  <2> QED BY <1>0, <2>1, TypeFacts
<1>1. /\ queue[1] \in Frames /\ queue[1] \in Line(queue[1].channel)
      /\ ~Due => Line(c)' = Line(c) /\ Early(c)' = Early(c)
      /\ Due => /\ Line(c)' \subseteq Line(c)
                /\ Line(c) = Line(c)' \union (IF queue[1].channel = c THEN {queue[1]} ELSE {})
                /\ Early(c)' = Early(c) \union (IF queue[1].channel = c THEN {queue[1]} ELSE {})
  BY <1>0, FramesForwarded
<1>2. CASE ~Due \/ queue[1].channel # c
  <2>1. Line(c)' = Line(c) /\ Early(c)' = Early(c)
    BY <1>1, <1>2
  <2> QED BY <2>1, OnwardStay
<1>3. CASE Due /\ queue[1].channel = c
  <2> DEFINE f == queue[1]
  <2>1. /\ f \in Line(c) /\ Line(c)' \subseteq Line(c) /\ Line(c) = Line(c)' \union {f} /\ Early(c)' = Early(c) \union {f}
    BY <1>1, <1>3
  <2>2. \A h \in Line(c)' : f.seq < h.seq
    <3>1. Head(queue) = queue[1] /\ <<Head(queue)>> \in Seq(Frames) /\ Tail(queue) \in Seq(Frames)
      BY <1>t, HeadOfQueue
    <3>2. wire' \in Seq(Downward) /\ ~Ended(wire') /\ Buffering' = TRUE
      <4>1. Buffering = TRUE /\ ~Ended(wire) /\ Buffering' = Buffering
        BY <1>3 DEF Due, Buffering
      <4>2. wire' \in Seq(Downward)
        BY <1>t, <3>1, WrittenFacts
      <4>3. Ended(wire') <=> Ended(wire)
        BY <1>t, <3>1, WrittenShape
      <4> QED BY <4>1, <4>2, <4>3
    <3>3. Flying(wire', Buffering') = {}
      <4>1. Flying(wire', TRUE) = {}
        BY <3>2, NothingFlies
      <4> QED BY <3>2, <4>1
    <3>4. \A j \in DOMAIN Tail(queue) : Tail(queue)[j].channel = queue[1].channel => queue[1].seq < Tail(queue)[j].seq
      <4>1. Orderly(wire, Buffering, queue)
        BY DEF Order
      <4> QED BY <1>t, <4>1, OrderlyForward
    <3>5. \A h \in Line(c)' : h.channel = c /\ \E j \in DOMAIN Tail(queue) : h = Tail(queue)[j]
      BY <3>3 DEF Line, Range
    <3> QED BY <1>3, <3>4, <3>5
  <2>3. f.seq \in Nat /\ \A h \in Line(c) : h.seq \in Nat
    BY <1>0, <2>1, LineTypes
  <2>4. ASSUME c \in Deep, Tracked, ~Gappy(f)
        PROVE  \A s \in Base(c) + 1 .. f.seq - 1 : s \in Excused(c) \/ \E g \in Early(c)' : Cov(g, s)
    <3>1. Covered(c) /\ Base(c) \in Nat
      BY <1>0, <2>4, BaseFacts DEF Delivery, Tracking, Tracked
    <3>2. f.seq \in Heights(c)
      BY <2>1, <2>4 DEF Heights
    <3>3. \A g \in Line(c) : g.seq > f.seq \/ (g.seq = f.seq /\ ~Gappy(g))
      BY <2>1, <2>2, <2>3, <2>4
    <3> HIDE DEF f
    <3>4. \A s \in Base(c) + 1 .. f.seq - 1 : s \in Excused(c) \/ \E g \in Early(c) : Cov(g, s)
      BY <1>0, <3>1, <3>2, <3>3, PackedBelow
    <3> QED BY <2>1, <3>4
  <2> HIDE DEF f
  <2>5. \A h \in Line(c)' : f.seq <= h.seq
    BY <2>1, <2>2, <2>3
  <2> QED BY <2>1, <2>4, <2>5 DEF Onward
<1> QED BY <1>2, <1>3

\* Marks are written behind the frames they were counted with.
LEMMA OnwardMarks ==
  ASSUME TypeInv, Shape, Bounds, Order, Delivery, WriteMarks, NEW c \in Channels
  PROVE  Onward(c)
<1> DEFINE fs == SetToSeq(MarksToWrite)
           new == {f \in Range(fs) : f.channel = c}
<1>0. TypeOK
  BY DEF TypeInv
<1>t. queue \in Seq(Frames) /\ wire \in Seq(Downward) /\ pump \in PumpType
  BY <1>0, TypeFacts
<1>1. /\ Written(fs) /\ pump.pc = "drain" /\ pump.left = 0
      /\ UNCHANGED <<queue, sending, held, opens, client>>
  BY DEF WriteMarks, MarksToWrite
<1>2. fs \in Seq(Frames) /\ Range(fs) = MarksToWrite
  BY <1>t, MarksToWriteFacts
<1> HIDE DEF fs
<1>3. \A e : LET n == {f \in Range(fs) : f.channel = e}
             IN /\ Line(e)' = Line(e) \union (IF Due THEN {} ELSE n)
                /\ Early(e)' = ((Early(e) \ sending.frames[e])
                                     \union ({f \in Range(held.frames) \union Waiting(wire, Buffering) : f.channel = e})
                                     \union (IF Due THEN n ELSE {})) \union sending'.frames[e]
  BY <1>0, <1>1, <1>2, FramesWritten
<1>4. Line(c)' = Line(c) \union (IF Due THEN {} ELSE new) /\ Early(c)' = Early(c) \union (IF Due THEN new ELSE {})
  <2>1. /\ Line(c)' = Line(c) \union (IF Due THEN {} ELSE new)
        /\ Early(c)' = ((Early(c) \ sending.frames[c])
                             \union ({f \in Range(held.frames) \union Waiting(wire, Buffering) : f.channel = c})
                             \union (IF Due THEN new ELSE {})) \union sending.frames[c]
    BY <1>1, <1>3
  <2>2. Early(c) = {f \in Range(held.frames) \union Waiting(wire, Buffering) : f.channel = c} \union sending.frames[c]
    BY DEF Early
  <2> HIDE DEF new
  <2> QED BY <2>1, <2>2
<1>5. \A f \in new : f.seq = pump.marks[c] /\ f.seq # 0 /\ ~Gappy(f)
  BY <1>2 DEF MarksToWrite, Frame, Gappy
<1> HIDE DEF new
<1>6. CASE ~Due
  BY <1>4, <1>5, <1>6 DEF Onward
<1>7. CASE Due
  <2>1. ASSUME c \in Deep, Tracked, NEW f \in new
        PROVE  \A s \in Base(c) + 1 .. f.seq - 1 : s \in Excused(c) \/ \E g \in Early(c)' : Cov(g, s)
    <3>1. Covered(c) /\ Base(c) \in Nat
      BY <1>0, <2>1, BaseFacts DEF Delivery, Tracking, Tracked
    <3>2. f.seq = pump.marks[c] /\ f.seq \in Heights(c)
      BY <1>5, <2>1 DEF Heights
    <3>3. \A g \in Line(c) : g.seq > f.seq
      <4>1. Flying(wire, Buffering) = {}
        <5>1. Flying(wire, TRUE) = {} /\ Buffering = TRUE
          BY <1>t, <1>7, NothingFlies DEF Due, Buffering
        <5> QED BY <5>1
      <4>2. \A g \in Line(c) : g.channel = c /\ \E j \in DOMAIN queue : g = queue[j]
        BY <4>1 DEF Line, Range
      <4>3. \A j \in DOMAIN queue : j > 0
        BY <1>t, LenProperties
      <4>4. \A j \in DOMAIN queue : queue[j].seq > pump.marks[queue[j].channel]
        BY <1>1, <4>3 DEF Order, Watermark
      <4> QED BY <3>2, <4>2, <4>4
    <3>4. \A s \in Base(c) + 1 .. f.seq - 1 : s \in Excused(c) \/ \E g \in Early(c) : Cov(g, s)
      BY <1>0, <3>1, <3>2, <3>3, PackedBelow
    <3> QED BY <1>4, <3>4
  <2> QED BY <1>4, <1>5, <1>7, <2>1 DEF Onward
<1> QED BY <1>6, <1>7

\* A frame of a replay is written.
LEMMA OnwardReplay ==
  ASSUME TypeInv, Shape, NEW d \in Channels, WriteReplay(d), NEW c \in Channels
  PROVE  Onward(c)
<1>0. TypeOK
  BY DEF TypeInv
<1>t. sending \in SendingType
  BY <1>0, TypeFacts
<1>1. PICK f \in sending.frames[d] :
         /\ Written(<<f>>) /\ sending' = [sending EXCEPT !.frames[d] = @ \ {f}]
  BY DEF WriteReplay
<1> DEFINE fs == <<f>>
<1>2. UNCHANGED <<queue, client, held, opens>>
  BY DEF WriteReplay
<1>3. f \in Frames /\ f.channel = d
  BY <1>t DEF SendingType, Shape, Window
<1>4. fs \in Seq(Frames) /\ Range(fs) = {f} /\ Written(fs)
  BY <1>1, <1>3 DEF Range
<1> HIDE DEF fs
<1>5. Due
  <2>1. opens > 1
    <3>1. opens \in Nat /\ (opens <= 1 => sending.frames[d] = {})
      BY <1>0, TypeFacts DEF Shape, Window
    <3> QED BY <1>1, <3>1
  <2>2. sending.busy
    <3>1. sending.busy \/ sending = NoReplay
      BY DEF Shape, Window
    <3> QED BY <1>1, <3>1 DEF NoReplay
  <2> QED BY <2>1, <2>2 DEF Shape, Window, Due, Buffering
<1>6. \A e : LET n == {g \in Range(fs) : g.channel = e}
             IN /\ Line(e)' = Line(e) \union (IF Due THEN {} ELSE n)
                /\ Early(e)' = ((Early(e) \ sending.frames[e])
                                     \union ({g \in Range(held.frames) \union Waiting(wire, Buffering) : g.channel = e})
                                     \union (IF Due THEN n ELSE {})) \union sending'.frames[e]
  BY <1>0, <1>2, <1>4, FramesWritten
<1> DEFINE new == {g \in Range(fs) : g.channel = c}
           rest == {g \in Range(held.frames) \union Waiting(wire, Buffering) : g.channel = c}
<1>7. Line(c)' = Line(c) /\ Early(c)' = ((Early(c) \ sending.frames[c]) \union rest \union new) \union sending'.frames[c]
  BY <1>5, <1>6
<1>8. Early(c) = rest \union sending.frames[c]
  BY DEF Early
<1>9. (c = d => new = {f} /\ sending'.frames[c] = sending.frames[c] \ {f})
      /\ (c # d => new = {} /\ sending'.frames[c] = sending.frames[c])
  BY <1>t, <1>1, <1>3, <1>4 DEF SendingType
<1> HIDE DEF new, rest
<1>10. Early(c)' = Early(c)
  BY <1>1, <1>7, <1>8, <1>9
<1> QED BY <1>7, <1>10, OnwardStay

\* Most of the server's steps do not even touch the client's requests.
LEMMA DeliveryUnseen ==
  ASSUME TypeInv, TypeInv', Shape, Bounds, Delivery,
         UNCHANGED <<launch, ring, foreign, up, client, cursor, held, opens, got, told>>,
         sub'.gapped = sub.gapped, sub'.on = sub.on, Greets(wire) => wire'[1] = wire[1],
         \A c \in Channels : pump'.marks[c] \in {0, pump.marks[c], sub.withheld[c]}
                             /\ sub'.withheld[c] \in {0, sub.withheld[c]},
         \A c \in Channels : Onward(c)
  PROVE  Delivery'
<1>1. \A c \in Channels : ring'[c].seq = ring[c].seq
  OBVIOUS
<1>2. Asks(up') = Asks(up)
  OBVIOUS
<1>3. /\ client'.open = client.open /\ client'.known = client.known /\ client'.launch = client.launch
      /\ client'.replaying = client.replaying /\ client'.recover = client.recover /\ (client.watch => client'.watch)
  OBVIOUS
<1> QED BY <1>1, <1>2, <1>3, DeliveryServed

\* The pump forwards the queue's head.
LEMMA DeliveryForward ==
  ASSUME TypeInv, TypeInv', Shape, Bounds, Order, Delivery,
         queue # <<>>, queue' = Tail(queue), Written(<<Head(queue)>>),
         UNCHANGED <<server, sub, sending, up, client, cursor, held, opens, history>>, pump'.marks = pump.marks
  PROVE  Delivery'
<1>1. \A c \in Channels : Onward(c)
  BY OnwardForward
<1>2. Greets(wire) => wire'[1] = wire[1]
  <2>1. queue \in Seq(Frames) /\ wire \in Seq(Downward)
    BY TypeFacts DEF TypeInv
  <2>2. <<Head(queue)>> \in Seq(Frames)
    BY <2>1, HeadOfQueue
  <2> QED BY <2>1, <2>2, WrittenShape
<1>3. UNCHANGED <<launch, ring, foreign, got, told>>
  BY DEF server, history
<1>4. \A c \in Channels : pump'.marks[c] \in {0, pump.marks[c], sub.withheld[c]}
                             /\ sub'.withheld[c] \in {0, sub.withheld[c]}
  OBVIOUS
<1>5. sub'.gapped = sub.gapped /\ sub'.on = sub.on
  OBVIOUS
<1> QED BY <1>1, <1>2, <1>3, <1>4, <1>5, DeliveryUnseen

\* The pump's actions keep the invariant of delivery.
LEMMA DeliveryPump ==
  ASSUME TypeInv, TypeInv', Shape, Bounds, Order, Delivery, PumpNext
  PROVE  Delivery'
<1>0. TypeOK
  BY DEF TypeInv
<1>t. queue \in Seq(Frames) /\ wire \in Seq(Downward) /\ pump \in PumpType /\ sub \in SubType
  BY <1>0, TypeFacts
<1>1. CASE PumpEvent
  <2>1. /\ queue # <<>> /\ queue' = Tail(queue) /\ Written(<<Head(queue)>>)
        /\ UNCHANGED <<server, sub, pump, sending, up, client, cursor, held, opens, history>>
    BY <1>1 DEF PumpEvent
  <2> QED BY <2>1, DeliveryForward
<1>2. CASE TakeWithheld
  <2>1. /\ pump'.marks = sub.withheld /\ sub'.withheld = NoSubscriber.withheld
        /\ sub'.gapped = sub.gapped /\ sub'.on = sub.on
        /\ UNCHANGED <<server, queue, sending, up, wire, client, cursor, held, opens, history>>
    BY <1>2, <1>t DEF TakeWithheld, SubType
  <2>2. \A c : Line(c)' = Line(c) /\ Early(c)' = Early(c)
    BY <2>1, FramesStay
  <2>3. \A c \in Channels : Onward(c)
    BY <2>2, OnwardStay
  <2>4. \A c \in Channels : sub'.withheld[c] = 0
    BY <2>1, BlankFields
  <2> QED BY <2>1, <2>3, <2>4, DeliveryUnseen DEF server, history
<1>3. CASE CountQueue
  <2>1. /\ pump'.marks = pump.marks
        /\ UNCHANGED <<server, sub, queue, sending, up, wire, client, cursor, held, opens, history>>
    BY <1>3, <1>t DEF CountQueue, PumpType
  <2>2. \A c : Line(c)' = Line(c) /\ Early(c)' = Early(c)
    BY <2>1, FramesStay
  <2>3. \A c \in Channels : Onward(c)
    BY <2>2, OnwardStay
  <2> QED BY <2>1, <2>3, DeliveryUnseen DEF server, history
<1>4. CASE DrainEvent
  <2>1. /\ pump.pc = "drain" /\ pump.left > 0 /\ queue' = Tail(queue) /\ Written(<<Head(queue)>>)
        /\ UNCHANGED <<server, sub, sending, up, client, cursor, held, opens, history>>
        /\ pump'.marks = pump.marks
    BY <1>4, <1>t DEF DrainEvent, PumpType
  <2>2. queue # <<>>
    <3>1. pump.left <= Len(queue)
      BY <2>1 DEF TypeInv
    <3>2. queue = <<>> => Len(queue) = 0
      OBVIOUS
    <3>3. pump.left \in Nat
      BY <1>t, CapsAssumption DEF PumpType
    <3> QED BY <2>1, <3>1, <3>2, <3>3
  <2> QED BY <2>1, <2>2, DeliveryForward
<1>5. CASE WriteMarks
  <2> DEFINE fs == SetToSeq(MarksToWrite)
  <2>1. /\ Written(fs) /\ pump' = IdlePump
        /\ UNCHANGED <<server, sub, queue, sending, up, client, cursor, held, opens, history>>
    BY <1>5 DEF WriteMarks, MarksToWrite
  <2>2. fs \in Seq(Frames)
    BY <1>t, MarksToWriteFacts
  <2> HIDE DEF fs
  <2>3. \A c \in Channels : Onward(c)
    BY <1>5, OnwardMarks
  <2>4. Greets(wire) => wire'[1] = wire[1]
    BY <1>t, <2>1, <2>2, WrittenShape
  <2>5. \A c \in Channels : pump'.marks[c] = 0
    BY <2>1, BlankFields
  <2> QED BY <2>1, <2>3, <2>4, <2>5, DeliveryUnseen DEF server, history
<1> QED BY <1>1, <1>2, <1>3, <1>4, <1>5 DEF PumpNext

\* The read loop takes a watch frame, or writes the replay.
LEMMA DeliveryLoop ==
  ASSUME TypeInv, TypeInv', Shape, Bounds, Order, Delivery,
         ReadWatch \/ WriteDone \/ \E d \in Channels : WriteReplay(d)
  PROVE  Delivery'
<1>0. TypeOK
  BY DEF TypeInv
<1>t. wire \in Seq(Downward) /\ sub \in SubType /\ up \in Seq(Upward) /\ sending \in SendingType /\ Buffering \in BOOLEAN
  <2>1. Buffering \in BOOLEAN
    BY DEF Buffering
  <2> QED BY <1>0, <2>1, TypeFacts
<1>1. CASE ReadWatch
  <2>1. /\ up # <<>> /\ Head(up).type = "watch" /\ up' = Tail(up)
        /\ sub'.withheld = sub.withheld /\ sub'.gapped = sub.gapped /\ sub'.on = sub.on
        /\ UNCHANGED <<server, pump, queue, sending, wire, client, cursor, held, opens, history>>
    BY <1>1, <1>t DEF ReadWatch, SubType
  <2>2. \A c : Line(c)' = Line(c) /\ Early(c)' = Early(c)
    BY <2>1, FramesStay
  <2>3. \A c \in Channels : Onward(c)
    BY <2>2, OnwardStay
  <2>4. Asks(up') = Asks(up)
    <3>1. Head(up) = up[1]
      BY <1>t, <2>1, TailFacts
    <3>2. Once(up)
      BY DEF Shape, Window
    <3> QED BY <1>t, <2>1, <3>1, <3>2, RequestTail
  <2>5. UNCHANGED <<launch, ring, foreign, got, told>>
    BY <2>1 DEF server, history
  <2>6. /\ client'.open = client.open /\ client'.known = client.known /\ client'.launch = client.launch
        /\ client'.replaying = client.replaying /\ client'.recover = client.recover /\ (client.watch => client'.watch)
    BY <2>1
  <2> QED BY <2>1, <2>3, <2>4, <2>5, <2>6, DeliveryServed
<1>2. CASE WriteDone
  <2>1. /\ wire' = Append(wire, Marker) /\ sending' = NoReplay /\ \A c \in Channels : sending.frames[c] = {}
        /\ UNCHANGED <<server, sub, pump, queue, up, client, cursor, held, opens, history>>
    BY <1>2 DEF WriteDone, Marker
  <2>2. \A c \in Channels : sending'.frames[c] = sending.frames[c]
    BY <2>1 DEF NoReplay
  <2>3. \A c \in Channels : Line(c)' = Line(c) /\ Early(c)' = Early(c)
    BY <1>0, <2>1, <2>2, FramesMarked
  <2>4. \A c \in Channels : Onward(c)
    BY <2>3, OnwardStay
  <2>5. Greets(wire) => wire'[1] = wire[1]
    <3>1. wire # <<>> => Greets(wire') = Greets(wire) /\ wire'[1] = wire[1]
      BY <1>t, <2>1, MarkerJoin
    <3> QED BY <3>1 DEF Greets
  <2> QED BY <2>1, <2>4, <2>5, DeliveryUnseen DEF server, history
<1>3. ASSUME NEW d \in Channels, WriteReplay(d)
      PROVE  Delivery'
  <2>1. PICK f \in sending.frames[d] : Written(<<f>>)
    BY <1>3 DEF WriteReplay
  <2>2. UNCHANGED <<server, sub, pump, queue, up, client, cursor, held, opens, history>>
    BY <1>3 DEF WriteReplay
  <2>3. <<f>> \in Seq(Frames)
    BY <1>t DEF SendingType
  <2>4. Greets(wire) => wire'[1] = wire[1]
    BY <1>t, <2>1, <2>3, WrittenShape
  <2>5. \A c \in Channels : Onward(c)
    BY <1>3, OnwardReplay
  <2> QED BY <2>2, <2>4, <2>5, DeliveryUnseen DEF server, history
<1> QED BY <1>1, <1>2, <1>3

\* A ring lets go of a frame, the client states a watch set, or nothing happens.
LEMMA DeliveryAside ==
  ASSUME TypeInv, TypeInv', Shape, Bounds, Delivery, Watch \/ UNCHANGED vars \/ \E d \in Channels : Release(d)
  PROVE  Delivery'
<1>0. TypeOK
  BY DEF TypeInv
<1>t. client \in ClientType /\ ring \in RingType /\ up \in Seq(Upward)
  BY <1>0, TypeFacts
<1>1. ASSUME UNCHANGED <<launch, foreign, sub, pump, queue, sending, wire, cursor, held, opens, got, told>>,
             client'.open = client.open, client'.known = client.known, client'.launch = client.launch,
             client'.replaying = client.replaying, client'.recover = client.recover, client.watch => client'.watch,
             Asks(up') = Asks(up), \A c \in Channels : ring'[c].seq = ring[c].seq
      PROVE  Delivery'
  <2>1. \A c : Line(c)' = Line(c) /\ Early(c)' = Early(c)
    BY <1>1, FramesStay
  <2>2. \A c \in Channels : Onward(c)
    BY <2>1, OnwardStay
  <2>3. /\ sub'.gapped = sub.gapped /\ sub'.on = sub.on
        /\ \A c \in Channels : pump'.marks[c] \in {0, pump.marks[c], sub.withheld[c]}
                             /\ sub'.withheld[c] \in {0, sub.withheld[c]}
        /\ Greets(wire) => wire'[1] = wire[1]
    BY <1>1
  <2> QED BY <1>1, <2>2, <2>3, DeliveryServed
<1>2. CASE Watch
  <2>1. /\ client'.open = client.open /\ client'.known = client.known /\ client'.launch = client.launch
        /\ client'.replaying = client.replaying /\ client'.recover = client.recover /\ client'.watch
        /\ up' = (IF client.open THEN Append(up, [type |-> "watch"]) ELSE up)
        /\ UNCHANGED <<launch, ring, foreign, sub, pump, queue, sending, wire, cursor, held, opens, got, told>>
    BY <1>2, <1>t DEF Watch, ClientType, server, connection, history
  <2>2. Asks(up') = Asks(up)
    <3> DEFINE m == [type |-> "watch"]
    <3>1. m \in Upward /\ m.type = "watch"
      BY DEF Upward
    <3>2. Once(up)
      BY DEF Shape, Window
    <3> HIDE DEF m
    <3>3. Asks(Append(up, m)) = Asks(up)
      BY <1>t, <3>1, <3>2, RequestAppend
    <3> QED BY <2>1, <3>3 DEF m
  <2> QED BY <1>1, <2>1, <2>2
<1>3. CASE UNCHANGED vars
  <2>1. UNCHANGED <<launch, ring, foreign, sub, pump, queue, sending, up, wire, client, cursor, held, opens, got, told>>
    BY <1>3 DEF vars, server, connection, history
  <2> QED BY <1>1, <2>1
<1>4. ASSUME NEW d \in Channels, Release(d)
      PROVE  Delivery'
  <2>1. /\ ring' = [ring EXCEPT ![d].oldest = @ + 1]
        /\ UNCHANGED <<launch, foreign, sub, pump, queue, sending, up, wire, client, cursor, held, opens, got, told>>
    BY <1>4 DEF Release, connection, history
  <2>2. \A c \in Channels : ring'[c].seq = ring[c].seq
    BY <1>t, <2>1 DEF RingType
  <2> QED BY <1>1, <2>1, <2>2
<1> QED BY <1>2, <1>3, <1>4

\* The read loop takes a replay's request: what is to be sent of a channel covers
\* what the client has missed, up to the channel's head.
LEMMA DeliveryReplay ==
  ASSUME TypeInv, TypeInv', Shape, Bounds, Order, Delivery, ReadReplay
  PROVE  Delivery'
<1> DEFINE m == up[1]
<1>0. TypeOK /\ TypeOK'
  BY DEF TypeInv
<1>t. up \in Seq(Upward) /\ sub \in SubType /\ client \in ClientType
  BY <1>0, TypeFacts
<1>1. /\ up # <<>> /\ Head(up).type = "replay" /\ up' = Tail(up) /\ ~sending.busy
      /\ \A c \in Channels : sending'.frames[c] = IF Head(up).known THEN Filtered(c, Head(up).from[c]) ELSE {}
      /\ UNCHANGED <<server, sub, pump, queue, wire, client, cursor, held, opens, history>>
  BY DEF ReadReplay
<1>2. m = Head(up) /\ m \in Upward /\ m.known \in BOOLEAN /\ m.from \in [Channels -> Nat]
  BY <1>t, <1>1, TailFacts, UpwardKinds
<1>3. Asks(up) = {m} /\ Asks(up') = {}
  <2>1. Once(up)
    BY DEF Shape, Window
  <2> QED BY <1>t, <1>1, <1>2, <2>1, RequestTail
<1>4. sending = NoReplay /\ client.replaying /\ (m.known => client.known /\ opens > 1)
  BY <1>1, <1>3 DEF Shape, Window
<1> HIDE DEF m
<1>5. \A c \in Channels : Line(c)' = Line(c) /\ Early(c)' = Early(c) \union sending'.frames[c] /\ sending.frames[c] = {}
  <2>1. Buffering' = Buffering
    BY <1>1 DEF Buffering
  <2>2. \A c \in Channels : sending.frames[c] = {}
    BY <1>4 DEF NoReplay
  <2> QED BY <1>1, <2>1, <2>2 DEF Line, Early
<1>6. UNCHANGED <<launch, ring, foreign, got, told>>
  BY <1>1 DEF server, history
<1>7. CASE ~m.known
  <2>1. \A c \in Channels : Line(c)' = Line(c) /\ Early(c)' = Early(c)
    BY <1>1, <1>2, <1>5, <1>7
  <2>2. \A c \in Channels : Onward(c)
    BY <2>1, OnwardStay
  <2>3. Asks(up') = {} /\ \A r \in Asks(up) : ~r.known
    BY <1>3, <1>7
  <2>4. /\ client'.open = client.open /\ client'.known = client.known /\ client'.launch = client.launch
        /\ client'.replaying = client.replaying /\ client'.recover = client.recover /\ (client.watch => client'.watch)
        /\ sub'.gapped = sub.gapped /\ sub'.on = sub.on
        /\ \A c \in Channels : ring'[c].seq = ring[c].seq
        /\ \A c \in Channels : pump'.marks[c] \in {0, pump.marks[c], sub.withheld[c]}
                             /\ sub'.withheld[c] \in {0, sub.withheld[c]}
        /\ Greets(wire) => wire'[1] = wire[1]
    BY <1>1, <1>6
  <2> QED BY <1>1, <1>6, <2>2, <2>3, <2>4, DeliveryServed
<1>8. CASE m.known
  <2>d. \A c \in Deep : c \in Channels /\ c \notin LatestOnly
    BY DEF Deep
  <2>1. ASSUME NEW c \in Channels
        PROVE  Line(c)' = Line(c) /\ Early(c)' = Early(c) \union Filtered(c, m.from[c])
    BY <1>1, <1>2, <1>5, <1>8
  <2>2. \A c : Declined(c)' = Declined(c) /\ Excused(c)' = Excused(c)
    <3>1. UNCHANGED <<foreign, client, told, held>>
      BY <1>1, <1>6
    <3> QED BY <3>1 DEF Declined, Excused
  <2>3. ASSUME NEW c \in Channels
        PROVE  Heights(c)' = Heights(c)
    BY <1>1, <2>1 DEF Heights
  <2>4. Behind'
    <3> SUFFICES ASSUME NEW c \in Deep PROVE NoneBehind(c)'
      BY DEF Behind
    <3>1. c \in Channels /\ NoneBehind(c)
      BY <2>d DEF Delivery, Behind
    <3>2. ring'[c].seq = ring[c].seq /\ (c \in sub.gapped => c \in sub'.gapped)
      BY <1>1, <1>6
    <3>3. \A h \in Line(c)' : Gappy(h) => /\ h \in Line(c)
                                          /\ \A g \in Line(c) : g \in Line(c)' \/ g.seq <= h.seq
      BY <2>1, <3>1
    <3>4. Heights(c)' \subseteq Heights(c) \union {0} /\ Declined(c) \subseteq Declined(c)'
      BY <2>2, <2>3, <3>1
    <3> QED BY <1>0, <3>1, <3>2, <3>3, <3>4, BehindFrom
  <2>5. Current' <=> Current
    BY <1>1, <1>6 DEF Current
  <2>6. ASSUME Current, NEW c \in Channels
        PROVE  /\ Base(c)' = Base(c) /\ Base(c) \in Nat /\ Base(c) <= ring[c].seq
               /\ m.from[c] = Base(c)
    <3>1. /\ Base(c) \in Nat /\ Base(c) <= ring[c].seq /\ client.known
          /\ Base(c) = cursor[c].seq
      BY <1>0, <1>4, <1>8, <2>6, BaseFacts
    <3>2. Base(c)' = Base(c)
      BY <1>1, <3>1 DEF Base
    <3>3. m.from[c] = cursor[c].seq
      BY <1>3, <1>8, <2>6 DEF Delivery, Freshness
    <3> QED BY <3>1, <3>2, <3>3
  <2>7. ASSUME Current, NEW c \in Channels
        PROVE  /\ \A f \in Filtered(c, Base(c)) : f.seq \in Nat /\ f.seq <= ring[c].seq /\ f.seq > Base(c)
               /\ c \notin LatestOnly => \A s \in Base(c) + 1 .. ring[c].seq :
                     (sub.armed /\ s \in foreign[c]) \/ \E g \in Filtered(c, Base(c)) : Cov(g, s)
    <3>1. Base(c) \in Nat /\ Base(c) <= ring[c].seq
      BY <2>6, <2>7
    <3> DEFINE b == Base(c)
    <3> HIDE DEF b
    <3>2. b \in Nat /\ b <= ring[c].seq
      BY <3>1 DEF b
    <3>3. /\ Filtered(c, b) \subseteq Frames
          /\ \A f \in Filtered(c, b) :
               /\ f.channel = c /\ f.seq <= ring[c].seq
               /\ f.kind = "mark" => sub.armed /\ f.seq \in foreign[c]
               /\ b <= ring[c].seq => f.seq > b
          /\ c \notin LatestOnly /\ b <= ring[c].seq =>
               \A s \in b + 1 .. ring[c].seq :
                  \/ sub.armed /\ s \in foreign[c]
                  \/ \E g \in Filtered(c, b) : g.seq = s \/ (Gappy(g) /\ g.seq > s)
      BY <1>0, <3>2, FilteredFacts
    <3>4. \A f \in Filtered(c, b) : f.seq \in Nat
      BY <3>3 DEF Frames
    <3> QED BY <3>2, <3>3, <3>4 DEF b, Cov
  <2>8. Tracking'
    <3> SUFFICES ASSUME Tracked', NEW c \in Deep PROVE Covered(c)'
      BY DEF Tracking
    <3>1. Current /\ c \in Channels /\ c \notin LatestOnly
      BY <2>5, <2>d DEF Tracked
    <3>2. Early(c)' = Early(c) \union Filtered(c, Base(c))
      BY <2>1, <2>6, <3>1
    <3>3. \A s \in Base(c) + 1 .. ring[c].seq : s \in Excused(c)' \/ \E g \in Early(c)' : Cov(g, s)
      <4>1. sub.armed => client.watch
        BY DEF Shape, Pumping
      <4>2. \A s : sub.armed /\ s \in foreign[c] => s \in Excused(c)'
        BY <2>2, <4>1 DEF Excused, Declined
      <4> QED BY <2>7, <3>1, <3>2, <4>2
    <3>4. \A f \in Early(c)' : f.seq \in Nat /\ f.seq <= ring[c].seq
      <4>1. \A f \in Early(c) : f.seq \in Nat /\ f.seq <= ring[c].seq
        BY <1>0, <3>1, LineTypes
      <4> QED BY <2>7, <3>1, <3>2, <4>1
    <3>5. \A n \in Heights(c) : n \in Nat /\ n <= ring[c].seq
      BY <1>0, <3>1, LineTypes
    <3>6. ring[c].seq \in Nat /\ Base(c) \in Nat /\ Base(c)' = Base(c)
      BY <1>0, <2>6, <3>1, LineTypes
    <3>7. /\ Covers(c, sub'.gapped, Line(c)', Heights(c), ring[c].seq, Base(c), Early(c)', Excused(c)')
          /\ Packed(Base(c), Early(c)', Excused(c)')
      BY <3>3, <3>4, <3>5, <3>6, CoversAll
    <3>8. Heights(c)' = Heights(c) /\ ring' = ring
      BY <1>6, <2>3, <3>1
    <3> QED BY <3>6, <3>7, <3>8 DEF Covered, Whole
  <2>9. Freshness'
    <3>1. ASSUME Current', Buffering', NEW c \in Channels
          PROVE  Fresh(c)'
      <4>1. Current /\ Fresh(c)
        BY <1>1, <2>5, <3>1 DEF Delivery, Freshness, Buffering
      <4>2. Base(c)' = Base(c) /\ Base(c) \in Nat
        BY <2>6, <4>1
      <4>3. \A f \in Early(c)' \union Line(c)' : f \in Early(c) \union Line(c) \/ f.seq > Base(c)
        <5>1. Line(c)' = Line(c) /\ Early(c)' = Early(c) \union Filtered(c, Base(c))
          BY <2>1, <2>6, <4>1
        <5>2. \A f \in Filtered(c, Base(c)) : f.seq > Base(c)
          BY <2>7, <4>1
        <5> QED BY <5>1, <5>2
      <4>4. /\ ring' = ring /\ held' = held /\ pump' = pump /\ sub' = sub /\ ring[c].seq \in Nat
        BY <1>0, <1>1, <1>6, ChannelTypes
      <4>5. ring'[c].seq >= ring[c].seq
        BY <4>4
      <4> QED BY <1>0, <4>1, <4>2, <4>3, <4>4, <4>5, FreshFrom
    <3> QED BY <1>3, <3>1 DEF Freshness
  <2>10. Keeping'
    <3>1. \A c \in Channels : told'[c] \in Nat /\ told'[c] >= told[c] /\ got[c] \subseteq got'[c]
                              /\ Declined(c) \subseteq Declined(c)'
      BY <1>0, <1>6, <2>2, ChannelTypes
    <3>2. Keeping
      BY DEF Delivery
    <3>3. UNCHANGED <<launch, client, cursor>>
      BY <1>1, <1>6
    <3> QED BY <1>0, <3>1, <3>2, <3>3, KeepingStill
  <2>11. Subscribed'
    BY <1>1 DEF Delivery, Subscribed
  <2> QED BY <2>4, <2>8, <2>9, <2>10, <2>11 DEF Delivery
<1> QED BY <1>2, <1>7, <1>8

\* What an emission does to a channel that has a subscriber.
Untouched(c) ==
    /\ Line(c)' = Line(c) /\ ring'[c].seq = ring[c].seq
    /\ c \in sub'.gapped <=> c \in sub.gapped
    /\ sub'.withheld[c] = sub.withheld[c]

\* ... its loss is announced ...
Announced(c) ==
    /\ Line(c)' = Line(c) \union {Frame(c, "gap", ring[c].seq)} /\ ring'[c].seq = ring[c].seq
    /\ c \in sub.gapped /\ c \notin sub'.gapped
    /\ sub'.withheld[c] = sub.withheld[c]

\* ... its new frame is withheld ...
Withheld(c) ==
    /\ Line(c)' = Line(c) /\ ring'[c].seq = ring[c].seq + 1 /\ ring'[c].seq \in Declined(c)'
    /\ c \in sub'.gapped <=> c \in sub.gapped
    /\ sub'.withheld[c] = IF c \in sub.gapped THEN sub.withheld[c] ELSE ring'[c].seq

\* ... its new frame is queued, and announces a loss if there was one ...
Queued(c) ==
    /\ Line(c)' = Line(c) \union {Frame(c, Kind(c), ring'[c].seq)} /\ ring'[c].seq = ring[c].seq + 1
    /\ c \notin sub'.gapped /\ sub'.withheld[c] = 0

\* ... or its new frame is lost.
Lost(c) ==
    /\ Line(c)' = Line(c) /\ ring'[c].seq = ring[c].seq + 1
    /\ c \in Deep => c \in sub'.gapped
    /\ sub'.withheld[c] = 0

\* An emission does one of these to every channel.
LEMMA EmitEffects ==
  ASSUME TypeInv, Shape, NEW d \in Channels, NEW away \in BOOLEAN, Emit(d, away), sub.on, NEW c \in Channels
  PROVE  Early(c)' = Early(c) /\ (Untouched(c) \/ Announced(c) \/ Withheld(c) \/ Queued(c) \/ Lost(c))
<1> DEFINE n == ring[d].seq + 1
<1>0. TypeOK
  BY DEF TypeInv
<1>t. sub \in SubType
  BY <1>0, TypeFacts
<1>1. /\ ring'[d].seq = n
      /\ \A e \in Channels : e # d => ring'[e] = ring[e] /\ foreign'[e] = foreign[e]
      /\ foreign'[d] = foreign[d] \union (IF away THEN {n} ELSE {})
      /\ \/ sub.armed /\ away /\ NoteWithheld(d, n) /\ UNCHANGED queue
         \/ Enqueue(d, n)
      /\ n \in Nat
      /\ UNCHANGED <<launch, pump, sending, up, wire, client, cursor, held, opens>>
  BY <1>0, EmitFacts
<1> HIDE DEF n
<1>2. CASE sub.armed /\ away /\ NoteWithheld(d, n) /\ UNCHANGED queue
  <2>1. Line(c)' = Line(c) /\ Early(c)' = Early(c)
    BY <1>1, <1>2, FramesStay
  <2>2. /\ sub'.gapped = sub.gapped
        /\ sub'.withheld[c] = IF c = d /\ d \notin sub.gapped THEN n ELSE sub.withheld[c]
    BY <1>t, <1>2 DEF NoteWithheld, SubType
  <2>3. CASE c # d
    BY <1>1, <2>1, <2>2, <2>3 DEF Untouched
  <2>4. CASE c = d
    <3>1. n \in Declined(d)'
      <4>1. client'.watch
        BY <1>1, <1>2 DEF Shape, Pumping
      <4> QED BY <1>1, <1>2, <4>1 DEF Declined
    <3>2. sub'.withheld[c] = IF c \in sub.gapped THEN sub.withheld[c] ELSE ring'[c].seq
      BY <1>1, <2>2, <2>4
    <3> QED BY <1>1, <2>1, <2>2, <2>4, <3>1, <3>2 DEF Withheld, n
  <2> QED BY <2>1, <2>3, <2>4
<1>3. CASE Enqueue(d, n)
  <2>0. TypeOK /\ d \in Channels /\ n \in Nat /\ Enqueue(d, n)
    BY <1>0, <1>1, <1>3
  <2>1. PICK flushed \in SUBSET (sub.gapped \ {d}), fits \in BOOLEAN, fs \in Seq(Frames) :
          /\ queue' = queue \o fs
          /\ Range(fs) = Markers(flushed) \union (IF fits THEN {Frame(d, Kind(d), n)} ELSE {})
          /\ Len(queue) + Len(fs) <= QueueCap
          /\ sub' = [sub EXCEPT !.gapped = (sub.gapped \ (flushed \union {d}))
                                           \union (IF fits THEN {} ELSE Dropped(d)),
                                !.withheld = ClearWithheld(d)]
          /\ \A i, j \in DOMAIN fs : i < j => fs[i].channel # fs[j].channel
    BY <2>0, EnqueueFacts
  <2>2. Line(c)' = Line(c) \union {f \in Range(fs) : f.channel = c} /\ Early(c)' = Early(c)
    BY <1>0, <1>1, <2>1, FramesEnqueued
  <2>3. /\ sub'.gapped = (sub.gapped \ (flushed \union {d})) \union (IF fits THEN {} ELSE Dropped(d))
        /\ sub'.withheld[c] = IF c = d THEN 0 ELSE sub.withheld[c]
    BY <1>t, <2>1 DEF SubType, ClearWithheld
  <2>4. Dropped(d) \subseteq {d} /\ (d \in Deep => d \in Dropped(d))
    BY DEF Dropped, Deep
  <2>5. \A e, k, s : Frame(e, k, s).channel = e
    BY DEF Frame
  <2>6. CASE c # d /\ c \notin flushed
    <3>1. {f \in Range(fs) : f.channel = c} = {}
      BY <2>1, <2>5, <2>6 DEF Markers
    <3>2. c \in sub'.gapped <=> c \in sub.gapped
      BY <2>3, <2>4, <2>6
    <3> QED BY <1>1, <2>2, <2>3, <2>6, <3>1, <3>2 DEF Untouched
  <2>7. CASE c # d /\ c \in flushed
    <3>1. {f \in Range(fs) : f.channel = c} = {Frame(c, "gap", ring[c].seq)}
      BY <2>1, <2>5, <2>7 DEF Markers
    <3>2. c \in sub.gapped /\ c \notin sub'.gapped
      BY <2>3, <2>4, <2>7
    <3> QED BY <1>1, <2>2, <2>3, <2>7, <3>1, <3>2 DEF Announced
  <2>8. CASE c = d /\ fits
    <3>1. {f \in Range(fs) : f.channel = c} = {Frame(c, Kind(c), n)}
      BY <2>1, <2>5, <2>8 DEF Markers
    <3>2. c \notin sub'.gapped /\ sub'.withheld[c] = 0
      BY <2>3, <2>8
    <3> QED BY <1>1, <2>2, <2>8, <3>1, <3>2 DEF Queued, n
  <2>9. CASE c = d /\ ~fits
    <3>1. {f \in Range(fs) : f.channel = c} = {}
      BY <2>1, <2>5, <2>9 DEF Markers
    <3>2. (c \in Deep => c \in sub'.gapped) /\ sub'.withheld[c] = 0
      BY <2>3, <2>4, <2>9
    <3> QED BY <1>1, <2>2, <2>9, <3>1, <3>2 DEF Lost, n
  <2> QED BY <2>6, <2>7, <2>8, <2>9
<1> QED BY <1>1, <1>2, <1>3

\* Each of them is a growth of the channel's line.
LEMMA EmitGrown ==
  ASSUME TypeInv, Shape, Bounds, NEW d \in Channels, NEW away \in BOOLEAN, Emit(d, away), sub.on, NEW c \in Deep
  PROVE  Grown(c, sub.gapped, Line(c), Heights(c), ring[c].seq,
               sub'.gapped, Line(c)', Heights(c)', ring'[c].seq, Declined(c)')
<1>0. TypeOK /\ c \in Channels
  BY DEF TypeInv, Deep
<1>1. Untouched(c) \/ Announced(c) \/ Withheld(c) \/ Queued(c) \/ Lost(c)
  BY <1>0, EmitEffects
<1>2. pump' = pump
  BY <1>0, EmitFacts
<1>3. ring[c].seq \in Nat /\ \A n \in Heights(c) : n \in Nat /\ n <= ring[c].seq
  BY <1>0, LineTypes
<1>4. sub.withheld[c] \in Heights(c) /\ pump.marks[c] \in Heights(c)
      /\ \A f \in Line(c) : ~Gappy(f) => f.seq \in Heights(c)
  BY DEF Heights
<1>5. Heights(c)' = {g.seq : g \in {h \in Line(c)' : ~Gappy(h)}} \union {pump.marks[c], sub'.withheld[c]}
  BY <1>2 DEF Heights
<1>f. \A k, s : Frame(c, k, s).seq = s /\ Frame(c, k, s).kind = k
  BY DEF Frame
<1>6. CASE Untouched(c)
  <2>1. Heights(c)' = Heights(c)
    BY <1>2, <1>6 DEF Untouched, Heights
  <2> QED BY <1>3, <1>6, <2>1 DEF Grown, Untouched
<1>7. CASE Announced(c)
  <2> DEFINE f == Frame(c, "gap", ring[c].seq)
  <2>1. /\ Line(c)' = Line(c) \union {f} /\ Gappy(f) /\ f.seq = ring[c].seq /\ ring'[c].seq = ring[c].seq
        /\ sub'.withheld[c] = sub.withheld[c]
    BY <1>f, <1>7 DEF Announced, Gappy
  <2> HIDE DEF f
  <2>2. Heights(c)' \subseteq Heights(c) \union {0}
    BY <1>4, <1>5, <2>1
  <2>3. \E g \in Line(c)' : Gappy(g) /\ g.seq = ring'[c].seq
    BY <2>1
  <2>4. \A g \in Line(c)' \ Line(c) : Gappy(g) => g.seq = ring'[c].seq
    BY <2>1
  <2> QED BY <1>3, <2>1, <2>2, <2>3, <2>4 DEF Grown
<1>8. CASE Withheld(c)
  <2>1. /\ Line(c)' = Line(c) /\ ring'[c].seq = ring[c].seq + 1 /\ ring'[c].seq \in Declined(c)'
        /\ c \in sub'.gapped <=> c \in sub.gapped
        /\ sub'.withheld[c] = IF c \in sub.gapped THEN sub.withheld[c] ELSE ring'[c].seq
    BY <1>8 DEF Withheld
  <2>2. Heights(c)' \subseteq Heights(c) \union {0, ring'[c].seq}
    BY <1>4, <1>5, <2>1
  <2>3. ring'[c].seq \in Heights(c)' => c \notin sub.gapped
    <3>1. c \in sub.gapped => Heights(c)' \subseteq Heights(c)
      BY <1>4, <1>5, <2>1
    <3>2. ring'[c].seq \notin Heights(c)
      BY <1>3, <2>1
    <3> QED BY <3>1, <3>2
  <2> QED BY <1>3, <2>1, <2>2, <2>3 DEF Grown
<1>9. CASE Queued(c)
  <2> DEFINE f == Frame(c, Kind(c), ring'[c].seq)
  <2>1. /\ Line(c)' = Line(c) \union {f} /\ f.seq = ring'[c].seq /\ ring'[c].seq = ring[c].seq + 1
        /\ c \notin sub'.gapped /\ sub'.withheld[c] = 0
        /\ Gappy(f) <=> c \in sub.gapped
    BY <1>f, <1>9 DEF Queued, Gappy, Kind
  <2> HIDE DEF f
  <2>2. \A g \in Line(c)' \ Line(c) : g.seq = ring'[c].seq
    BY <2>1
  <2>3. CASE c \in sub.gapped
    <3>1. Heights(c)' \subseteq Heights(c) \union {0}
      BY <1>4, <1>5, <2>1, <2>3
    <3>2. \E g \in Line(c)' : Gappy(g) /\ g.seq = ring'[c].seq
      BY <2>1, <2>3
    <3> QED BY <1>3, <2>1, <2>2, <3>1, <3>2 DEF Grown
  <2>4. CASE c \notin sub.gapped
    <3>1. Heights(c)' \subseteq Heights(c) \union {0, ring'[c].seq}
      BY <1>4, <1>5, <2>1, <2>4
    <3>2. \E g \in Line(c)' : g.seq = ring'[c].seq
      BY <2>1
    <3> QED BY <1>3, <2>1, <2>2, <2>4, <3>1, <3>2 DEF Grown
  <2> QED BY <2>3, <2>4
<1>10. CASE Lost(c)
  <2>1. /\ Line(c)' = Line(c) /\ ring'[c].seq = ring[c].seq + 1
        /\ c \in sub'.gapped /\ sub'.withheld[c] = 0
    BY <1>10 DEF Lost
  <2>2. Heights(c)' \subseteq Heights(c) \union {0}
    BY <1>4, <1>5, <2>1
  <2> QED BY <1>3, <2>1, <2>2 DEF Grown
<1> QED BY <1>1, <1>6, <1>7, <1>8, <1>9, <1>10

\* What an emission adds is above a number that the ring has reached, and that
\* any loss to be announced is above.
LEMMA EmitAbove ==
  ASSUME TypeInv, TypeInv', Shape, Bounds, NEW d \in Channels, NEW away \in BOOLEAN, Emit(d, away), sub.on,
         NEW c \in Channels, NEW b \in Nat, b <= ring[c].seq, c \in sub.gapped => ring[c].seq > b
  PROVE  /\ \A f \in Line(c)' : f \in Line(c) \/ f.seq > b
         /\ sub'.withheld[c] \in {0, sub.withheld[c]} \/ sub'.withheld[c] > b
         /\ c \in sub'.gapped => c \in sub.gapped \/ ring'[c].seq > b
         /\ ring'[c].seq >= ring[c].seq
<1>0. TypeOK
  BY DEF TypeInv
<1>1. Untouched(c) \/ Announced(c) \/ Withheld(c) \/ Queued(c) \/ Lost(c)
  BY EmitEffects
<1>2. ring[c].seq \in Nat
  BY <1>0, ChannelTypes
<1>f. \A k, s : Frame(c, k, s).seq = s
  BY DEF Frame
<1>3. CASE Untouched(c)
  BY <1>2, <1>3 DEF Untouched
<1>4. CASE Announced(c)
  BY <1>2, <1>4, <1>f DEF Announced
<1>5. CASE Withheld(c)
  BY <1>2, <1>5 DEF Withheld
<1>6. CASE Queued(c)
  BY <1>2, <1>6, <1>f DEF Queued
<1>7. CASE Lost(c)
  BY <1>2, <1>7 DEF Lost
<1> QED BY <1>1, <1>3, <1>4, <1>5, <1>6, <1>7

\* An emission adds what it does not lose, and a loss stays to be announced.
LEMMA DeliveryEmit ==
  ASSUME TypeInv, TypeInv', Shape, Bounds, Delivery, NEW d \in Channels, NEW away \in BOOLEAN, Emit(d, away)
  PROVE  Delivery'
<1>0. TypeOK /\ TypeOK'
  BY DEF TypeInv
<1>t. ring \in RingType /\ sub \in SubType
  BY <1>0, TypeFacts
<1>1. /\ UNCHANGED <<launch, pump, sending, up, wire, client, cursor, held, opens, got, told>>
      /\ \A e \in Channels : e # d => foreign'[e] = foreign[e]
      /\ foreign[d] \subseteq foreign'[d]
      /\ ~sub.on => UNCHANGED <<sub, queue>>
  BY <1>0, EmitFacts
<1>2. \A c \in Channels : Declined(c) \subseteq Declined(c)'
  <2>1. \A c \in Channels : foreign[c] \subseteq foreign'[c]
    BY <1>1
  <2> QED BY <1>1, <2>1 DEF Declined
<1>d. \A c \in Deep : c \in Channels
  BY DEF Deep
<1>3. Current' <=> Current
  BY <1>1 DEF Current
<1>4. Keeping'
  <2>1. \A c \in Channels : told'[c] \in Nat /\ told'[c] >= told[c] /\ got[c] \subseteq got'[c]
    BY <1>0, <1>1, ChannelTypes
  <2>2. Keeping
    BY DEF Delivery
  <2> QED BY <1>0, <1>1, <1>2, <2>1, <2>2, KeepingStill
<1>5. Subscribed'
  <2>1. sub'.on = sub.on
    <3>1. \/ ~sub.on /\ UNCHANGED <<sub, queue>>
          \/ sub.on /\ sub.armed /\ away /\ NoteWithheld(d, ring[d].seq + 1) /\ UNCHANGED queue
          \/ sub.on /\ ~(sub.armed /\ away) /\ Enqueue(d, ring[d].seq + 1)
      BY <1>0, EmitFacts
    <3>2. CASE NoteWithheld(d, ring[d].seq + 1)
      BY <1>t, <3>2 DEF NoteWithheld, SubType
    <3>3. CASE Enqueue(d, ring[d].seq + 1)
      BY <1>t, <3>3 DEF Enqueue, SubType
    <3> QED BY <3>1, <3>2, <3>3
  <2> QED BY <1>1, <2>1 DEF Delivery, Subscribed
<1>6. CASE ~sub.on
  <2>1. ~client.open /\ queue = <<>> /\ wire = <<>> /\ queue' = <<>> /\ wire' = <<>>
    BY <1>1, <1>6 DEF Delivery, Subscribed, Shape, Closed
  <2>2. \A c : Line(c)' = {}
    BY <2>1, OnNothing DEF Line
  <2>3. ~Current'
    BY <1>3, <2>1 DEF Current
  <2>4. Behind' /\ Tracking' /\ Freshness'
    BY <2>2, <2>3 DEF Behind, NoneBehind, Tracking, Tracked, Freshness
  <2> QED BY <1>4, <1>5, <2>4 DEF Delivery
<1>7. CASE sub.on
  <2>1. ASSUME NEW c \in Channels
        PROVE  Early(c)' = Early(c) /\ Excused(c) \subseteq Excused(c)' /\ Declined(c)' \subseteq Excused(c)'
    <3>1. Early(c)' = Early(c)
      BY <1>7, EmitEffects
    <3> QED BY <1>1, <1>2, <3>1 DEF Excused
  <2>2. ASSUME NEW c \in Deep
        PROVE  /\ Grown(c, sub.gapped, Line(c), Heights(c), ring[c].seq,
                        sub'.gapped, Line(c)', Heights(c)', ring'[c].seq, Declined(c)')
               /\ c \in Channels /\ ring[c].seq \in Nat /\ ring'[c].seq \in Nat
               /\ \A g \in Line(c) : g.seq \in Nat /\ g.seq <= ring[c].seq
               /\ \A g \in Early(c) : g.seq \in Nat
               /\ \A n \in Heights(c) : n \in Nat /\ n <= ring[c].seq
    <3>1. c \in Channels
      BY <1>d
    <3>2. ring'[c].seq \in Nat
      BY <1>0, <3>1 DEF TypeOK
    <3> QED BY <1>0, <1>7, <3>1, <3>2, EmitGrown, LineTypes
  <2>3. Behind'
    <3> SUFFICES ASSUME NEW c \in Deep, NEW h \in Line(c)', Gappy(h)
                 PROVE  Whole(c, h.seq, {}, Declined(c))'
      BY DEF Behind, NoneBehind
    <3>1. c \in Channels /\ ring[c].seq \in Nat /\ ring'[c].seq \in Nat
      BY <2>2
    <3>2. CASE h \in Line(c)
      <4>1. Covers(c, sub.gapped, Line(c), Heights(c), ring[c].seq, h.seq, {}, Declined(c))
        BY <3>2 DEF Delivery, Behind, NoneBehind, Whole
      <4>2. Declined(c) \subseteq Declined(c)' /\ h.seq \in Nat /\ \A g \in {} : g.seq \in Nat
        BY <1>2, <2>2, <3>1, <3>2
      <4>3. Covers(c, sub'.gapped, Line(c)', Heights(c)', ring'[c].seq, h.seq, {}, Declined(c)')
        BY <2>2, <4>1, <4>2, CoversGrown
      <4> QED BY <4>3 DEF Whole
    <3>3. CASE h \notin Line(c)
      <4>1. h.seq = ring'[c].seq
        BY <2>2, <3>3 DEF Grown
      <4>2. \A n \in Heights(c)' : n \in Nat /\ n <= ring'[c].seq
        <5>1. Heights(c)' \subseteq Heights(c) \union {0, ring'[c].seq} /\ ring[c].seq <= ring'[c].seq
          BY <2>2 DEF Grown
        <5> QED BY <2>2, <5>1
      <4>3. ring'[c].seq <= h.seq /\ h.seq \in Nat
        BY <3>1, <4>1
      <4>4. Covers(c, sub'.gapped, Line(c)', Heights(c)', ring'[c].seq, h.seq, {}, Declined(c)')
        BY <3>1, <4>1, <4>2, <4>3, CoversTop
      <4> QED BY <4>4 DEF Whole
    <3> QED BY <3>2, <3>3
  <2>4. ASSUME Current, NEW c \in Channels
        PROVE  Base(c)' = Base(c) /\ Base(c) \in Nat /\ Base(c) <= ring[c].seq
    BY <1>0, <1>1, <2>4, BaseFacts, BaseStays
  <2>5. Tracking'
    <3> SUFFICES ASSUME Tracked', NEW c \in Deep PROVE Covered(c)'
      BY DEF Tracking
    <3>1. Tracked /\ Current /\ c \in Channels
      BY <1>1, <1>3, <1>d DEF Tracked
    <3>2. Covered(c)
      BY <3>1 DEF Delivery, Tracking
    <3>3. /\ Covers(c, sub.gapped, Line(c), Heights(c), ring[c].seq, Base(c), Early(c), Excused(c))
          /\ Packed(Base(c), Early(c), Excused(c))
      BY <3>2 DEF Covered, Whole
    <3>4. Base(c)' = Base(c) /\ Base(c) \in Nat
      BY <2>4, <3>1
    <3>5. Early(c)' = Early(c) /\ Excused(c) \subseteq Excused(c)' /\ Declined(c)' \subseteq Excused(c)'
      BY <2>1, <3>1
    <3>6. Covers(c, sub'.gapped, Line(c)', Heights(c)', ring'[c].seq, Base(c), Early(c), Excused(c)')
      BY <2>2, <3>3, <3>4, <3>5, CoversGrown
    <3>7. Packed(Base(c), Early(c), Excused(c)')
      BY <3>3, <3>5 DEF Packed
    <3> QED BY <3>4, <3>5, <3>6, <3>7 DEF Covered, Whole
  <2>6. Freshness'
    <3>1. ASSUME Current', Buffering', NEW c \in Channels
          PROVE  Fresh(c)'
      <4>1. Current /\ Fresh(c)
        BY <1>1, <1>3, <3>1 DEF Delivery, Freshness, Buffering
      <4>2. Base(c)' = Base(c) /\ Base(c) \in Nat /\ Base(c) <= ring[c].seq
        BY <2>4, <4>1
      <4>3. c \in sub.gapped => ring[c].seq > Base(c)
        BY <4>1 DEF Fresh
      <4> DEFINE b == Base(c)
      <4> HIDE DEF b
      <4>4. b \in Nat /\ b <= ring[c].seq /\ (c \in sub.gapped => ring[c].seq > b)
        BY <4>2, <4>3 DEF b
      <4>5. /\ \A f \in Line(c)' : f \in Line(c) \/ f.seq > b
            /\ sub'.withheld[c] \in {0, sub.withheld[c]} \/ sub'.withheld[c] > b
            /\ c \in sub'.gapped => c \in sub.gapped \/ ring'[c].seq > b
            /\ ring'[c].seq >= ring[c].seq
        BY <1>7, <4>4, EmitAbove
      <4>6. \A f \in Early(c)' \union Line(c)' : f \in Early(c) \union Line(c) \/ f.seq > Base(c)
        BY <2>1, <4>5 DEF b
      <4>7. held' = held /\ pump' = pump
        BY <1>1
      <4> QED BY <1>0, <4>1, <4>2, <4>5, <4>6, <4>7, FreshFrom DEF b
    <3>2. Current' => \A m \in Asks(up') : m.known => \A c \in Channels : m.from[c] = cursor'[c].seq
      BY <1>1, <1>3 DEF Delivery, Freshness
    <3> QED BY <3>1, <3>2 DEF Freshness
  <2> QED BY <1>4, <1>5, <2>3, <2>5, <2>6 DEF Delivery
<1> QED BY <1>6, <1>7

\* A connection is made, or lost.
LEMMA DeliveryOutages ==
  ASSUME TypeInv, TypeInv', Shape, Bounds, Delivery, Open \/ Disconnect \/ Relaunch
  PROVE  Delivery'
<1>0. TypeOK /\ TypeOK'
  BY DEF TypeInv
<1>t. client \in ClientType /\ ring \in RingType /\ cursor \in CursorType /\ launch \in Nat
  BY <1>0, TypeFacts
<1>d. \A c \in Deep : c \in Channels
  BY DEF Deep
<1>k. ASSUME client'.launch = launch' /\ ~client'.recover => client.launch = launch /\ ~client.recover,
             UNCHANGED <<foreign, got, told>>, client'.watch = client.watch,
             \A c \in Channels : cursor'[c].seq = cursor[c].seq
      PROVE  Keeping'
  <2>1. \A c \in Channels : told'[c] \in Nat /\ told'[c] >= told[c] /\ got[c] \subseteq got'[c]
    BY <1>0, <1>k, ChannelTypes
  <2>2. \A c \in Channels : Declined(c) \subseteq Declined(c)'
    BY <1>k DEF Declined
  <2>3. Keeping
    BY DEF Delivery
  <2> QED BY <1>0, <1>k, <2>1, <2>2, <2>3, KeepingStill
<1>1. CASE Open
  <2> DEFINE hello == [type |-> "hello", launch |-> launch, baseline |-> [c \in Channels |-> ring[c].seq]]
             m == [type |-> "replay", known |-> client.known, from |-> [c \in Channels |-> cursor[c].seq]]
  <2>1. /\ ~client.open /\ wire' = <<hello>>
        /\ up' = (IF client.watch THEN <<[type |-> "watch"]>> ELSE <<>>) \o <<m>>
        /\ client'.launch = client.launch /\ client'.watch = client.watch /\ client'.recover = client.recover
        /\ client'.known = client.known
        /\ sub' = [NoSubscriber EXCEPT !.on = TRUE]
        /\ \A c \in Channels : cursor'[c].seq = cursor[c].seq
        /\ UNCHANGED <<launch, ring, foreign, queue, pump, sending, held, got, told>>
    BY <1>1, <1>t DEF Open, ClientType, CursorType, server, history
  <2>2. queue = <<>> /\ held = NothingHeld /\ sending = NoReplay /\ pump = IdlePump
    BY <2>1 DEF Shape, Closed
  <2>3. hello.type = "hello" /\ \A c \in Channels : hello.baseline[c] = ring[c].seq
    OBVIOUS
  <2>4. m.type = "replay" /\ m.known = client.known /\ \A c \in Channels : m.from[c] = cursor[c].seq
    OBVIOUS
  <2> HIDE DEF hello, m
  <2>5. (\A buf : Flying(wire', buf) = {} /\ Waiting(wire', buf) = {}) /\ wire'[1] = hello
    BY <2>1, <2>3, OnHello
  <2>6. \A c \in Channels : Line(c)' = {} /\ Early(c)' = {}
    BY <2>1, <2>2, <2>5, FramesGone
  <2>7. sub'.withheld = NoSubscriber.withheld /\ sub'.gapped = {} /\ sub'.on = TRUE
    BY <2>1 DEF NoSubscriber
  <2>8. \A c \in Channels : pump'.marks[c] = 0 /\ sub'.withheld[c] = 0 /\ held'.heads[c] = 0
    BY <2>1, <2>2, <2>7, BlankFields
  <2>9. Asks(up') = {m}
    <3>1. client.watch \in BOOLEAN
      BY <1>t DEF ClientType
    <3> QED BY <2>1, <2>4, <3>1, OnOpening
  <2>10. Behind'
    BY <1>d, <2>6 DEF Behind, NoneBehind
  <2>11. Tracking'
    <3> SUFFICES ASSUME Tracked', NEW c \in Deep PROVE Covered(c)'
      BY DEF Tracking
    <3>1. c \in Channels /\ ~client.known
      BY <1>d, <2>4, <2>9 DEF Tracked
    <3>2. Base(c)' = ring[c].seq /\ ring[c].seq \in Nat
      BY <1>0, <2>1, <2>3, <2>5, <3>1, ChannelTypes DEF Base
    <3>3. \A n \in Heights(c)' : n \in Nat /\ n <= ring[c].seq
      <4>1. \A n \in Heights(c)' : n = 0
        BY <2>6, <2>8, <3>1 DEF Heights
      <4> QED BY <3>2, <4>1
    <3>4. Covers(c, sub'.gapped, Line(c)', Heights(c)', ring[c].seq, ring[c].seq, Early(c)', Excused(c)')
      BY <3>2, <3>3, CoversTop
    <3>5. Packed(ring[c].seq, Early(c)', Excused(c)')
      BY <2>6, <3>1 DEF Packed
    <3>6. ring' = ring
      BY <2>1
    <3> QED BY <3>2, <3>4, <3>5, <3>6 DEF Covered, Whole
  <2>12. Freshness'
    <3>1. \A c \in Channels : Fresh(c)'
      BY <2>6, <2>7, <2>8 DEF Fresh
    <3>2. \A r \in Asks(up') : r.known => \A c \in Channels : r.from[c] = cursor'[c].seq
      BY <2>1, <2>4, <2>9
    <3> QED BY <3>1, <3>2 DEF Freshness
  <2>13. Keeping'
    BY <1>k, <2>1
  <2>14. Subscribed'
    BY <2>7 DEF Subscribed
  <2> QED BY <2>10, <2>11, <2>12, <2>13, <2>14 DEF Delivery
<1>2. CASE Disconnect \/ Relaunch
  <2>1. Disconnected
    BY <1>2 DEF Disconnect, Relaunch
  <2>2. /\ queue' = <<>> /\ sending' = NoReplay /\ wire' = <<>> /\ held' = NothingHeld /\ cursor' = cursor
        /\ client'.launch = client.launch /\ client'.watch = client.watch /\ client'.recover = client.recover
        /\ ~client'.open
    BY <2>1, <1>t DEF Disconnected, ClientType
  <2>3. \A buf : Flying(wire', buf) = {} /\ Waiting(wire', buf) = {}
    BY <2>2, OnNothing
  <2>4. \A c \in Channels : Line(c)' = {}
    BY <2>2, <2>3, FramesGone
  <2>5. Behind' /\ Tracking' /\ Freshness' /\ Subscribed'
    BY <1>d, <2>2, <2>4 DEF Behind, NoneBehind, Tracking, Tracked, Current, Freshness, Subscribed
  <2>6. Keeping'
    <3>1. CASE Disconnect
      BY <1>k, <2>2, <3>1 DEF Disconnect, server, history
    <3>2. CASE Relaunch
      <4>1. launch' = launch + 1
        BY <3>2 DEF Relaunch
      <4>2. client.launch <= launch /\ client.launch \in Nat
        BY <1>0, TypeFacts DEF Shape, Known
      <4>3. client'.launch # launch'
        BY <1>t, <2>2, <4>1, <4>2
      <4> QED BY <4>3 DEF Keeping
    <3> QED BY <1>2, <3>1, <3>2
  <2> QED BY <2>5, <2>6 DEF Delivery
<1> QED BY <1>1, <1>2

\* The client reads hello: it goes on from its cursors, starts at the heads it is
\* told of, or drops them for another process's and awaits a recovery.
LEMMA DeliveryHello ==
  ASSUME TypeInv, TypeInv', Shape, Blank, Bounds, Delivery, ReadHello
  PROVE  Delivery'
<1>0. TypeOK /\ TypeOK'
  BY DEF TypeInv
<1>d. \A c \in Deep : c \in Channels
  BY DEF Deep
<1>1. /\ wire # <<>> /\ wire[1].type = "hello" /\ wire' = Tail(wire)
      /\ client.replaying /\ client.open
      /\ client'.launch = launch /\ client'.known /\ client'.replaying /\ client'.open
      /\ client'.watch = client.watch
      /\ client'.recover <=> client.recover \/ (client.known /\ client.launch # launch)
      /\ client.known => told' = told /\ (client.launch = launch => cursor' = cursor)
      /\ ~client.known => /\ told' = wire[1].baseline
                          /\ \A c \in Channels : cursor'[c].seq = wire[1].baseline[c]
      /\ UNCHANGED <<launch, ring, foreign, sub, queue, pump, sending, up, held, opens, got>>
  BY <1>0, HelloFacts
<1>2. \A c : Line(c)' = Line(c) /\ Early(c)' = Early(c)
  BY <1>0, <1>1, FramesGreeted
<1>3. \A c : Heights(c)' = Heights(c) /\ Declined(c)' = Declined(c)
  BY <1>1, <1>2 DEF Heights, Declined
<1>4. ~client'.recover => ~client.recover /\ (client.known => client.launch = launch)
  BY <1>1
<1>5. Current' => Current
  BY <1>1, <1>4 DEF Current
<1>6. ASSUME Current', NEW c \in Channels
      PROVE  /\ Base(c)' = Base(c) /\ Base(c) \in Nat
             /\ Excused(c) \subseteq Excused(c)'
  <2>1. Current
    BY <1>5, <1>6
  <2>2. /\ Base(c) \in Nat /\ (client.known => Base(c) = cursor[c].seq /\ client.launch = launch)
        /\ ~client.known => wire[1].baseline[c] = Base(c)
    BY <1>0, <2>1, BaseFacts
  <2>3. Base(c)' = cursor'[c].seq
    BY <1>1 DEF Base
  <2>4. Base(c)' = Base(c)
    BY <1>1, <2>2, <2>3
  <2>5. told'[c] >= told[c] /\ told[c] \in Nat /\ told'[c] \in Nat
    <3>1. told[c] \in Nat /\ told'[c] \in Nat
      BY <1>0, ChannelTypes DEF TypeOK
    <3>2. ~client.known => client.launch # launch
      BY <1>0, TypeFacts DEF Shape, Known
    <3>3. ~client.known => told[c] = 0
      BY <3>2 DEF Blank
    <3> QED BY <1>1, <3>1, <3>3
  <2>6. Excused(c) \subseteq Excused(c)'
    BY <1>1, <1>3, <2>5 DEF Excused
  <2> QED BY <2>2, <2>4, <2>6
<1>7. Behind'
  <2> SUFFICES ASSUME NEW c \in Deep PROVE NoneBehind(c)'
    BY DEF Behind
  <2>1. c \in Channels /\ NoneBehind(c)
    BY <1>d DEF Delivery, Behind
  <2> QED BY <1>1, <1>2, <1>3, <2>1 DEF NoneBehind, Whole
<1>8. Tracking'
  <2> SUFFICES ASSUME Tracked', NEW c \in Deep PROVE Covered(c)'
    BY DEF Tracking
  <2>1. Current' /\ Tracked /\ c \in Channels
    BY <1>1, <1>5, <1>d DEF Tracked
  <2>2. Covered(c)
    BY <2>1 DEF Delivery, Tracking
  <2>3. Base(c)' = Base(c) /\ Base(c) \in Nat /\ Excused(c) \subseteq Excused(c)'
    BY <1>6, <2>1
  <2>4. ring'[c].seq = ring[c].seq /\ (c \in sub.gapped => c \in sub'.gapped)
    BY <1>1
  <2>5. /\ Base(c)' \in Nat /\ Base(c) <= Base(c)' /\ Heights(c)' \subseteq Heights(c) \union {0}
    BY <1>3, <2>3
  <2>6. /\ \A g \in Line(c) : g \in Line(c)' \/ g \in Early(c)' \/ g.seq <= Base(c)'
        /\ \A g \in Early(c) : \/ g \in Early(c)' \/ g.seq <= Base(c)'
                               \/ \A s \in Nat : s <= g.seq => s \in Excused(c)'
        /\ \A s \in Excused(c) : s \in Excused(c)' \/ s <= Base(c)'
        /\ \A f \in Early(c)' : f \in Early(c) \/ Gappy(f)
             \/ \A s \in Base(c)' + 1 .. f.seq - 1 : s \in Excused(c)' \/ \E g \in Early(c)' : Cov(g, s)
    BY <1>2, <2>3
  <2> QED BY <1>0, <2>1, <2>2, <2>3, <2>4, <2>5, <2>6, CoveredFrom
<1>9. Freshness'
  <2>1. ASSUME Current', Buffering', NEW c \in Channels
        PROVE  Fresh(c)'
    <3>1. Current /\ Fresh(c)
      BY <1>1, <1>5, <2>1 DEF Delivery, Freshness, Buffering
    <3>2. Base(c)' = Base(c) /\ Base(c) \in Nat
      BY <1>6, <2>1
    <3>3. /\ ring' = ring /\ held' = held /\ pump' = pump /\ sub' = sub /\ ring[c].seq \in Nat
      BY <1>0, <1>1, ChannelTypes
    <3>4. ring'[c].seq >= ring[c].seq
      BY <3>3
    <3>5. \A f \in Early(c)' \union Line(c)' : f \in Early(c) \union Line(c) \/ f.seq > Base(c)
      BY <1>2
    <3> QED BY <1>0, <3>1, <3>2, <3>3, <3>4, <3>5, FreshFrom
  <2>2. ASSUME Current', NEW m \in Asks(up'), m.known, NEW c \in Channels
        PROVE  m.from[c] = cursor'[c].seq
    <3>1. Current /\ m \in Asks(up) /\ client.known
      BY <1>1, <1>5, <2>2 DEF Shape, Window
    <3>2. m.from[c] = cursor[c].seq
      BY <2>2, <3>1 DEF Delivery, Freshness
    <3>3. cursor' = cursor
      BY <1>1, <3>1 DEF Current
    <3> QED BY <3>2, <3>3
  <2> QED BY <2>1, <2>2 DEF Freshness
<1>10. Keeping'
  <2>1. CASE client.known
    <3>1. \A c \in Channels : told'[c] \in Nat /\ told'[c] >= told[c] /\ got[c] \subseteq got'[c]
                              /\ Declined(c) \subseteq Declined(c)'
      BY <1>0, <1>1, <1>3, <2>1, ChannelTypes
    <3>2. CASE client'.recover
      BY <3>2 DEF Keeping
    <3>3. CASE ~client'.recover
      <4>1. cursor' = cursor /\ client.launch = launch /\ ~client.recover
        BY <1>1, <1>4, <2>1, <3>3
      <4>2. Keeping
        BY DEF Delivery
      <4> QED BY <1>0, <3>1, <4>1, <4>2, KeepingStill
    <3> QED BY <3>2, <3>3
  <2>2. CASE ~client.known
    <3>1. \A c \in Channels : cursor'[c].seq = told'[c] /\ cursor'[c].seq \in Nat
      <4> TAKE c \in Channels
      <4>1. told'[c] \in Nat
        BY <1>0 DEF TypeOK
      <4>2. cursor'[c].seq = wire[1].baseline[c] /\ told' = wire[1].baseline
        BY <1>1, <2>2
      <4> QED BY <4>1, <4>2
    <3>2. LatestOnly \subseteq Channels
      BY ChannelsAssumption
    <3> QED BY <1>d, <3>1, <3>2 DEF Keeping, Kept, LatestKept
  <2> QED BY <2>1, <2>2
<1>11. Subscribed'
  BY <1>1 DEF Delivery, Subscribed
<1> QED BY <1>7, <1>8, <1>9, <1>10, <1>11 DEF Delivery

\* In its replay window the client holds a frame back: the frames stay early, or an
\* overflow excuses them and all below.
LEMMA DeliveryHeld ==
  ASSUME TypeInv, TypeInv', Shape, Bounds, Delivery, ReadFrame, Buffering
  PROVE  Delivery'
<1> DEFINE f == wire[1].frame
<1>0. TypeOK /\ TypeOK'
  BY DEF TypeInv
<1>d. \A c \in Deep : c \in Channels
  BY DEF Deep
<1>1. /\ wire # <<>> /\ wire[1].type = "event" /\ wire' = Tail(wire) /\ held' = Pushed(f)
      /\ UNCHANGED <<launch, ring, foreign, sub, queue, pump, sending, up, client, cursor, opens, got, told>>
  <2>1. wire # <<>> /\ Head(wire) = wire[1]
    BY <1>0, TypeFacts, TailFacts DEF ReadFrame
  <2> QED BY <2>1 DEF ReadFrame, server, connection, history
<1>2. client.open /\ client.known /\ client.launch = launch
  BY <1>1 DEF Shape, Closed, Greeted, Greets
<1>3. /\ f \in Frames
      /\ f.channel \in Channels => f \in Early(f.channel)
      /\ \A c : Line(c)' = Line(c)
      /\ ~held'.overflow => \A c : Early(c)' = Early(c)
      /\ held'.overflow => \A c : /\ Early(c)' \subseteq Early(c)
                                  /\ Early(c) \subseteq Early(c)' \union (IF f.channel = c THEN {f} ELSE {})
                                                          \union Buffered(c)
      /\ held.overflow => held'.overflow
      /\ \A c \in Channels : held'.heads[c] \in {held.heads[c], f.seq} /\ held'.heads[c] >= held.heads[c]
      /\ held'.heads[f.channel] >= f.seq
      /\ \A c \in Channels : c # f.channel => held'.heads[c] = held.heads[c]
  BY <1>0, <1>1, FramesHeld
<1>4. f.channel \in Channels /\ f.seq \in Nat
  BY <1>3 DEF Frames
<1> HIDE DEF f
<1>5. \A c : Heights(c)' = Heights(c) /\ Declined(c)' = Declined(c)
  BY <1>1, <1>3 DEF Heights, Declined
<1>6. (Current' <=> Current) /\ (Tracked' <=> Tracked) /\ \A c : Base(c)' = Base(c)
  BY <1>1, <1>2 DEF Current, Tracked, Base
<1>7. ASSUME NEW c \in Channels
      PROVE  /\ Base(c) \in Nat /\ held.heads[c] \in Nat /\ held'.heads[c] \in Nat
             /\ Excused(c) \subseteq Excused(c)'
  <2>1. cursor[c].seq \in Nat /\ held.heads[c] \in Nat /\ held'.heads[c] \in Nat
    BY <1>0, ChannelTypes DEF TypeOK
  <2>2. held'.heads[c] >= held.heads[c]
    BY <1>3
  <2> QED BY <1>1, <1>2, <1>3, <1>5, <2>1, <2>2 DEF Base, Excused
<1>8. Behind'
  <2> SUFFICES ASSUME NEW c \in Deep PROVE NoneBehind(c)'
    BY DEF Behind
  <2>1. c \in Channels /\ NoneBehind(c)
    BY <1>d DEF Delivery, Behind
  <2> QED BY <1>1, <1>3, <1>5, <2>1 DEF NoneBehind, Whole
<1>9. Tracking'
  <2> SUFFICES ASSUME Tracked', NEW c \in Deep PROVE Covered(c)'
    BY DEF Tracking
  <2>1. Tracked /\ c \in Channels
    BY <1>6, <1>d
  <2>2. Covered(c)
    BY <2>1 DEF Delivery, Tracking
  <2>3. /\ Base(c)' = Base(c) /\ Base(c) \in Nat /\ Base(c)' \in Nat /\ Base(c) <= Base(c)'
        /\ Excused(c) \subseteq Excused(c)'
    BY <1>6, <1>7, <2>1
  <2>4. ring'[c].seq = ring[c].seq /\ (c \in sub.gapped => c \in sub'.gapped)
        /\ Heights(c)' \subseteq Heights(c) \union {0}
    BY <1>1, <1>5
  <2>5. ASSUME NEW g \in Early(c), g \notin Early(c)'
        PROVE  \A s \in Nat : s <= g.seq => s \in Excused(c)'
    <3>1. held'.overflow /\ (g \in Buffered(c) \/ (f.channel = c /\ g = f))
      BY <1>3, <2>5
    <3>2. /\ held'.heads[c] \in Nat /\ held.heads[c] \in Nat /\ held'.heads[c] >= held.heads[c]
          /\ g.seq \in Nat
      BY <1>0, <1>3, <1>7, <2>1, LineTypes
    <3>3. g.seq <= held'.heads[c]
      <4>1. CASE g \in Buffered(c)
        <5>1. g.seq <= held.heads[c]
          BY <2>1, <4>1 DEF Shape, Holding
        <5> QED BY <3>2, <5>1
      <4>2. CASE f.channel = c /\ g = f
        BY <1>3, <4>2
      <4> QED BY <3>1, <4>1, <4>2
    <3> QED BY <3>1, <3>2, <3>3 DEF Excused
  <2>6. \A h \in Early(c)' : h \in Early(c)
    BY <1>3
  <2>7. \A s \in Excused(c) : s \in Excused(c)' \/ s <= Base(c)'
    BY <2>3
  <2>8. \A g \in Line(c) : g \in Line(c)' \/ g \in Early(c)' \/ g.seq <= Base(c)'
    BY <1>3
  <2>9. \A g \in Early(c) : \/ g \in Early(c)' \/ g.seq <= Base(c)'
                            \/ \A s \in Nat : s <= g.seq => s \in Excused(c)'
    BY <2>5
  <2>10. \A h \in Early(c)' : h \in Early(c) \/ Gappy(h)
             \/ \A s \in Base(c)' + 1 .. h.seq - 1 : s \in Excused(c)' \/ \E g \in Early(c)' : Cov(g, s)
    BY <2>6
  <2> QED BY <1>0, <2>1, <2>2, <2>3, <2>4, <2>7, <2>8, <2>9, <2>10, CoveredFrom
<1>10. Freshness'
  <2>1. ASSUME Current', Buffering', NEW c \in Channels
        PROVE  Fresh(c)'
    <3>1. Current /\ \A d \in Channels : Fresh(d)
      BY <1>1, <1>6, <2>1 DEF Delivery, Freshness, Buffering
    <3>2. Base(c)' = Base(c) /\ Base(c) \in Nat
      BY <1>6, <1>7, <2>1
    <3>3. /\ ring' = ring /\ pump' = pump /\ sub' = sub /\ ring[c].seq \in Nat
      BY <1>0, <1>1, ChannelTypes
    <3>4. ring'[c].seq >= ring[c].seq
      BY <3>3
    <3>5. \A h \in Early(c)' \union Line(c)' : h \in Early(c) \union Line(c) \/ h.seq > Base(c)
      BY <1>3
    <3>6. held'.heads[c] \in {0, held.heads[c]} \/ held'.heads[c] > Base(c)
      <4>1. CASE f.channel = c
        <5>1. f \in Early(c)
          BY <1>3, <1>4, <4>1
        <5>2. f.seq > Base(c)
          BY <3>1, <5>1 DEF Fresh
        <5> QED BY <1>3, <5>2
      <4>2. CASE f.channel # c
        BY <1>3, <4>2
      <4> QED BY <4>1, <4>2
    <3> QED BY <1>0, <3>1, <3>2, <3>3, <3>4, <3>5, <3>6, FreshFrom
  <2>2. ASSUME Current', NEW m \in Asks(up'), m.known, NEW c \in Channels
        PROVE  m.from[c] = cursor'[c].seq
    BY <1>1, <1>6, <2>2 DEF Delivery, Freshness
  <2> QED BY <2>1, <2>2 DEF Freshness
<1>11. Keeping'
  <2>1. \A c \in Channels : /\ cursor'[c].seq = cursor[c].seq /\ got[c] \subseteq got'[c]
                            /\ told'[c] \in Nat /\ told'[c] >= told[c]
                            /\ Declined(c) \subseteq Declined(c)'
    BY <1>0, <1>1, <1>5, ChannelTypes
  <2>2. Keeping /\ (client'.launch = launch' /\ ~client'.recover => client.launch = launch /\ ~client.recover)
    BY <1>1 DEF Delivery
  <2> QED BY <1>0, <2>1, <2>2, KeepingStill
<1>12. Subscribed'
  BY <1>1 DEF Delivery, Subscribed
<1> QED BY <1>8, <1>9, <1>10, <1>11, <1>12 DEF Delivery

\* The frame that the client takes off the wire is its channel's first: what stays is
\* above it, marks excepted.
LEMMA TakenFirst ==
  ASSUME TypeInv, Shape, Order, ReadFrame, ~Buffering, NEW f, f = wire[1].frame
  PROVE  /\ f \in Frames /\ f.channel \in Channels /\ f \in Line(f.channel) /\ f.seq \in Nat
         /\ client.open /\ client.known /\ client.launch = launch /\ ~Buffering'
         /\ \A c \in Channels : /\ Line(c) = Line(c)' \union (IF f.channel = c THEN {f} ELSE {})
                                /\ Early(c) = {} /\ Early(c)' = {}
         /\ \A g \in Line(f.channel)' : g.kind # "mark" => f.seq < g.seq
         /\ \A m \in Asks(up) : ~m.known
<1>0. TypeOK
  BY DEF TypeInv
<1>1. /\ wire # <<>> /\ wire[1].type = "event" /\ wire' = Tail(wire) /\ f \in Frames /\ f.channel \in Channels
      /\ UNCHANGED <<queue, sending, up, client, held, opens>>
  BY <1>0, TakenFacts
<1>2. ~Buffering'
  BY <1>1 DEF Buffering
<1>3. client.open /\ client.known /\ client.launch = launch
  BY <1>1 DEF Shape, Closed, Greeted, Greets
<1>t. wire \in Seq(Downward) /\ Framed(wire) /\ FALSE \in BOOLEAN
  BY <1>0, TypeFacts DEF Shape, Greeted
<1>4. \A c : f \in Line(f.channel) /\ Line(c) = Line(c)' \union (IF f.channel = c THEN {f} ELSE {})
  BY <1>0, <1>1, FramesTaken
<1>5. /\ Flying(wire, FALSE) = Flying(Tail(wire), FALSE) \union {f} /\ Waiting(Tail(wire), FALSE) = {}
      /\ Rising(wire, FALSE) => \A g \in Flying(Tail(wire), FALSE) :
            g.channel = f.channel /\ g.kind # "mark" => f.seq < g.seq
  BY <1>1, <1>t, FlyingTail
<1>6. \A c \in Channels : Early(c) = {} /\ Early(c)' = {}
  <2> TAKE c \in Channels
  <2>1. Early(c) = {}
    BY <1>0, NoneEarly
  <2>2. Buffering' = FALSE
    BY <1>2 DEF Buffering
  <2>3. Waiting(wire', Buffering') = {}
    BY <1>1, <1>5, <2>2
  <2> QED BY <1>1, <2>1, <2>3 DEF Early
<1>7. \A g \in Line(f.channel)' : g.kind # "mark" => f.seq < g.seq
  <2> SUFFICES ASSUME NEW g \in Line(f.channel)', g.kind # "mark" PROVE f.seq < g.seq
    OBVIOUS
  <2>1. g.channel = f.channel /\ (g \in Range(queue) \/ g \in Flying(wire', Buffering'))
    BY <1>1 DEF Line
  <2>2. Buffering = FALSE /\ Buffering' = FALSE
    BY <1>2 DEF Buffering
  <2>3. Rising(wire, FALSE) /\ Below(Flying(wire, FALSE), queue)
    BY <2>2 DEF Order, Orderly
  <2>4. CASE g \in Range(queue)
    <3>1. PICK j \in DOMAIN queue : g = queue[j]
      BY <2>4 DEF Range
    <3>2. f \in Flying(wire, FALSE)
      BY <1>5
    <3> QED BY <2>1, <2>3, <3>1, <3>2 DEF Below
  <2>5. CASE g \in Flying(wire', Buffering')
    <3>1. g \in Flying(Tail(wire), FALSE)
      BY <1>1, <2>2, <2>5
    <3> QED BY <1>5, <2>1, <2>3, <3>1
  <2> QED BY <2>1, <2>4, <2>5
<1>8. \A m \in Asks(up) : ~m.known
  BY DEF Shape, Window, Buffering
<1>9. f.seq \in Nat
  BY <1>1 DEF Frames
<1> QED BY <1>1, <1>2, <1>3, <1>4, <1>6, <1>7, <1>8, <1>9

\* What the client's cursor passes as it handles a frame is accounted for: up to a gap
\* all is told, up to any other frame nothing was missing on the way.
LEMMA KeepingTaken ==
  ASSUME TypeInv, TypeInv', Shape, Bounds, Order, Delivery, ReadFrame, ~Buffering
  PROVE  Keeping'
<1> PICK f : f = wire[1].frame
  OBVIOUS
<1> PICK d : d = f.channel
  OBVIOUS
<1> DEFINE v == Handled(View(d), f)
<1>0. TypeOK /\ TypeOK'
  BY DEF TypeInv
<1>1. /\ f \in Frames /\ d \in Channels /\ f \in Line(d) /\ f.seq \in Nat
      /\ client.open /\ client.known /\ client.launch = launch
      /\ \A g \in Line(d) : g = f \/ g.kind = "mark" \/ f.seq < g.seq
      /\ Early(d) = {}
      /\ \A m \in Asks(up) : ~m.known
  BY TakenFirst
<1>2. /\ cursor'[d] = v.cur /\ got'[d] = v.got /\ told'[d] = v.told
      /\ \A c \in Channels : c # d => cursor'[c] = cursor[c] /\ got'[c] = got[c] /\ told'[c] = told[c]
      /\ UNCHANGED <<launch, foreign, client, held>>
  BY <1>0, TakenFacts
<1>3. /\ View(d) \in ViewType /\ View(d).cur = cursor[d] /\ View(d).got = got[d] /\ View(d).told = told[d]
  BY <1>0, <1>1 DEF TypeOK, View, ViewType
<1>4. /\ View(d).got \subseteq v.got /\ v.told >= View(d).told
      /\ Gappy(f) => v.cur.seq = f.seq /\ v.told >= f.seq
      /\ ~Gappy(f) => v.cur.seq = IF f.seq > View(d).cur.seq THEN f.seq ELSE View(d).cur.seq
      /\ f.kind = "event" /\ f.seq > View(d).cur.seq => f.seq \in v.got
  <2>1. f \in Frames /\ View(d) \in ViewType
    BY <1>1, <1>3
  <2> QED BY <2>1, HandledFacts
<1> HIDE DEF v
<1>5. /\ got[d] \subseteq got'[d] /\ told'[d] >= told[d] /\ told[d] \in Nat /\ told'[d] \in Nat
      /\ cursor[d].seq \in Nat
      /\ Gappy(f) => cursor'[d].seq = f.seq /\ told'[d] >= f.seq
      /\ ~Gappy(f) => cursor'[d].seq = IF f.seq > cursor[d].seq THEN f.seq ELSE cursor[d].seq
      /\ f.kind = "event" /\ f.seq > cursor[d].seq => f.seq \in got'[d]
  <2>1. told[d] \in Nat /\ told'[d] \in Nat /\ cursor[d].seq \in Nat
    BY <1>0, <1>1, ChannelTypes DEF TypeOK
  <2> QED BY <1>2, <1>3, <1>4, <2>1
<1>6. \A c : Declined(c)' = Declined(c)
  BY <1>2 DEF Declined
<1>7. f.kind = "mark" => f.seq \in Declined(d) /\ d \in Deep
  <2> SUFFICES ASSUME f.kind = "mark" PROVE f.seq \in Declined(d) /\ d \in Deep
    OBVIOUS
  <2>1. f.seq \in Declined(d)
    BY <1>1 DEF Bounds, Marked
  <2>2. d \in Narrow
    BY <1>1, <2>1 DEF Declined, Order, Scoped
  <2> QED BY <2>1, <2>2, ChannelsAssumption DEF Deep
<1>k. f.kind \in {"event", "mark"} \/ Gappy(f)
  BY <1>1 DEF Frames, Gappy
<1> SUFFICES ASSUME client'.launch = launch', ~client'.recover
             PROVE  (\A c \in Deep : Kept(c)') /\ (\A c \in LatestOnly : LatestKept(c)')
  BY DEF Keeping
<1>8. ~client.recover /\ (\A c \in Deep : Kept(c)) /\ (\A c \in LatestOnly : LatestKept(c))
  BY <1>1, <1>2 DEF Delivery, Keeping
<1>9. ASSUME NEW c \in Deep PROVE Kept(c)'
  <2>1. c \in Channels /\ Kept(c)
    BY <1>8 DEF Deep
  <2>2. CASE c # d
    BY <1>2, <1>6, <2>1, <2>2 DEF Kept
  <2>3. CASE c = d
    <3> SUFFICES ASSUME NEW s \in 1 .. cursor'[d].seq
                 PROVE  s \in got'[d] \union Declined(d)' \/ s <= told'[d]
      BY <2>3 DEF Kept
    <3>1. CASE s <= cursor[d].seq
      <4>1. s \in 1 .. cursor[d].seq
        BY <1>5, <3>1
      <4> QED BY <1>5, <1>6, <2>1, <2>3, <4>1 DEF Kept
    <3>2. CASE Gappy(f)
      BY <1>1, <1>5, <3>2
    <3>3. CASE ~Gappy(f) /\ s > cursor[d].seq
      <4>1. f.seq > cursor[d].seq /\ cursor'[d].seq = f.seq /\ s <= f.seq /\ s \in Nat
        BY <1>1, <1>5, <3>3
      <4>2. CASE s = f.seq
        BY <1>5, <1>6, <1>7, <1>k, <3>3, <4>1, <4>2
      <4>3. CASE s # f.seq
        <5>1. Tracked
          BY <1>1, <1>8 DEF Tracked, Current
        <5>2. Covered(d) /\ Base(d) = cursor[d].seq
          BY <1>1, <2>3, <5>1 DEF Delivery, Tracking, Base
        <5>3. f.seq \in Heights(d)
          BY <1>1, <3>3 DEF Heights
        <5>4. s \in cursor[d].seq + 1 .. f.seq - 1
          BY <1>1, <1>5, <3>3, <4>1, <4>3
        <5>5. s \in Excused(d) \/ \E g \in Line(d) : Cov(g, s) /\ g.seq <= f.seq
          BY <1>1, <5>2, <5>3, <5>4 DEF Covered, Whole, Covers
        <5>6. CASE s \in Excused(d)
          <6>1. ~held.overflow
            BY <1>0, <1>1, NoneEarly
          <6> QED BY <1>5, <1>6, <4>1, <5>6, <6>1 DEF Excused
        <5>7. ASSUME NEW g \in Line(d), Cov(g, s), g.seq <= f.seq
              PROVE  s \in Declined(d)
          <6>1. g.seq \in Nat
            BY <1>0, <1>1, LineTypes
          <6>2. g # f
            BY <1>1, <3>3, <4>3, <5>7 DEF Cov
          <6>3. g.kind = "mark"
            BY <1>1, <5>7, <6>1, <6>2
          <6>4. g.seq = s
            BY <5>7, <6>3 DEF Cov, Gappy
          <6> QED BY <1>1, <6>3, <6>4 DEF Bounds, Marked
        <5> QED BY <1>6, <5>5, <5>6, <5>7
      <4> QED BY <4>2, <4>3
    <3>4. s \in Nat
      BY <1>1, <1>5
    <3> QED BY <1>5, <3>1, <3>2, <3>3, <3>4
  <2> QED BY <2>2, <2>3
<1>10. ASSUME NEW c \in LatestOnly PROVE LatestKept(c)'
  <2>1. LatestKept(c) /\ c \in Channels /\ c \notin Deep
    BY <1>8, ChannelsAssumption DEF Deep
  <2>2. CASE c # d
    BY <1>2, <2>1, <2>2 DEF LatestKept
  <2>3. CASE c = d
    <3>1. f.kind # "mark"
      BY <1>7, <2>1, <2>3
    <3>2. CASE Gappy(f)
      BY <1>5, <2>3, <3>2 DEF LatestKept
    <3>3. CASE f.kind = "event" /\ ~Gappy(f)
      <4>1. CASE f.seq > cursor[d].seq
        BY <1>5, <2>3, <3>3, <4>1 DEF LatestKept
      <4>2. CASE ~(f.seq > cursor[d].seq)
        <5>1. cursor'[d].seq = cursor[d].seq
          BY <1>5, <3>3, <4>2
        <5> QED BY <1>5, <2>1, <2>3, <5>1 DEF LatestKept
      <4> QED BY <4>1, <4>2
    <3> QED BY <1>k, <3>1, <3>2, <3>3
  <2> QED BY <2>2, <2>3
<1> QED BY <1>9, <1>10

\* The client handles the frame that arrives: behind a gap nothing was missing, and
\* another frame only takes the cursor further.
LEMMA DeliveryTaken ==
  ASSUME TypeInv, TypeInv', Shape, Bounds, Order, Delivery, ReadFrame, ~Buffering
  PROVE  Delivery'
<1> PICK f : f = wire[1].frame
  OBVIOUS
<1> PICK d : d = f.channel
  OBVIOUS
<1> DEFINE v == Handled(View(d), f)
<1>0. TypeOK /\ TypeOK'
  BY DEF TypeInv
<1>d. \A c \in Deep : c \in Channels
  BY DEF Deep
<1>1. /\ f \in Frames /\ d \in Channels /\ f \in Line(d) /\ f.seq \in Nat
      /\ client.open /\ client.known /\ client.launch = launch /\ ~Buffering'
      /\ \A c \in Channels : /\ Line(c) = Line(c)' \union (IF d = c THEN {f} ELSE {})
                             /\ Early(c) = {} /\ Early(c)' = {}
      /\ \A g \in Line(d)' : g.kind # "mark" => f.seq < g.seq
      /\ \A m \in Asks(up) : ~m.known
  BY TakenFirst
<1>2. /\ cursor'[d] = v.cur /\ told'[d] = v.told
      /\ \A c \in Channels : c # d => cursor'[c] = cursor[c] /\ told'[c] = told[c]
      /\ UNCHANGED <<launch, ring, foreign, sub, pump, up, client, held>>
  BY <1>0, TakenFacts
<1>3. /\ View(d) \in ViewType /\ View(d).cur = cursor[d] /\ View(d).told = told[d]
  BY <1>0, <1>1 DEF TypeOK, View, ViewType
<1>4. /\ v.told >= View(d).told
      /\ Gappy(f) => v.cur.seq = f.seq
      /\ ~Gappy(f) => v.cur.seq = IF f.seq > View(d).cur.seq THEN f.seq ELSE View(d).cur.seq
  BY <1>1, <1>3, HandledFacts
<1> HIDE DEF v
<1>5. /\ \A c \in Channels : told[c] \in Nat /\ told'[c] \in Nat /\ told'[c] >= told[c]
                             /\ cursor[c].seq \in Nat /\ cursor'[c].seq \in Nat
      /\ Gappy(f) => cursor'[d].seq = f.seq
      /\ ~Gappy(f) => cursor'[d].seq >= f.seq /\ cursor'[d].seq >= cursor[d].seq
  <2>1. \A c \in Channels : told[c] \in Nat /\ told'[c] \in Nat /\ cursor[c].seq \in Nat /\ cursor'[c].seq \in Nat
    BY <1>0, ChannelTypes DEF TypeOK
  <2>2. Gappy(f) => cursor'[d].seq = f.seq
    BY <1>2, <1>4
  <2>3. ~Gappy(f) => cursor'[d].seq = IF f.seq > cursor[d].seq THEN f.seq ELSE cursor[d].seq
    BY <1>2, <1>3, <1>4
  <2>4. \A c \in Channels : told'[c] >= told[c]
    BY <1>2, <1>3, <1>4, <2>1
  <2> QED BY <1>1, <2>1, <2>2, <2>3, <2>4
<1>6. \A c \in Channels : /\ Declined(c)' = Declined(c) /\ Heights(c)' \subseteq Heights(c) \union {0}
                          /\ Excused(c) \subseteq Excused(c)' /\ ring'[c].seq = ring[c].seq
                          /\ Base(c) = cursor[c].seq /\ Base(c)' = cursor'[c].seq
                          /\ (c \in sub.gapped => c \in sub'.gapped)
  <2> TAKE c \in Channels
  <2>1. Declined(c)' = Declined(c)
    BY <1>2 DEF Declined
  <2>2. Heights(c)' \subseteq Heights(c) \union {0}
    BY <1>1, <1>2 DEF Heights
  <2>3. Excused(c) \subseteq Excused(c)'
    BY <1>2, <1>5, <2>1 DEF Excused
  <2> QED BY <1>1, <1>2, <2>1, <2>2, <2>3 DEF Base
<1>7. Behind'
  <2> SUFFICES ASSUME NEW c \in Deep PROVE NoneBehind(c)'
    BY DEF Behind
  <2>1. c \in Channels /\ NoneBehind(c)
    BY <1>d DEF Delivery, Behind
  <2>2. ASSUME NEW h \in Line(c)', Gappy(h), NEW g \in Line(c), g \notin Line(c)'
        PROVE  g.seq <= h.seq
    <3>1. c = d /\ g = f
      BY <1>1, <2>1, <2>2
    <3>2. f.seq < h.seq
      BY <1>1, <2>2, <3>1 DEF Gappy
    <3>3. h \in Line(c)
      BY <1>1, <2>1, <2>2
    <3>4. h.seq \in Nat
      BY <1>0, <2>1, <3>3, LineTypes
    <3> QED BY <1>1, <3>1, <3>2, <3>4
  <2>3. \A h \in Line(c)' : Gappy(h) => /\ h \in Line(c)
                                        /\ \A g \in Line(c) : g \in Line(c)' \/ g.seq <= h.seq
    BY <1>1, <2>1, <2>2
  <2> QED BY <1>0, <1>6, <2>1, <2>3, BehindFrom
<1>8. Tracking'
  <2> SUFFICES ASSUME Tracked', NEW c \in Deep PROVE Covered(c)'
    BY DEF Tracking
  <2>1. Tracked /\ c \in Channels
    BY <1>1, <1>2, <1>d DEF Tracked, Current
  <2>2. Covered(c)
    BY <2>1 DEF Delivery, Tracking
  <2>3. /\ Base(c) \in Nat /\ Base(c)' \in Nat /\ Early(c) = {} /\ Early(c)' = {}
        /\ \A s \in Excused(c) : s \in Excused(c)' \/ s <= Base(c)'
        /\ \A h \in Early(c) : \/ h \in Early(c)' \/ h.seq <= Base(c)'
                               \/ \A s \in Nat : s <= h.seq => s \in Excused(c)'
        /\ \A h \in Early(c)' : h \in Early(c) \/ Gappy(h)
             \/ \A s \in Base(c)' + 1 .. h.seq - 1 : s \in Excused(c)' \/ \E g \in Early(c)' : Cov(g, s)
    BY <1>1, <1>5, <1>6, <2>1
  <2>4. CASE c # d \/ ~Gappy(f)
    <3>1. Base(c) <= Base(c)'
      BY <1>2, <1>5, <1>6, <2>1, <2>4
    <3>2. \A g \in Line(c) : g \in Line(c)' \/ g \in Early(c)' \/ g.seq <= Base(c)'
      <4>1. \A g \in Line(c) : g \in Line(c)' \/ (c = d /\ g = f)
        BY <1>1, <2>1
      <4>2. c = d => f.seq <= Base(c)'
        BY <1>1, <1>5, <1>6, <2>1, <2>4
      <4> QED BY <4>1, <4>2
    <3> QED BY <1>0, <1>6, <2>1, <2>2, <2>3, <3>1, <3>2, CoveredFrom
  <2>5. CASE c = d /\ Gappy(f)
    <3>1. Base(c)' = f.seq
      BY <1>5, <1>6, <2>1, <2>5
    <3>2. Covers(c, sub.gapped, Line(c), Heights(c), ring[c].seq, f.seq, {}, Declined(c))
      <4>1. NoneBehind(c)
        BY DEF Delivery, Behind
      <4> QED BY <1>1, <2>5, <4>1 DEF NoneBehind, Whole
    <3>3. /\ \A g \in Line(c) : g.seq \in Nat
          /\ \A n \in Heights(c) : n \in Nat
          /\ ring[c].seq \in Nat /\ f.seq <= f.seq
          /\ \A g \in Line(c) : g \in Line(c)' \/ g.seq <= f.seq
          /\ Declined(c) \subseteq Excused(c)'
      <4>1. /\ \A g \in Line(c) : g.seq \in Nat
            /\ \A n \in Heights(c) : n \in Nat
            /\ ring[c].seq \in Nat
        BY <1>0, <2>1, LineTypes
      <4>2. \A g \in Line(c) : g \in Line(c)' \/ g = f
        BY <1>1, <2>1
      <4>3. Declined(c) \subseteq Excused(c)'
        BY <1>6, <2>1 DEF Excused
      <4> QED BY <1>1, <4>1, <4>2, <4>3
    <3>4. /\ \A g \in Line(c) : g \in Line(c)' \/ g \in {} \/ g.seq <= f.seq
          /\ \A s \in Declined(c) : s \in Excused(c)' \/ s <= f.seq
          /\ Heights(c)' \subseteq Heights(c) \union {0} /\ (c \in sub.gapped => c \in sub'.gapped)
      BY <1>6, <2>1, <3>3
    <3>5. Covers(c, sub'.gapped, Line(c)', Heights(c)', ring[c].seq, f.seq, {}, Excused(c)')
      BY <1>1, <3>2, <3>3, <3>4, CoversStill
    <3>6. Whole(c, Base(c), Early(c), Excused(c))'
      BY <1>6, <2>1, <2>3, <3>1, <3>5 DEF Whole
    <3> QED BY <2>3, <3>6 DEF Covered, Packed
  <2> QED BY <2>4, <2>5
<1>9. Freshness'
  BY <1>1, <1>2 DEF Freshness
<1>10. Keeping'
  BY KeepingTaken
<1>11. Subscribed'
  BY <1>2 DEF Delivery, Subscribed
<1> QED BY <1>7, <1>8, <1>9, <1>10, <1>11 DEF Delivery

\* A completion finds the connection's launch known and its request answered.
LEMMA DoneShape ==
  ASSUME TypeInv, Shape, ReadDone
  PROVE  /\ client.open /\ client.known /\ client.launch = launch /\ Asks(up) = {}
         /\ client'.open /\ client'.known /\ client'.launch = launch /\ ~client'.replaying /\ ~client'.recover
         /\ ~Buffering' /\ held' = NothingHeld /\ ~held'.overflow
         /\ \A c \in Channels : /\ Line(c)' = Line(c) /\ Early(c)' = {} /\ Early(c) = Buffered(c)
                                /\ Heights(c)' = Heights(c) /\ Declined(c)' = Declined(c)
                                /\ told'[c] \in Nat /\ cursor'[c].seq \in Nat
                                /\ Base(c) = cursor[c].seq /\ Base(c)' = cursor'[c].seq
         /\ UNCHANGED <<launch, ring, foreign, sub, queue, pump, up>>
<1>0. TypeOK
  BY DEF TypeInv
<1>1. /\ wire # <<>> /\ wire[1].type = "replay" /\ wire' = Tail(wire) /\ held' = NothingHeld
      /\ ~client'.replaying /\ ~client'.recover /\ client'.open = client.open /\ client'.known = client.known
      /\ client'.launch = client.launch /\ client'.watch = client.watch
      /\ \A c \in Channels : /\ cursor'[c] = Settled(c).cur /\ told'[c] = Settled(c).told
                             /\ Settled(c) \in ViewType
      /\ UNCHANGED <<launch, ring, foreign, sub, queue, pump, sending, up, opens>>
  BY <1>0, DoneFacts
<1>2. client.open /\ client.known /\ client.launch = launch
  BY <1>1 DEF Shape, Closed, Greeted, Greets
<1>3. Asks(up) = {}
  <2>1. 1 \in DOMAIN wire
    BY <1>0, <1>1, TypeFacts, TailFacts
  <2>2. Ended(wire)
    BY <1>1, <2>1 DEF Ended
  <2> QED BY <2>2 DEF Shape, Window
<1>4. ~Buffering' /\ \A c \in Channels : Line(c)' = Line(c) /\ Early(c)' = {} /\ Early(c) = Buffered(c)
  BY <1>0, <1>1, FramesSettled
<1>5. \A c \in Channels : Heights(c)' = Heights(c) /\ Declined(c)' = Declined(c)
  BY <1>1, <1>4 DEF Heights, Declined
<1>6. \A c \in Channels : told'[c] \in Nat /\ cursor'[c].seq \in Nat
  BY <1>1 DEF ViewType
<1>7. \A c \in Channels : Base(c) = cursor[c].seq /\ Base(c)' = cursor'[c].seq
  BY <1>1, <1>2 DEF Base
<1>8. ~held'.overflow
  BY <1>1, BlankFields
<1> QED BY <1>1, <1>2, <1>3, <1>4, <1>5, <1>6, <1>7, <1>8

\* What a completion does to a channel, if no recovery follows: an overflown buffer is
\* told, another one is drained.
LEMMA SettledWell ==
  ASSUME TypeInv, Shape, Delivery, ReadDone, ~client.recover, NEW c \in Channels
  PROVE  /\ cursor[c].seq <= cursor'[c].seq /\ told[c] <= told'[c] /\ got[c] \subseteq got'[c]
         /\ \A g \in Early(c) : g.seq <= cursor'[c].seq
         /\ held.overflow => held.heads[c] <= cursor'[c].seq /\ cursor'[c].seq <= told'[c]
         /\ ~held.overflow =>
               /\ cursor'[c].seq \in {cursor[c].seq} \union {f.seq : f \in Early(c)}
               /\ \A f \in Early(c) : Gappy(f) => f.seq <= told'[c]
               /\ \A f \in Early(c) : f.kind = "event" =>
                     \/ f.seq \in got'[c] \/ f.seq <= told'[c]
                     \/ \E g \in Early(c) : g.kind = "mark" /\ g.seq = f.seq
<1>0. TypeOK
  BY DEF TypeInv
<1>1. /\ client.open /\ client.known /\ client.launch = launch
      /\ Early(c) = Buffered(c) /\ Base(c) = cursor[c].seq
  BY DoneShape
<1>2. /\ cursor'[c] = Settled(c).cur /\ got'[c] = Settled(c).got /\ told'[c] = Settled(c).told
      /\ Settled(c) = IF held.overflow THEN Recovered(c) ELSE Drained(c)
  BY <1>0, DoneFacts, SettledFacts
<1>3. Current
  BY <1>1 DEF Current
<1>4. cursor[c].seq \in Nat /\ held.heads[c] \in Nat /\ told[c] \in Nat /\ held.frames \in Seq(Frames)
      /\ View(c) \in ViewType
  <2>1. cursor[c].seq \in Nat /\ held.heads[c] \in Nat /\ told[c] \in Nat
    BY <1>0, ChannelTypes
  <2>2. held.frames \in Seq(Frames)
    BY <1>0 DEF TypeOK
  <2> QED BY <1>0, <2>1, <2>2, ViewsAreTyped
<1>5. CASE held.overflow
  <2>1. Buffering /\ held.frames = <<>>
    BY <1>5, BlankFields DEF Shape, Holding
  <2>2. Early(c) = {}
    BY <1>1, <2>1, NothingBuffered
  <2>3. held.heads[c] # 0 => held.heads[c] > cursor[c].seq
    BY <1>1, <1>3, <2>1 DEF Delivery, Freshness, Fresh
  <2>4. /\ Newest(c) \in Nat
        /\ cursor'[c].seq = Newest(c) /\ got'[c] = got[c] /\ told'[c] >= Newest(c) /\ told'[c] >= told[c]
        /\ told'[c] \in Nat
    <3>1. /\ Newest(c) \in Nat /\ Recovered(c).cur.seq = Newest(c) /\ Recovered(c).got = got[c]
          /\ Recovered(c).told >= Newest(c) /\ Recovered(c).told >= told[c] /\ Recovered(c) \in ViewType
      BY <1>0, RecoveredFacts
    <3>2. Recovered(c).told \in Nat
      BY <3>1 DEF ViewType
    <3> QED BY <1>2, <1>5, <3>1, <3>2
  <2>5. held.heads[c] <= Newest(c) /\ cursor[c].seq <= Newest(c)
    BY <1>4, <2>3 DEF Newest
  <2> QED BY <1>4, <1>5, <2>2, <2>4, <2>5
<1>6. CASE ~held.overflow
  <2>1. \A f \in Buffered(c) : f.seq > cursor[c].seq
    <3>1. CASE Buffering
      <4>1. Fresh(c)
        BY <1>3, <3>1 DEF Delivery, Freshness
      <4> QED BY <1>1, <4>1 DEF Fresh
    <3>2. CASE ~Buffering
      <4>1. held.frames = <<>>
        BY <3>2, BlankFields DEF Shape, Holding
      <4> QED BY <4>1, NothingBuffered
    <3> QED BY <3>1, <3>2
  <2>2. /\ Drained(c) \in ViewType /\ got[c] \subseteq Drained(c).got /\ Drained(c).told >= told[c]
        /\ Drained(c).cur.seq \in {cursor[c].seq} \union {f.seq : f \in Buffered(c)}
        /\ \A f \in Buffered(c) : Gappy(f) => Drained(c).told >= f.seq
        /\ (\A f \in Buffered(c) : f.seq > cursor[c].seq) =>
              /\ \A f \in Buffered(c) : f.seq <= Drained(c).cur.seq
              /\ cursor[c].seq <= Drained(c).cur.seq
              /\ \A f \in Buffered(c) : f.kind = "event" =>
                    \/ f.seq \in Drained(c).got \/ f.seq <= Drained(c).told
                    \/ \E g \in Buffered(c) : g.kind = "mark" /\ g.seq = f.seq
    BY <1>4, DrainedFacts
  <2>3. /\ got[c] \subseteq got'[c] /\ told'[c] >= told[c]
        /\ cursor'[c].seq \in {cursor[c].seq} \union {f.seq : f \in Early(c)}
        /\ \A f \in Early(c) : Gappy(f) => told'[c] >= f.seq
        /\ \A f \in Early(c) : f.seq <= cursor'[c].seq
        /\ cursor[c].seq <= cursor'[c].seq
        /\ \A f \in Early(c) : f.kind = "event" =>
              \/ f.seq \in got'[c] \/ f.seq <= told'[c]
              \/ \E g \in Early(c) : g.kind = "mark" /\ g.seq = f.seq
    BY <1>1, <1>2, <1>6, <2>1, <2>2
  <2>4. told'[c] \in Nat /\ \A f \in Early(c) : f.seq \in Nat
    BY <1>0, <1>2, <1>6, <2>2, LineTypes DEF ViewType
  <2> QED BY <1>4, <1>6, <2>3, <2>4
<1> QED BY <1>5, <1>6

\* The cursors that a completion leaves have passed nothing in silence.
LEMMA KeepingDone ==
  ASSUME TypeInv, TypeInv', Shape, Bounds, Bounds', Order, Delivery, ReadDone
  PROVE  Keeping'
<1>0. TypeOK
  BY DEF TypeInv
<1>1. /\ client.open /\ client.known /\ client.launch = launch /\ Asks(up) = {} /\ client'.launch = launch
      /\ \A c \in Channels : /\ Declined(c)' = Declined(c) /\ Base(c) = cursor[c].seq
                             /\ told'[c] \in Nat /\ cursor'[c].seq \in Nat
      /\ UNCHANGED <<launch, ring>>
  BY DoneShape
<1>2. \A c \in Channels : cursor[c].seq \in Nat /\ told[c] \in Nat /\ ring[c].seq \in Nat
  BY <1>0, ChannelTypes
<1>d. Deep \subseteq Channels /\ LatestOnly \subseteq Channels /\ \A c \in LatestOnly : c \notin Narrow
  BY ChannelsAssumption DEF Deep
<1>3. \A c \in Channels : cursor'[c].seq <= told'[c] => Kept(c)' /\ LatestKept(c)'
  <2> SUFFICES ASSUME NEW c \in Channels, cursor'[c].seq <= told'[c] PROVE Kept(c)' /\ LatestKept(c)'
    OBVIOUS
  <2>1. cursor'[c].seq \in Nat /\ told'[c] \in Nat
    BY <1>1
  <2> QED BY <2>1 DEF Kept, LatestKept
<1>4. CASE client.recover
  <2>1. ASSUME NEW c \in Channels PROVE cursor'[c].seq <= told'[c]
    <3>1. told'[c] >= ring[c].seq
      BY <1>0, <1>4, DoneFacts, SettledFacts
    <3>2. cursor'[c].seq <= ring[c].seq
      BY <1>1 DEF Bounds, Reached
    <3> QED BY <1>1, <1>2, <3>1, <3>2
  <2> QED BY <1>3, <1>d, <2>1 DEF Keeping
<1>5. CASE ~client.recover /\ held.overflow
  <2>1. \A c \in Channels : cursor'[c].seq <= told'[c]
    BY <1>5, SettledWell
  <2> QED BY <1>3, <1>d, <2>1 DEF Keeping
<1>6. CASE ~client.recover /\ ~held.overflow
  <2>1. ASSUME NEW c \in Channels
        PROVE  /\ cursor[c].seq <= cursor'[c].seq /\ told[c] <= told'[c] /\ got[c] \subseteq got'[c]
               /\ cursor'[c].seq \in {cursor[c].seq} \union {f.seq : f \in Early(c)}
               /\ \A f \in Early(c) : Gappy(f) => f.seq <= told'[c]
               /\ \A f \in Early(c) : f.kind = "event" =>
                     \/ f.seq \in got'[c] \/ f.seq <= told'[c]
                     \/ \E g \in Early(c) : g.kind = "mark" /\ g.seq = f.seq
    BY <1>6, SettledWell
  <2>2. ASSUME NEW c \in Channels, NEW f \in Early(c)
        PROVE  f.seq \in got'[c] \union Declined(c) \/ f.seq <= told'[c]
    <3>1. \A g \in Early(c) : g.kind = "mark" => g.seq \in Declined(c)
      BY DEF Bounds, Marked
    <3>2. f.kind \in {"event", "mark"} \/ Gappy(f)
      <4>1. f \in Frames
        BY <1>0, LineTypes
      <4> QED BY <4>1 DEF Frames, Gappy
    <3> QED BY <2>1, <3>1, <3>2
  <2>3. ASSUME NEW c \in Deep PROVE Kept(c)'
    <3> SUFFICES ASSUME NEW s \in 1 .. cursor'[c].seq
                 PROVE  s \in got'[c] \union Declined(c)' \/ s <= told'[c]
      BY DEF Kept
    <3>1. c \in Channels /\ s \in Nat /\ s >= 1 /\ s <= cursor'[c].seq
      BY <1>1, <1>d
    <3>2. /\ cursor[c].seq \in Nat /\ told[c] \in Nat /\ cursor'[c].seq \in Nat /\ told'[c] \in Nat
          /\ Declined(c)' = Declined(c)
      BY <1>1, <1>2, <3>1
    <3>3. CASE s <= cursor[c].seq
      <4>1. s \in 1 .. cursor[c].seq
        BY <3>1, <3>2, <3>3
      <4>2. Kept(c)
        BY <1>1, <1>6 DEF Delivery, Keeping
      <4>3. s \in got[c] \union Declined(c) \/ s <= told[c]
        BY <4>1, <4>2 DEF Kept
      <4> QED BY <2>1, <3>1, <3>2, <4>3
    <3>4. CASE s > cursor[c].seq
      <4>1. PICK h \in Early(c) : cursor'[c].seq = h.seq
        BY <2>1, <3>1, <3>2, <3>4
      <4>2. CASE Gappy(h)
        <5>1. h.seq <= told'[c]
          BY <2>1, <3>1, <4>2
        <5> QED BY <3>1, <3>2, <4>1, <5>1
      <4>3. CASE s = h.seq
        BY <2>2, <3>1, <3>2, <4>3
      <4>4. CASE ~Gappy(h) /\ s # h.seq
        <5>1. Tracked
          BY <1>1, <1>6 DEF Tracked, Current
        <5>2. Packed(cursor[c].seq, Early(c), Excused(c))
          BY <1>1, <3>1, <5>1 DEF Delivery, Tracking, Covered
        <5>3. s \in cursor[c].seq + 1 .. h.seq - 1
          BY <3>1, <3>2, <3>4, <4>1, <4>4
        <5>4. s \in Excused(c) \/ \E g \in Early(c) : Cov(g, s)
          BY <4>4, <5>2, <5>3 DEF Packed
        <5>5. CASE s \in Excused(c)
          <6>1. s \in Declined(c) \/ s <= told[c]
            BY <1>6, <5>5 DEF Excused
          <6>2. told[c] <= told'[c]
            BY <2>1, <3>1
          <6> QED BY <3>1, <3>2, <6>1, <6>2
        <5>6. ASSUME NEW g \in Early(c), Cov(g, s)
              PROVE  s \in got'[c] \union Declined(c)' \/ s <= told'[c]
          <6>1. CASE g.seq = s
            BY <2>2, <3>1, <3>2, <6>1
          <6>2. CASE Gappy(g) /\ g.seq > s
            <7>1. g.seq <= told'[c] /\ g.seq \in Nat
              BY <1>0, <2>1, <3>1, <6>2, LineTypes
            <7> QED BY <3>1, <3>2, <6>2, <7>1
          <6> QED BY <5>6, <6>1, <6>2 DEF Cov
        <5> QED BY <5>4, <5>5, <5>6
      <4> QED BY <4>2, <4>3, <4>4
    <3> QED BY <3>1, <3>2, <3>3, <3>4
  <2>4. ASSUME NEW c \in LatestOnly PROVE LatestKept(c)'
    <3>1. c \in Channels /\ c \notin Narrow /\ LatestKept(c)
      BY <1>1, <1>6, <1>d DEF Delivery, Keeping
    <3>2. /\ cursor'[c].seq \in {cursor[c].seq} \union {f.seq : f \in Early(c)}
          /\ told[c] <= told'[c] /\ got[c] \subseteq got'[c] /\ told[c] \in Nat /\ told'[c] \in Nat
          /\ cursor[c].seq \in Nat
      BY <1>1, <1>2, <2>1, <3>1
    <3>3. CASE cursor'[c].seq = cursor[c].seq
      BY <3>1, <3>2, <3>3 DEF LatestKept
    <3>4. ASSUME NEW h \in Early(c), cursor'[c].seq = h.seq
          PROVE  LatestKept(c)'
      <4>1. Declined(c) = {}
        BY <3>1 DEF Declined, Order, Scoped
      <4>2. h.seq \in got'[c] \/ h.seq <= told'[c]
        BY <2>2, <3>1, <4>1
      <4> QED BY <3>4, <4>2 DEF LatestKept
    <3> QED BY <3>2, <3>3, <3>4
  <2> QED BY <2>3, <2>4 DEF Keeping
<1> QED BY <1>4, <1>5, <1>6

\* A replay completes: all that was early has been passed, or is told.
LEMMA DeliveryDone ==
  ASSUME TypeInv, TypeInv', Shape, Bounds, Bounds', Order, Delivery, ReadDone
  PROVE  Delivery'
<1>0. TypeOK /\ TypeOK'
  BY DEF TypeInv
<1>d. \A c \in Deep : c \in Channels
  BY DEF Deep
<1>1. /\ client.open /\ client.known /\ client.launch = launch /\ Asks(up) = {}
      /\ client'.open /\ client'.known /\ client'.launch = launch /\ ~client'.replaying /\ ~client'.recover
      /\ ~Buffering' /\ ~held'.overflow
      /\ \A c \in Channels : /\ Line(c)' = Line(c) /\ Early(c)' = {}
                             /\ Heights(c)' = Heights(c) /\ Declined(c)' = Declined(c)
                             /\ told'[c] \in Nat /\ cursor'[c].seq \in Nat
                             /\ Base(c) = cursor[c].seq /\ Base(c)' = cursor'[c].seq
      /\ UNCHANGED <<launch, ring, foreign, sub, queue, pump, up>>
  BY DoneShape
<1>2. Behind'
  <2> SUFFICES ASSUME NEW c \in Deep PROVE NoneBehind(c)'
    BY DEF Behind
  <2>1. c \in Channels /\ NoneBehind(c)
    BY <1>d DEF Delivery, Behind
  <2>2. Line(c)' = Line(c) /\ Heights(c)' = Heights(c) /\ Declined(c)' = Declined(c) /\ ring' = ring /\ sub' = sub
    BY <1>1, <2>1
  <2> QED BY <2>1, <2>2 DEF NoneBehind, Whole
<1>3. Tracking'
  <2> SUFFICES ASSUME NEW c \in Deep PROVE Covered(c)'
    BY DEF Tracking
  <2>1. /\ c \in Channels /\ Early(c)' = {} /\ Base(c) = cursor[c].seq /\ Base(c)' = cursor'[c].seq
        /\ cursor[c].seq \in Nat /\ cursor'[c].seq \in Nat /\ ring[c].seq \in Nat /\ told'[c] \in Nat
        /\ told[c] \in Nat /\ held.heads[c] \in Nat
        /\ Heights(c)' = Heights(c) /\ Line(c)' = Line(c) /\ Declined(c)' = Declined(c)
    BY <1>0, <1>1, <1>d, ChannelTypes
  <2>2. CASE client.recover
    <3>1. told'[c] >= ring[c].seq
      BY <1>0, <2>1, <2>2, DoneFacts, SettledFacts
    <3>2. \A s \in cursor'[c].seq + 1 .. ring[c].seq : s \in Excused(c)'
      BY <2>1, <3>1 DEF Excused
    <3>3. \A n \in Heights(c) : n \in Nat /\ n <= ring[c].seq
      BY <1>0, <2>1, LineTypes
    <3>4. /\ \A f \in {} : f.seq \in Nat /\ f.seq <= ring[c].seq
          /\ \A s \in cursor'[c].seq + 1 .. ring[c].seq : s \in Excused(c)' \/ \E g \in {} : Cov(g, s)
      BY <3>2
    <3>5. /\ Covers(c, sub.gapped, Line(c), Heights(c), ring[c].seq, cursor'[c].seq, {}, Excused(c)')
          /\ Packed(cursor'[c].seq, {}, Excused(c)')
      BY <2>1, <3>3, <3>4, CoversAll
    <3> QED BY <1>1, <2>1, <3>5 DEF Covered, Whole
  <2>3. CASE ~client.recover
    <3>1. Tracked
      BY <1>1, <2>3 DEF Tracked, Current
    <3>2. Covered(c)
      BY <3>1 DEF Delivery, Tracking
    <3>3. /\ cursor[c].seq <= cursor'[c].seq /\ told[c] <= told'[c]
          /\ \A g \in Early(c) : g.seq <= cursor'[c].seq
          /\ held.overflow => held.heads[c] <= cursor'[c].seq
      BY <2>1, <2>3, SettledWell
    <3>4. \A s \in Excused(c) : s \in Excused(c)' \/ s <= Base(c)'
      <4> SUFFICES ASSUME NEW s \in Excused(c) PROVE s \in Excused(c)' \/ s <= cursor'[c].seq
        BY <2>1
      <4>1. \/ s \in Declined(c)
            \/ s \in Nat /\ s <= told[c]
            \/ s \in Nat /\ held.overflow /\ s <= held.heads[c]
        BY DEF Excused
      <4>2. CASE s \in Declined(c)
        BY <2>1, <4>2 DEF Excused
      <4>3. CASE s \in Nat /\ s <= told[c]
        <5>1. s <= told'[c]
          BY <2>1, <3>3, <4>3
        <5> QED BY <4>3, <5>1 DEF Excused
      <4>4. CASE s \in Nat /\ held.overflow /\ s <= held.heads[c]
        BY <2>1, <3>3, <4>4
      <4> QED BY <4>1, <4>2, <4>3, <4>4
    <3>5. /\ Base(c) \in Nat /\ Base(c)' \in Nat /\ Base(c) <= Base(c)'
          /\ ring'[c].seq = ring[c].seq /\ (c \in sub.gapped => c \in sub'.gapped)
          /\ Heights(c)' \subseteq Heights(c) \union {0}
      BY <1>1, <2>1, <3>3
    <3>6. \A g \in Line(c) : g \in Line(c)' \/ g \in Early(c)' \/ g.seq <= Base(c)'
      BY <2>1
    <3>7. \A g \in Early(c) : \/ g \in Early(c)' \/ g.seq <= Base(c)'
                              \/ \A s \in Nat : s <= g.seq => s \in Excused(c)'
      BY <2>1, <3>3
    <3>8. \A f \in Early(c)' : f \in Early(c) \/ Gappy(f)
             \/ \A s \in Base(c)' + 1 .. f.seq - 1 : s \in Excused(c)' \/ \E g \in Early(c)' : Cov(g, s)
      BY <2>1
    <3> QED BY <1>0, <2>1, <3>2, <3>4, <3>5, <3>6, <3>7, <3>8, CoveredFrom
  <2> QED BY <2>2, <2>3
<1>4. Freshness'
  <2>1. ~Buffering' /\ Asks(up') = {}
    BY <1>1
  <2> QED BY <2>1 DEF Freshness
<1>5. Keeping'
  BY KeepingDone
<1>6. Subscribed'
  BY <1>1 DEF Delivery, Subscribed
<1> QED BY <1>2, <1>3, <1>4, <1>5, <1>6 DEF Delivery

\* At first there is no connection, and nothing was passed.
LEMMA DeliveryInit == Init => Delivery
<1> SUFFICES ASSUME Init PROVE Delivery
  OBVIOUS
<1>1. /\ ~client.open /\ client.launch = 0 /\ launch = 1 /\ queue = <<>> /\ wire = <<>> /\ up = <<>>
  BY DEF Init
<1>2. \A c : Line(c) = {}
  <2>1. Range(<<>>) = {} /\ \A buf : Flying(<<>>, buf) = {}
    BY OnNothing
  <2> QED BY <1>1, <2>1 DEF Line
<1>3. Behind
  BY <1>2 DEF Behind, NoneBehind
<1>4. Tracking /\ Freshness /\ Keeping /\ Subscribed
  BY <1>1 DEF Tracking, Tracked, Current, Freshness, Keeping, Subscribed
<1> QED BY <1>3, <1>4 DEF Delivery

\* Every step keeps track of every frame.
LEMMA DeliveryStep ==
  TypeInv /\ TypeInv' /\ Shape /\ Blank /\ Bounds /\ Bounds' /\ Order /\ Delivery /\ [Next]_vars => Delivery'
<1> SUFFICES ASSUME TypeInv, TypeInv', Shape, Blank, Bounds, Bounds', Order, Delivery, [Next]_vars
             PROVE  Delivery'
  OBVIOUS
<1>1. ASSUME NEW c \in Channels, NEW away \in BOOLEAN, Emit(c, away) PROVE Delivery'
  BY <1>1, DeliveryEmit
<1>2. ASSUME NEW c \in Channels, Release(c) PROVE Delivery'
  BY <1>2, DeliveryAside
<1>3. CASE PumpNext
  BY <1>3, DeliveryPump
<1>4. CASE ReadWatch \/ WriteDone \/ \E c \in Channels : WriteReplay(c)
  BY <1>4, DeliveryLoop
<1>5. CASE ReadReplay
  BY <1>5, DeliveryReplay
<1>6. CASE ReadHello
  BY <1>6, DeliveryHello
<1>7. CASE ReadFrame
  BY <1>7, DeliveryHeld, DeliveryTaken
<1>8. CASE ReadDone
  BY <1>8, DeliveryDone
<1>9. CASE Watch \/ UNCHANGED vars
  BY <1>9, DeliveryAside
<1>10. CASE Open \/ Disconnect \/ Relaunch
  BY <1>10, DeliveryOutages
<1> QED
  BY <1>1, <1>2, <1>3, <1>4, <1>5, <1>6, <1>7, <1>8, <1>9, <1>10 DEF Next, BusNext, LoopNext, ClientReads

\* The inductive invariant of the delivery.
DeliveryInv == BoundsInv /\ Blank /\ Order /\ Delivery

\* It is invariant.
LEMMA DeliveryInvariant == Spec => []DeliveryInv
<1>1. Init => Blank /\ Dispatching /\ Order /\ Delivery
  BY DispatchingInit, OrderInit, DeliveryInit
<1>2. /\ BoundsInv /\ BoundsInv' /\ Blank /\ Dispatching /\ Order /\ Delivery /\ [Next]_vars
         => Blank' /\ Dispatching' /\ Order' /\ Delivery'
  BY DispatchingStep, OrderStep, DeliveryStep DEF BoundsInv, ShapeInv
<1> QED BY <1>1, <1>2, BoundsInvariant, PTL DEF Spec, DeliveryInv

\* A cursor never passes a frame in silence: a whole state is superseded by the frame
\* that the cursor is at.
THEOREM CursorsSkipNothing == Spec => []NoSilentLoss
<1>1. DeliveryInv => NoSilentLoss
  <2> SUFFICES ASSUME DeliveryInv, client.launch = launch, ~client.recover,
                      NEW c \in Channels, NEW s \in 1 .. cursor[c].seq
               PROVE  \/ s \in got[c] \union Declined(c)
                      \/ s <= told[c]
                      \/ c \in LatestOnly /\ \E later \in got[c] : s < later
    BY DEF NoSilentLoss
  <2>1. Keeping
    BY DEF DeliveryInv, Delivery
  <2>2. cursor[c].seq \in Nat /\ told[c] \in Nat
    BY ChannelTypes DEF DeliveryInv, BoundsInv, ShapeInv, TypeInv
  <2>3. CASE c \in LatestOnly
    <3>1. cursor[c].seq = 0 \/ cursor[c].seq \in got[c] \/ cursor[c].seq <= told[c]
      BY <2>1, <2>3 DEF Keeping, LatestKept
    <3> QED BY <2>2, <2>3, <3>1
  <2>4. CASE c \notin LatestOnly
    BY <2>1, <2>4 DEF Keeping, Deep, Kept
  <2> QED BY <2>3, <2>4
<1> QED BY <1>1, DeliveryInvariant, PTL

\* Above the cursor of a settled connection every frame is accounted for: nothing is
\* early any more, and what flies or is queued is carried.
THEOREM NoFrameVanishes == Spec => []NothingVanishes
<1>1. DeliveryInv => NothingVanishes
  <2> SUFFICES ASSUME DeliveryInv, client.open, client.known, client.launch = launch, ~client.replaying,
                      NEW c \in Channels \ LatestOnly, NEW s \in cursor[c].seq + 1 .. ring[c].seq
               PROVE  \/ s \in Declined(c) \/ c \in sub.gapped \/ s <= told[c]
                      \/ \E f \in Carried(c) : /\ f.channel = c
                                               /\ \/ f.seq = s
                                                  \/ f.seq > s /\ f.kind \in {"gap", "stamped"}
    BY DEF NothingVanishes
  <2>1. TypeOK /\ Shape /\ Delivery /\ c \in Deep
    BY DEF DeliveryInv, BoundsInv, ShapeInv, TypeInv, Deep
  <2>2. ~Buffering /\ ~client.recover /\ Asks(up) = {}
    BY <2>1 DEF Shape, Known, Window, Buffering
  <2>3. Early(c) = {} /\ ~held.overflow
    BY <2>1, <2>2, NoneEarly
  <2>4. Whole(c, cursor[c].seq, Early(c), Excused(c))
    <3>1. Tracked
      BY <2>2 DEF Tracked, Current
    <3> QED BY <2>1, <3>1 DEF Delivery, Tracking, Covered, Base
  <2>5. c \in sub.gapped \/ s \in Excused(c) \/ \E f \in Line(c) : Cov(f, s)
    BY <2>3, <2>4 DEF Whole, Covers
  <2>6. CASE s \in Excused(c)
    BY <2>3, <2>6 DEF Excused
  <2>7. ASSUME NEW f \in Line(c), Cov(f, s)
        PROVE  \E g \in Carried(c) : g.channel = c /\ (g.seq = s \/ (g.seq > s /\ g.kind \in {"gap", "stamped"}))
    <3>1. f.channel = c /\ (f \in Range(queue) \/ f \in Flying(wire, Buffering))
      BY DEF Line
    <3>2. f \in Carried(c)
      BY <3>1 DEF Carried, Range, Flying, Live
    <3> QED BY <2>7, <3>1, <3>2 DEF Cov, Gappy
  <2> QED BY <2>5, <2>6, <2>7
<1> QED BY <1>1, DeliveryInvariant, PTL

===============================================================================
