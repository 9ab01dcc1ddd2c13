--------------------------- MODULE KeyedLockProofs ---------------------------
(***************************************************************************)
(* Proofs about KeyedLock, for any finite set of callers and any sets of   *)
(* keys and entries.  Mutual exclusion rests on the callers of a key       *)
(* agreeing on its entry, which they do because an entry stays in the      *)
(* registry while its count, which is the number of its referents, is not  *)
(* zero.                                                                   *)
(***************************************************************************)
EXTENDS KeyedLock, FiniteSetTheorems, TLAPS

\* The count of an entry is the number of callers that hold or wait for it.
Counted == \A e \in Entries : refs[e] = Cardinality(Referents(e))

\* A caller's entry is the one its key has in the registry.
Located == \A c \in Callers : pc[c] \in Referring => ref[c] \in Entries /\ locks[key[c]] = ref[c]

\* No two keys share an entry, and every entry has a referent.
Apart == \A k, l \in Keys : locks[k] = locks[l] /\ locks[k] # NoEntry => k = l
Used == \A k \in Keys : locks[k] # NoEntry => Referents(locks[k]) # {}

\* An entry has one token.
OneToken ==
    \A c \in Callers : pc[c] \in WithToken =>
        /\ sem[ref[c]]
        /\ \A d \in Callers : pc[d] \in WithToken /\ ref[d] = ref[c] => d = c

IInv == TypeOK /\ Counted /\ Located /\ Apart /\ Used /\ OneToken

-----------------------------------------------------------------------------

LEMMA InitIInv == Init => IInv
<1> SUFFICES ASSUME Init PROVE IInv
  OBVIOUS
<1>1. TypeOK
  BY DEF Init, TypeOK, Referring
<1>2. \A e : Referents(e) = {}
  BY DEF Init, Referents, Referring
<1>3. Counted
  BY <1>2, FS_EmptySet DEF Init, Counted
<1>4. Located /\ Apart /\ Used /\ OneToken
  BY DEF Init, Located, Apart, Used, OneToken, Referring, WithToken
<1> QED BY <1>1, <1>3, <1>4 DEF IInv

\* Referents are finitely many.
LEMMA Finite == ASSUME NEW e PROVE IsFiniteSet(Referents(e))
BY CallersAssumption, FS_Subset DEF Referents

\* A call adds its caller to the referents of one entry, which its key has then.
LEMMA CallStep ==
    ASSUME IInv, NEW c \in Callers, NEW k \in Keys, Call(c, k) PROVE IInv'
<1> USE DEF IInv
<1>1. c \notin UNION {Referents(e) : e \in Entries}
  BY DEF Call, Referents, Referring
<1>2. PICK e \in Entries : /\ ref' = [ref EXCEPT ![c] = e]
                           /\ locks'[k] = e
                           /\ \A l \in Keys \ {k} : locks'[l] = locks[l] /\ locks[l] # e
                           /\ locks' \in [Keys -> Entries \union {NoEntry}]
                           /\ refs' = [refs EXCEPT ![e] = Cardinality(Referents(e)) + 1]
                           /\ sem' \in [Entries -> BOOLEAN]
                           /\ \A f \in Entries \ {e} : sem'[f] = sem[f]
                           /\ Referents(e) # {} => sem' = sem /\ locks' = locks
  <2>1. CASE locks[k] # NoEntry
    BY <2>1 DEF Call, Reference, TypeOK, Counted, Apart
  <2>2. CASE locks[k] = NoEntry
    <3>1. PICK e \in Free : /\ locks' = [locks EXCEPT ![k] = e]
                            /\ refs' = [refs EXCEPT ![e] = 1] /\ sem' = [sem EXCEPT ![e] = FALSE]
                            /\ ref' = [ref EXCEPT ![c] = e]
      BY <2>2 DEF Call, Reference
    <3>2. e \in Entries /\ Referents(e) = {} /\ \A l \in Keys : locks[l] # e
      BY DEF Free
    <3>3. Cardinality(Referents(e)) + 1 = 1
      BY <3>2, FS_EmptySet
    <3> QED BY <3>1, <3>2, <3>3 DEF TypeOK
  <2> QED BY <2>1, <2>2
<1>3. /\ pc' = [pc EXCEPT ![c] = "waiting"] /\ key' = [key EXCEPT ![c] = k]
      /\ done' = [done EXCEPT ![c] = FALSE] /\ spent' = spent /\ pc[c] = "idle"
  BY DEF Call
<1>4. Referents(e)' = Referents(e) \union {c}
  BY <1>1, <1>2, <1>3 DEF Referents, Referring, TypeOK
<1>5. \A f \in Entries \ {e} : Referents(f)' = Referents(f)
  BY <1>1, <1>2, <1>3 DEF Referents, Referring, TypeOK
<1>6. Counted'
  <2>1. Cardinality(Referents(e) \union {c}) = Cardinality(Referents(e)) + 1
    BY <1>1, Finite, FS_AddElement
  <2> SUFFICES ASSUME NEW f \in Entries PROVE refs'[f] = Cardinality(Referents(f)')
    BY DEF Counted
  <2>2. CASE f = e
    BY <2>1, <2>2, <1>2, <1>4 DEF TypeOK
  <2>3. CASE f # e
    BY <2>3, <1>2, <1>5 DEF Counted, TypeOK
  <2> QED BY <2>2, <2>3
<1>7. TypeOK'
  <2>1. Cardinality(Referents(e)) + 1 \in Nat
    BY Finite, FS_CardinalityType
  <2> QED BY <1>2, <1>3, <2>1 DEF TypeOK, Referring
<1>8. Located'
  <2> SUFFICES ASSUME NEW d \in Callers, pc'[d] \in Referring
               PROVE ref'[d] \in Entries /\ locks'[key'[d]] = ref'[d]
    BY DEF Located
  <2>1. CASE d = c
    BY <2>1, <1>2, <1>3 DEF TypeOK
  <2>2. CASE d # c
    <3>1. ref[d] \in Entries /\ locks[key[d]] = ref[d] /\ ref'[d] = ref[d] /\ key'[d] = key[d]
      BY <2>2, <1>2, <1>3 DEF Located, TypeOK
    <3>2. CASE key[d] = k
      <4>1. locks[k] = ref[d]
        BY <3>1, <3>2
      <4>2. d \in Referents(ref[d])
        BY <2>2, <1>3 DEF Referents, TypeOK
      <4>3. locks'[k] = locks[k]
        <5>1. CASE locks[k] = e
          BY <5>1, <1>2
        <5>2. CASE locks[k] # e
          BY <5>2, <4>1, <3>1, EntriesAssumption DEF Call, Reference, TypeOK
        <5> QED BY <5>1, <5>2
      <4> QED BY <3>1, <3>2, <4>1, <4>3
    <3>3. CASE key[d] # k
      BY <3>1, <3>3, <1>2 DEF TypeOK
    <3> QED BY <3>2, <3>3
  <2> QED BY <2>1, <2>2
<1>9. Apart'
  BY <1>2 DEF Apart, TypeOK
<1>10. Used'
  <2> SUFFICES ASSUME NEW l \in Keys, locks'[l] # NoEntry
               PROVE  \E d \in Callers : pc'[d] \in Referring /\ ref'[d] = locks'[l]
    BY DEF Used, Referents
  <2>1. CASE l = k
    BY <2>1, <1>2, <1>3 DEF Referring, TypeOK
  <2>2. CASE l # k
    <3>1. locks'[l] = locks[l] /\ locks[l] # e /\ locks[l] \in Entries
      BY <2>2, <1>2 DEF TypeOK
    <3>2. PICK d \in Referents(locks[l]) : TRUE
      BY <3>1 DEF Used
    <3>3. d \in Callers /\ pc[d] \in Referring /\ ref[d] = locks[l] /\ d # c
      BY <3>1, <3>2, <1>1, <1>3 DEF Referents, Referring
    <3> QED BY <3>1, <3>3, <1>2, <1>3 DEF TypeOK
  <2> QED BY <2>1, <2>2
<1>11. OneToken'
  <2> SUFFICES ASSUME NEW d \in Callers, pc'[d] \in WithToken
               PROVE /\ sem'[ref'[d]]
                     /\ \A b \in Callers : pc'[b] \in WithToken /\ ref'[b] = ref'[d] => b = d
    BY DEF OneToken
  <2>1. \A b \in Callers : pc'[b] \in WithToken => b # c /\ pc[b] \in WithToken /\ ref'[b] = ref[b]
    BY <1>2, <1>3 DEF WithToken, TypeOK
  <2>2. sem[ref[d]] /\ ref[d] \in Entries /\ d \in Referents(ref[d])
    BY <2>1 DEF OneToken, Located, Referents, WithToken, Referring
  <2>3. sem'[ref[d]]
    BY <2>2, <1>2
  <2> QED BY <2>1, <2>3 DEF OneToken
<1> QED BY <1>6, <1>7, <1>8, <1>9, <1>10, <1>11

\* The steps that touch neither the registry nor the counts.
Apace(c) ==
    Cancel(c) \/ Win(c) \/ Recheck(c) \/ Yield(c) \/ GiveUp(c) \/ Unlock(c) \/ UnlockAgain(c)

\* They keep the referents, and hand the token over one caller at a time.
LEMMA ApaceStep == ASSUME IInv, NEW c \in Callers, Apace(c) PROVE IInv'
<1> USE DEF IInv
<1>1. /\ TypeOK'
      /\ locks' = locks /\ refs' = refs /\ key' = key /\ ref' = ref
      /\ \A d \in Callers : pc'[d] \in Referring <=> pc[d] \in Referring
  <2> USE DEF TypeOK, Referring
  <2>1. CASE Cancel(c)
    BY <2>1 DEF Cancel
  <2>2. CASE Win(c)
    BY <2>2 DEF Win
  <2>3. CASE Recheck(c)
    BY <2>3 DEF Recheck
  <2>4. CASE Yield(c)
    BY <2>4 DEF Yield
  <2>5. CASE GiveUp(c)
    BY <2>5 DEF GiveUp
  <2>6. CASE Unlock(c)
    BY <2>6 DEF Unlock
  <2>7. CASE UnlockAgain(c)
    BY <2>7 DEF UnlockAgain
  <2> QED BY <2>1, <2>2, <2>3, <2>4, <2>5, <2>6, <2>7 DEF Apace
<1>2. \A e : Referents(e)' = Referents(e)
  BY <1>1 DEF Referents
<1>3. Counted' /\ Located' /\ Apart' /\ Used'
  BY <1>1, <1>2 DEF Counted, Located, Apart, Used
<1>4. OneToken'
  <2>1. CASE Win(c)
    <3>1. ref[c] \in Entries
      BY <2>1 DEF Win, Located, Referring
    <3>2. \A d \in Callers \ {c} : pc'[d] = pc[d]
      BY <2>1 DEF Win, TypeOK
    <3>3. \A d \in Callers \ {c} : pc[d] \in WithToken => ref[d] # ref[c]
      BY <2>1 DEF Win, OneToken
    <3>4. \A d \in Callers : pc'[d] \in WithToken => sem'[ref[d]]
      BY <2>1, <3>1, <3>2, <3>3 DEF Win, OneToken, TypeOK, Located
    <3> QED BY <1>1, <3>2, <3>3, <3>4 DEF OneToken
  <2>2. CASE Yield(c) \/ Unlock(c)
    <3>1. pc[c] \in WithToken
      BY <2>2 DEF Yield, Unlock, WithToken
    <3>2. /\ pc'[c] \notin WithToken /\ \A d \in Callers \ {c} : pc'[d] = pc[d]
          /\ \A d \in Callers : ref[d] \in Entries \ {ref[c]} => sem'[ref[d]] = sem[ref[d]]
      BY <2>2 DEF Yield, Unlock, WithToken, TypeOK
    <3>3. \A d \in Callers : pc[d] \in WithToken => ref[d] \in Entries
      BY DEF Located, WithToken, Referring
    <3> QED BY <1>1, <3>1, <3>2, <3>3 DEF OneToken
  <2>3. CASE Cancel(c) \/ Recheck(c) \/ GiveUp(c) \/ UnlockAgain(c)
    <3>1. sem' = sem /\ \A d \in Callers : pc'[d] \in WithToken => pc[d] \in WithToken
      BY <2>3 DEF Cancel, Recheck, GiveUp, UnlockAgain, WithToken, TypeOK
    <3> QED BY <1>1, <3>1 DEF OneToken
  <2> QED BY <2>1, <2>2, <2>3 DEF Apace
<1> QED BY <1>1, <1>3, <1>4

\* A caller that leaves takes itself off its entry, and the entry with it if it
\* was the last one.
LEMMA DropStep == ASSUME IInv, NEW c \in Callers, Drop(c) PROVE IInv'
<1> USE DEF IInv
<1> DEFINE e == ref[c]
<1>1. e \in Entries /\ locks[key[c]] = e /\ key[c] \in Keys /\ c \in Referents(e)
  BY DEF Drop, Located, Referring, TypeOK, Referents
<1>2. /\ refs' = [refs EXCEPT ![e] = @ - 1] /\ pc' = [pc EXCEPT ![c] = "idle"]
      /\ sem' = sem /\ key' = key /\ ref' = ref /\ done' = done /\ spent' = spent
      /\ pc[c] = "leaving"
  BY DEF Drop
<1>3. Referents(e)' = Referents(e) \ {c} /\ \A f \in Entries \ {e} : Referents(f)' = Referents(f)
  BY <1>2 DEF Referents, Referring, TypeOK
<1>4. /\ refs[e] - 1 = Cardinality(Referents(e) \ {c})
      /\ refs[e] - 1 \in Nat
      /\ (refs[e] = 1) <=> (Referents(e) \ {c} = {})
  <2>1. Cardinality(Referents(e) \ {c}) = Cardinality(Referents(e)) - 1 /\ IsFiniteSet(Referents(e) \ {c})
    BY <1>1, Finite, FS_RemoveElement
  <2>2. refs[e] = Cardinality(Referents(e)) /\ refs[e] \in Nat
    BY <1>1 DEF Counted, TypeOK
  <2>3. Cardinality(Referents(e) \ {c}) \in Nat
    BY <2>1, FS_CardinalityType
  <2>4. (Cardinality(Referents(e) \ {c}) = 0) <=> (Referents(e) \ {c} = {})
    BY <2>1, FS_EmptySet
  <2> QED BY <2>1, <2>2, <2>3, <2>4
<1>5. Counted'
  BY <1>1, <1>2, <1>3, <1>4 DEF Counted, TypeOK
<1>6. locks' \in [Keys -> Entries \union {NoEntry}]
  BY DEF Drop, TypeOK
<1>7. TypeOK'
  BY <1>1, <1>2, <1>4, <1>6 DEF TypeOK, Referring
<1>8. \A l \in Keys : \/ locks'[l] = locks[l] /\ (locks[l] = e => Referents(e)' # {})
                      \/ locks'[l] = NoEntry /\ locks[l] = e /\ Referents(e)' = {}
  BY <1>1, <1>3, <1>4, EntriesAssumption DEF Drop, Reclaimed, Apart, TypeOK
<1>9. Located'
  <2> SUFFICES ASSUME NEW d \in Callers, pc'[d] \in Referring
               PROVE ref'[d] \in Entries /\ locks'[key'[d]] = ref'[d]
    BY DEF Located
  <2>1. pc[d] \in Referring /\ d # c
    BY <1>2 DEF Referring, TypeOK
  <2>2. ref[d] \in Entries /\ locks[key[d]] = ref[d] /\ key[d] \in Keys
    BY <2>1 DEF Located, TypeOK
  <2>3. ref[d] = e => d \in Referents(e)'
    BY <2>1, <1>3 DEF Referents
  <2> QED BY <2>2, <2>3, <1>2, <1>8
<1>10. Apart'
  BY <1>8 DEF Apart
<1>11. Used'
  <2> SUFFICES ASSUME NEW l \in Keys, locks'[l] # NoEntry
               PROVE  \E d \in Callers : pc'[d] \in Referring /\ ref'[d] = locks'[l]
    BY DEF Used, Referents
  <2>1. locks'[l] = locks[l] /\ locks[l] \in Entries /\ (locks[l] = e => Referents(e) \ {c} # {})
    BY <1>3, <1>8 DEF TypeOK
  <2>2. Referents(locks[l]) \ {c} # {}
    BY <2>1 DEF Used, Referents
  <2>3. PICK d \in Callers \ {c} : pc[d] \in Referring /\ ref[d] = locks[l]
    BY <2>2 DEF Referents
  <2> QED BY <2>1, <2>3, <1>2 DEF TypeOK
<1>12. OneToken'
  <2>1. \A d \in Callers : pc'[d] \in WithToken => pc[d] \in WithToken
    BY <1>2 DEF WithToken, TypeOK
  <2> QED BY <2>1, <1>2 DEF OneToken
<1> QED BY <1>5, <1>7, <1>9, <1>10, <1>11, <1>12

LEMMA IInvStep == IInv /\ [Next]_vars => IInv'
<1> SUFFICES ASSUME IInv, [Next]_vars PROVE IInv'
  OBVIOUS
<1>1. CASE Next
  <2>1. PICK c \in Callers : Step(c)
    BY <1>1 DEF Next
  <2> QED BY <2>1, CallStep, ApaceStep, DropStep DEF Step, Apace
<1>2. CASE UNCHANGED vars
  BY <1>2 DEF vars, IInv, TypeOK, Counted, Located, Apart, Used, OneToken, Referents
<1> QED BY <1>1, <1>2

\* The registry's inductive invariant.
THEOREM Inductive == Spec => []IInv
BY InitIInv, IInvStep, PTL DEF Spec

\* Callers of one key exclude each other, for every number of callers and keys.
THEOREM MutualExclusion == Spec => []Exclusive
<1>1. IInv => Exclusive
  BY DEF IInv, Located, OneToken, Exclusive, Holds, Referring, WithToken
<1> QED BY <1>1, Inductive, PTL

\* An entry is kept exactly as long as some caller holds or waits for its key.
THEOREM Reclamation == Spec => []Reclaims
<1>1. IInv => Reclaims
  BY EntriesAssumption DEF IInv, TypeOK, Located, Apart, Used, Referents, Reclaims
<1> QED BY <1>1, Inductive, PTL

-----------------------------------------------------------------------------
(* The registry implements the abstract mutex.                             *)

\* The owner of a key is its holder.
LEMMA OwnerIsHolder ==
    ASSUME Exclusive, NEW k \in Keys
    PROVE  /\ \A c \in Callers : Holds(c, k) => Owner[k] = c
           /\ (\A c \in Callers : ~Holds(c, k)) => Owner[k] = Nobody
BY DEF Exclusive, Owner

\* Nobody owns a key at the start.
LEMMA InitMaps == Init => Abstract!Init
BY DEF Init, Abstract!Init, Owner, Holds

\* A step that changes no holder changes no owner.
LEMMA Stutters ==
    ASSUME \A c \in Callers, k \in Keys : Holds(c, k)' <=> Holds(c, k)
    PROVE Owner' = Owner
BY DEF Owner

\* Looking at a live context after the token was won enters, unlocking leaves,
\* and nothing else is seen.
LEMMA StepMaps == IInv /\ IInv' /\ [Next]_vars => [Abstract!Next]_Owner
<1> SUFFICES ASSUME IInv, IInv', [Next]_vars PROVE [Abstract!Next]_Owner
  OBVIOUS
<1>1. Exclusive /\ Exclusive'
  BY DEF IInv, Located, OneToken, Exclusive, Holds, Referring, WithToken
<1>2. Owner = [k \in Keys |-> Owner[k]] /\ Owner' = [k \in Keys |-> Owner'[k]]
  BY DEF Owner
<1>3. ASSUME NEW c \in Callers, Recheck(c), ~done[c] PROVE Abstract!Next
  <2>1. PICK k \in Keys : k = key[c]
    BY DEF IInv, TypeOK
  <2>2. Holds(c, k)' /\ \A d \in Callers, l \in Keys : d # c \/ l # k => (Holds(d, l)' <=> Holds(d, l))
    BY <1>3, <2>1 DEF Recheck, Holds, IInv, TypeOK
  <2>3. \A d \in Callers : ~Holds(d, k)
    <3> SUFFICES ASSUME NEW d \in Callers, Holds(d, k) PROVE FALSE
      OBVIOUS
    <3>1. d # c
      BY <1>3, <2>1 DEF Recheck, Holds
    <3> QED BY <3>1, <2>1, <2>2, <1>1 DEF Exclusive
  <2>4. Owner[k] = Nobody
    BY <2>1, <2>3, <1>1, OwnerIsHolder
  <2>5. Owner'[k] = c
    BY <2>1, <2>2, <1>1 DEF Owner, Exclusive
  <2>6. \A l \in Keys \ {k} : Owner'[l] = Owner[l]
    BY <2>2 DEF Owner
  <2>7. Owner' = [Owner EXCEPT ![k] = c]
    BY <1>2, <2>1, <2>5, <2>6
  <2> QED BY <2>1, <2>4, <2>7 DEF Abstract!Next, Abstract!Enter
<1>4. ASSUME NEW c \in Callers, Unlock(c) PROVE Abstract!Next
  <2>1. PICK k \in Keys : k = key[c] /\ Holds(c, k)
    BY <1>4 DEF IInv, TypeOK, Unlock, Holds
  <2>2. ~Holds(c, k)' /\ \A d \in Callers, l \in Keys : d # c \/ l # k => (Holds(d, l)' <=> Holds(d, l))
    BY <1>4, <2>1 DEF Unlock, Holds, IInv, TypeOK
  <2>3. Owner[k] = c
    BY <2>1, <1>1, OwnerIsHolder
  <2>4. \A d \in Callers : ~Holds(d, k)'
    BY <2>1, <2>2, <1>1 DEF Exclusive
  <2>5. Owner'[k] = Nobody
    BY <2>1, <2>4 DEF Owner
  <2>6. \A l \in Keys \ {k} : Owner'[l] = Owner[l]
    BY <2>2 DEF Owner
  <2>7. Owner' = [Owner EXCEPT ![k] = Nobody]
    BY <1>2, <2>1, <2>5, <2>6
  <2> QED BY <2>1, <2>3, <2>7 DEF Abstract!Next, Abstract!Leave
<1>5. ASSUME NEW c \in Callers, Step(c), ~(Recheck(c) /\ ~done[c]), ~Unlock(c) PROVE Owner' = Owner
  <2>1. \A d \in Callers, k \in Keys : Holds(d, k)' <=> Holds(d, k)
    <3> USE DEF Holds, IInv, TypeOK
    <3>1. CASE \E k \in Keys : Call(c, k)
      BY <3>1 DEF Call
    <3>2. CASE Cancel(c)
      BY <3>2 DEF Cancel
    <3>3. CASE Win(c) \/ Recheck(c)
      BY <3>3, <1>5 DEF Win, Recheck
    <3>4. CASE Yield(c) \/ GiveUp(c)
      BY <3>4 DEF Yield, GiveUp
    <3>5. CASE UnlockAgain(c) \/ Drop(c)
      BY <3>5 DEF UnlockAgain, Drop
    <3> QED BY <1>5, <3>1, <3>2, <3>3, <3>4, <3>5 DEF Step
  <2> QED BY <2>1, Stutters
<1>6. CASE UNCHANGED vars
  <2>1. \A d \in Callers, k \in Keys : Holds(d, k)' <=> Holds(d, k)
    BY <1>6 DEF vars, Holds
  <2> QED BY <2>1, Stutters
<1> QED BY <1>3, <1>4, <1>5, <1>6 DEF Next

\* For any number of callers and keys, the registry with its recycled entries
\* is one mutex per key.
THEOREM Refinement == Spec => ImplementsMutex
BY InitMaps, StepMaps, Inductive, PTL DEF Spec, ImplementsMutex, Abstract!Spec

=============================================================================
