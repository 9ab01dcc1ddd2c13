------------------------------ MODULE KeyedLock ------------------------------
(***************************************************************************)
(* One lock per key, minted on demand and reclaimed with its last          *)
(* reference (internal/keyedlock: Registry).  A caller looks its key's     *)
(* entry up under the registry's mutex, waits on the entry outside it, may *)
(* give up when its context is done, and drops its reference under the     *)
(* mutex again.  Entries are heap objects: one that nothing refers to any  *)
(* more may come back as a new one.                                        *)
(***************************************************************************)
EXTENDS Naturals, FiniteSets

CONSTANTS Callers, Keys, Entries, Nobody, NoEntry

ASSUME CallersAssumption == IsFiniteSet(Callers) /\ Nobody \notin Callers
ASSUME EntriesAssumption == NoEntry \notin Entries

VARIABLES
    locks,  \* Registry.locks
    refs,   \* entry.refs: holders and waiters
    sem,    \* entry.sem: whether its one token is taken
    pc,     \* where each caller is
    key,    \* the key it called with
    ref,    \* the entry it looked up
    done,   \* whether its context is done
    spent   \* whether it still has an unlock function that it has called

vars == <<locks, refs, sem, pc, key, ref, done, spent>>

Init ==
    /\ locks = [k \in Keys |-> NoEntry]
    /\ refs = [e \in Entries |-> 0] /\ sem = [e \in Entries |-> FALSE]
    /\ pc = [c \in Callers |-> "idle"]
    /\ key \in [Callers -> Keys] /\ ref = [c \in Callers |-> NoEntry]
    /\ done = [c \in Callers |-> FALSE] /\ spent = [c \in Callers |-> FALSE]

\* The callers whose reference to an entry is counted.
Referring == {"waiting", "won", "holding", "yielding", "leaving"}
Referents(e) == {c \in Callers : pc[c] \in Referring /\ ref[c] = e}

\* Where a caller has an entry's token.
WithToken == {"won", "holding", "yielding"}

-----------------------------------------------------------------------------

\* Entries the allocator may return.
Free == {e \in Entries : Referents(e) = {} /\ \A k \in Keys : locks[k] # e}

\* reference: the key's entry, minted if it has none, and one more reference.
Reference(c, k) ==
    \/ /\ locks[k] # NoEntry
       /\ ref' = [ref EXCEPT ![c] = locks[k]]
       /\ refs' = [refs EXCEPT ![locks[k]] = @ + 1]
       /\ UNCHANGED <<locks, sem>>
    \/ /\ locks[k] = NoEntry
       /\ \E e \in Free :
             /\ locks' = [locks EXCEPT ![k] = e]
             /\ refs' = [refs EXCEPT ![e] = 1] /\ sem' = [sem EXCEPT ![e] = FALSE]
             /\ ref' = [ref EXCEPT ![c] = e]

\* LockCtx with a live context.
Call(c, k) ==
    /\ pc[c] = "idle"
    /\ Reference(c, k)
    /\ pc' = [pc EXCEPT ![c] = "waiting"] /\ key' = [key EXCEPT ![c] = k]
    /\ done' = [done EXCEPT ![c] = FALSE]
    /\ UNCHANGED spent

\* The context of a call may end at any time.
Cancel(c) ==
    /\ pc[c] \in Referring /\ ~done[c]
    /\ done' = [done EXCEPT ![c] = TRUE]
    /\ UNCHANGED <<locks, refs, sem, pc, key, ref, spent>>

\* The select's first arm: the token is there.
Win(c) ==
    /\ pc[c] = "waiting" /\ ~sem[ref[c]]
    /\ sem' = [sem EXCEPT ![ref[c]] = TRUE]
    /\ pc' = [pc EXCEPT ![c] = "won"]
    /\ UNCHANGED <<locks, refs, key, ref, done, spent>>

\* The context is looked at again: a caller that gave up must not go in.
Recheck(c) ==
    /\ pc[c] = "won"
    /\ pc' = [pc EXCEPT ![c] = IF done[c] THEN "yielding" ELSE "holding"]
    /\ UNCHANGED <<locks, refs, sem, key, ref, done, spent>>

Yield(c) ==
    /\ pc[c] = "yielding"
    /\ sem' = [sem EXCEPT ![ref[c]] = FALSE]
    /\ pc' = [pc EXCEPT ![c] = "leaving"]
    /\ UNCHANGED <<locks, refs, key, ref, done, spent>>

\* Mutant: a caller that gives up keeps its reference.
GiveUp_Undropped(c) ==
    /\ pc[c] = "waiting" /\ done[c]
    /\ pc' = [pc EXCEPT ![c] = "idle"]
    /\ UNCHANGED <<locks, refs, sem, key, ref, done, spent>>

\* Mutant: a caller that gives up drops its reference here as well.
GiveUp_DropsTwice(c) ==
    /\ pc[c] = "waiting" /\ done[c]
    /\ pc' = [pc EXCEPT ![c] = "leaving"] /\ refs' = [refs EXCEPT ![ref[c]] = @ - 1]
    /\ UNCHANGED <<locks, sem, key, ref, done, spent>>

\* Mutant: only a caller that could have won notices its context.
GiveUp_Late(c) ==
    /\ pc[c] = "waiting" /\ done[c] /\ ~sem[ref[c]]
    /\ pc' = [pc EXCEPT ![c] = "leaving"]
    /\ UNCHANGED <<locks, refs, sem, key, ref, done, spent>>

\* The select's second arm: the context is done.
GiveUp(c) ==
    /\ pc[c] = "waiting" /\ done[c]
    /\ pc' = [pc EXCEPT ![c] = "leaving"]
    /\ UNCHANGED <<locks, refs, sem, key, ref, done, spent>>

\* Mutant: the entry's token is not given back.
Unlock_Undrained(c) ==
    /\ pc[c] = "holding"
    /\ pc' = [pc EXCEPT ![c] = "leaving"] /\ spent' = [spent EXCEPT ![c] = TRUE]
    /\ UNCHANGED <<locks, refs, sem, key, ref, done>>

\* The unlock function's first call ...
Unlock(c) ==
    /\ pc[c] = "holding"
    /\ sem' = [sem EXCEPT ![ref[c]] = FALSE]
    /\ pc' = [pc EXCEPT ![c] = "leaving"] /\ spent' = [spent EXCEPT ![c] = TRUE]
    /\ UNCHANGED <<locks, refs, key, ref, done>>

\* Mutant: a second call drains the entry's token, whoever has it.
UnlockAgain_Drains(c) ==
    /\ pc[c] = "idle" /\ spent[c]
    /\ sem' = [sem EXCEPT ![ref[c]] = FALSE]
    /\ UNCHANGED <<locks, refs, pc, key, ref, done, spent>>

\* ... and a second one, which panics before it drains anything.
UnlockAgain(c) ==
    /\ pc[c] = "idle" /\ spent[c]
    /\ pc' = [pc EXCEPT ![c] = "panicked"]
    /\ UNCHANGED <<locks, refs, sem, key, ref, done, spent>>

\* dropRef: the last reference reclaims the entry.
Reclaimed(c) == refs[ref[c]] = 1 /\ locks[key[c]] = ref[c]

Drop(c) ==
    /\ pc[c] = "leaving"
    /\ refs' = [refs EXCEPT ![ref[c]] = @ - 1]
    /\ locks' = IF Reclaimed(c) THEN [locks EXCEPT ![key[c]] = NoEntry] ELSE locks
    /\ pc' = [pc EXCEPT ![c] = "idle"]
    /\ UNCHANGED <<sem, key, ref, done, spent>>

-----------------------------------------------------------------------------

Step(c) ==
    \/ \E k \in Keys : Call(c, k)
    \/ Cancel(c) \/ Win(c) \/ Recheck(c) \/ Yield(c) \/ GiveUp(c)
    \/ Unlock(c) \/ UnlockAgain(c) \/ Drop(c)

Next == \E c \in Callers : Step(c)

Spec == Init /\ [][Next]_vars

\* Goroutines run.  Go hands a freed token to the longest waiting sender, so a
\* caller that keeps waiting wins in the end; critical sections may be wedged.
FairSpec ==
    /\ Spec
    /\ \A c \in Callers : /\ WF_vars(Recheck(c) \/ Yield(c) \/ GiveUp(c) \/ Drop(c))
                          /\ SF_vars(Win(c))

-----------------------------------------------------------------------------
(* Properties.                                                             *)

TypeOK ==
    /\ locks \in [Keys -> Entries \union {NoEntry}]
    /\ refs \in [Entries -> Nat] /\ sem \in [Entries -> BOOLEAN]
    /\ pc \in [Callers -> Referring \union {"idle", "panicked"}]
    /\ key \in [Callers -> Keys] /\ ref \in [Callers -> Entries \union {NoEntry}]
    /\ done \in [Callers -> BOOLEAN] /\ spent \in [Callers -> BOOLEAN]

Holds(c, k) == pc[c] = "holding" /\ key[c] = k

\* Two callers are never in the critical section of one key, although the entry
\* they excluded each other on comes and goes between them.
Exclusive == \A k \in Keys : \A c, d \in Callers : Holds(c, k) /\ Holds(d, k) => c = d

\* The registry has an entry exactly for the keys somebody holds or waits for:
\* nothing is reclaimed under a caller, and nothing is leaked by one that gave up.
Reclaims ==
    \A k \in Keys : (locks[k] # NoEntry) <=> (\E c \in Callers : pc[c] \in Referring /\ key[c] = k)

\* The registry implements a mutex per key.
Owner == [k \in Keys |-> IF \E c \in Callers : Holds(c, k)
                         THEN CHOOSE c \in Callers : Holds(c, k) ELSE Nobody]
Abstract == INSTANCE KeyMutex WITH owner <- Owner
ImplementsMutex == Abstract!Spec

\* A caller that waits stops waiting, if critical sections end.
Served ==
    (\A c \in Callers : []<>(pc[c] # "holding"))
        => \A c \in Callers : (pc[c] = "waiting") ~> (pc[c] # "waiting")

\* A caller whose context is done comes back, even from behind a wedged holder,
\* unless it won before that.
CanceledReturns ==
    \A c \in Callers : (pc[c] = "waiting" /\ done[c]) ~> (pc[c] = "idle")

=============================================================================
