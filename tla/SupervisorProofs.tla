-------------------------- MODULE SupervisorProofs --------------------------
(***************************************************************************)
(* Proofs about Supervisor for any versions, updates, faults and attempt   *)
(* limit: its types, its inductive invariant, and the safety properties    *)
(* that follow from it.  Who owns the database is proved for supervisors   *)
(* whose processes start; everything else for all.                         *)
(***************************************************************************)
EXTENDS Supervisor, TLAPS

-----------------------------------------------------------------------------
(* The inductive invariant.                                                *)

\* Places from which the state in memory is the one that counts.
Restores == {"remove", "copy", "unmark"}
Running ==
    \/ pc \in {"select", "fail", "count", "spawn", "run", "stop", "tell", "prune",
               "rollback", "settle", "discard"}
    \/ pc \in Restores /\ after = "settle"

Undoing ==
    \/ pc = "stop" /\ after = "rollback"
    \/ pc \in {"rollback", "settle"} \union Restores

Pending(s) == s.phase = "pending"
Tried(s) == Pending(s) /\ s.attempts > 0

\* Where each place leads, and what it is about.
Placed ==
    /\ pc \in Restores => after \in {"load", "settle"}
    /\ pc = "stop" => after \in {"rollback", "select", "down"}
    /\ pc = "discard" => after \in {"select", "tell"}
    /\ marker => pc \in {"down", "resume"} \union Restores
    /\ pc \in Restores => marker
    /\ child.step # "none" =>
          pc \in {"run", "stop", "tell", "prune"} \/ (pc = "discard" /\ after = "tell")
    /\ wire # {} => child.step # "none"

\* The memory of a supervisor that runs, place by place.
Minds ==
    /\ pc = "run" => (Pending(mem) <=> loop.trial \/ loop.accepted)
    /\ pc = "run" /\ loop.trial => ~loop.accepted
    /\ pc \in {"run", "stop"} /\ Pending(mem) /\ ~Tried(mem) => loop.accepted
    /\ pc = "run" /\ loop.trial => Tried(mem)
    /\ pc = "run" /\ loop.accepted => ~Tried(mem)
    /\ Undoing /\ Running => Tried(mem)
    /\ pc \in {"fail", "count"} => Pending(mem)
    /\ pc = "count" => mem.attempts < AttemptLimit
    /\ pc = "spawn" /\ Pending(mem) => Tried(mem)
    /\ pc = "stop" /\ after = "select" => ~Tried(mem)
    /\ pc = "discard" => ~Pending(mem)
    /\ pc \in {"tell", "prune"} \/ (pc = "discard" /\ after = "tell") =>
          /\ mem.phase = "committed" /\ disk = mem /\ ~loop.trial /\ ~loop.accepted
    /\ Running => mem.phase # "absent"

\* The disk follows the memory; a write that failed may be ahead of it.
Follows ==
    Running =>
        /\ Pending(mem) => disk = mem \/ (Undoing /\ disk = Committed(mem))
        /\ ~Pending(mem) /\ Pending(disk) =>
              disk.attempts = 0 /\ disk.active = Selected(mem)
        /\ ~Pending(mem) /\ ~Pending(disk) =>
              /\ disk.phase = mem.phase /\ disk.id = mem.id
              /\ disk.active = mem.active /\ disk.to = mem.to

\* The child is the one the memory selects; a trial is of its update.
Backed ==
    child.step # "none" =>
        /\ ~child.trial => ~Tried(mem)
        /\ child.trial /\ ~child.commit =>
              /\ child.step # "live" /\ child.update = mem.id
              /\ Tried(mem) \/ (pc \in {"discard", "tell"} /\ mem.phase = "committed")
        /\ child.commit => child.trial /\ ~Tried(mem)
        /\ pc \in {"discard", "tell"} => child.trial
        /\ ~Pending(mem) \/ Tried(mem) => child.version = Selected(mem)
        /\ Pending(mem) /\ ~Tried(mem) => child.version = mem.active
        /\ pc = "run" /\ loop.trial => child.trial /\ ~child.commit
        /\ pc = "run" /\ ~loop.trial => (child.trial => child.commit)
        /\ child.step \in {"booted", "waiting"} => child.trial

Numbered ==
    /\ disk.id <= minted /\ child.update <= minted
    /\ Running => mem.id <= minted

\* A trial that has the commit frame finds it recorded for ever.
Recorded ==
    child.step # "none" /\ child.commit =>
        \A s \in {mem, disk} :
            s.id >= child.update /\ (s.id = child.update => s.phase = "committed")

\* The snapshot of an update that was tried is whole and of this moment.
Saved ==
    /\ marker \/ Tried(disk) => snap.kind = "whole" /\ snap.work = work
    /\ Running /\ (Tried(mem) \/ pc = "count") => snap.kind = "whole" /\ snap.work = work
    /\ ~marker => ~db.torn /\ db.work = work
    /\ pc = "unmark" => ~db.torn /\ db.work = work

\* Every version that may be selected next is staged.
Stocked ==
    /\ disk.phase # "absent" => Selected(disk) \in staged
    /\ Pending(disk) => disk.active \in staged
    /\ Running => Selected(mem) \in staged
    /\ Running /\ Pending(mem) => mem.active \in staged

Tallied ==
    /\ trials <= AttemptLimit
    /\ Pending(disk) => trials <= disk.attempts
    /\ pc = "spawn" /\ Pending(mem) => trials < mem.attempts

\* Who may have written the database that is found under a state.
Owner(s, by) == by \in {Nothing, s.active} \/ (s.phase = "committed" /\ by = s.to)

Owned ==
    /\ disk.phase = "absent" => disk.active = Self
    /\ marker => Owner(disk, snap.by)
    /\ ~marker /\ ~Tried(disk) => Owner(disk, db.by)
    /\ Tried(disk) => snap.by \in {Nothing, disk.active}
    /\ Running /\ (Tried(mem) \/ pc = "count") => snap.by \in {Nothing, mem.active}
    /\ pc = "unmark" => db.by = snap.by
    /\ pc \in {"fail", "settle"} => db.by \in {Nothing, mem.active}
    /\ pc = "count" /\ mem.attempts = 0 => db.by \in {Nothing, mem.active}
    /\ pc = "spawn" /\ Pending(mem) /\ mem.attempts = 1 => db.by \in {Nothing, mem.active}
    /\ child.step \in {"booted", "waiting", "live"} => db.by = child.version
    /\ Frame("prepared") \in wire => child.trial /\ db.by = child.version
    /\ \A v \in Versions : Request(v) \in wire => db.by = child.version
    /\ child.step # "none" /\ ~child.trial =>
          \/ db.by \in {Nothing, child.version}
          \/ disk.phase = "committed" /\ db.by = disk.active

Sound ==
    /\ Placed /\ Minds /\ Follows /\ Backed /\ Numbered /\ Recorded
    /\ Saved /\ Stocked /\ Tallied

IInv == TypeOK /\ Sound /\ (LateSpawnFaults \/ Owned)

-----------------------------------------------------------------------------
(* What the transitions of State do.                                       *)

LEMMA StateFields ==
  ASSUME NEW s \in States
  PROVE  /\ s.active \in Versions /\ s.to \in Versions /\ s.id \in 0 .. MaxUpdates
         /\ s.phase \in {"absent", "none", "pending"} \union Settled
         /\ s.attempts \in 0 .. AttemptLimit /\ s.attempts \in Nat /\ s.id \in Nat
         /\ s.reported \in BOOLEAN /\ Selected(s) \in Versions
  BY LimitsAssumption DEF States, Selected

LEMMA AdoptedFields ==
  ASSUME NEW v \in Versions
  PROVE  /\ Adopted(v) \in States /\ Selected(Adopted(v)) = v
         /\ Adopted(v).active = v /\ Adopted(v).id = 0 /\ Adopted(v).phase = "none"
         /\ Adopted(v).to = v /\ Adopted(v).attempts = 0
  BY LimitsAssumption DEF Adopted, States, Selected

LEMMA BeginFields ==
  ASSUME NEW s \in States, NEW id \in Updates, NEW target \in Versions
  PROVE  /\ Begin(s, id, target) \in States
         /\ Begin(s, id, target).active = Selected(s) /\ Begin(s, id, target).id = id
         /\ Begin(s, id, target).phase = "pending" /\ Begin(s, id, target).to = target
         /\ Begin(s, id, target).attempts = 0
<1>1. Selected(s) \in Versions /\ id \in 0 .. MaxUpdates
  BY StateFields, LimitsAssumption DEF Updates
<1> QED BY <1>1, LimitsAssumption DEF Begin, States

LEMMA RetryFields ==
  ASSUME NEW s \in States, s.attempts < AttemptLimit
  PROVE  /\ Retry(s) \in States /\ Retry(s).attempts = s.attempts + 1
         /\ Retry(s).active = s.active /\ Retry(s).id = s.id
         /\ Retry(s).phase = s.phase /\ Retry(s).to = s.to
<1>1. s.attempts + 1 \in 0 .. AttemptLimit
  BY StateFields, LimitsAssumption
<1> QED BY <1>1 DEF Retry, States

LEMMA SettleFields ==
  ASSUME NEW s \in States, NEW phase \in Settled
  PROVE  /\ Settle(s, phase) \in States /\ Settle(s, phase).phase = phase
         /\ Settle(s, phase).active = s.active /\ Settle(s, phase).id = s.id
         /\ Settle(s, phase).to = s.to /\ Settle(s, phase).attempts = s.attempts
  BY DEF Settle, States

LEMMA MarkFields ==
  ASSUME NEW s \in States
  PROVE  /\ MarkReported(s) \in States /\ MarkReported(s).phase = s.phase
         /\ MarkReported(s).active = s.active /\ MarkReported(s).id = s.id
         /\ MarkReported(s).to = s.to /\ MarkReported(s).attempts = s.attempts
<1>1. (s.reported \/ s.phase \in Settled) \in BOOLEAN
  OBVIOUS
<1> QED BY <1>1 DEF MarkReported, States

LEMMA CommittedFields ==
  ASSUME NEW s \in States
  PROVE  /\ Committed(s) \in States /\ Committed(s).phase = "committed"
         /\ Committed(s).active = s.active /\ Committed(s).id = s.id
         /\ Committed(s).to = s.to /\ Committed(s).attempts = s.attempts
<1>1. "committed" \in Settled
  BY DEF Settled
<1> QED BY <1>1, SettleFields, MarkFields DEF Committed

LEMMA ChildFields ==
  ASSUME NEW c \in Children
  PROVE  /\ c.version \in Versions /\ c.trial \in BOOLEAN /\ c.update \in 0 .. MaxUpdates
         /\ c.step \in {"none", "start", "boot", "booted", "waiting", "live", "exited"}
         /\ c.asked \in BOOLEAN /\ c.commit \in BOOLEAN /\ c.update \in Nat
         /\ \A step \in {"boot", "booted", "waiting", "live"} :
               [c EXCEPT !.step = step] \in Children
         /\ \A code \in {"clean", "error", "restart"} :
               [c EXCEPT !.step = "exited", !.code = code] \in Children
         /\ \A asked \in BOOLEAN : [c EXCEPT !.asked = asked] \in Children
         /\ [c EXCEPT !.commit = TRUE] \in Children
<1>1. /\ c.version \in Versions /\ c.trial \in BOOLEAN /\ c.update \in 0 .. MaxUpdates
      /\ c.step \in {"none", "start", "boot", "booted", "waiting", "live", "exited"}
      /\ c.asked \in BOOLEAN /\ c.commit \in BOOLEAN /\ c.update \in Nat
  BY LimitsAssumption DEF Children
<1>2. ASSUME NEW step \in {"boot", "booted", "waiting", "live"}
      PROVE  [c EXCEPT !.step = step] \in Children
  BY DEF Children
<1>3. ASSUME NEW code \in {"clean", "error", "restart"}
      PROVE  [c EXCEPT !.step = "exited", !.code = code] \in Children
  BY DEF Children
<1>4. ASSUME NEW asked \in BOOLEAN
      PROVE  [c EXCEPT !.asked = asked] \in Children
  BY DEF Children
<1>5. [c EXCEPT !.commit = TRUE] \in Children
  BY DEF Children
<1> QED BY <1>1, <1>2, <1>3, <1>4, <1>5

LEMMA Literals ==
  /\ NoChild \in Children /\ NoChild.step = "none" /\ NoChild.update = 0
  /\ NoSnapshot \in Snapshots /\ Gutted \in Snapshots
  /\ NoSnapshot.kind = "none" /\ Gutted.kind = "gutted"
  /\ \A kind \in {"hello", "prepared", "failed"} : Frame(kind) \in Frames
  /\ \A v \in Versions : Request(v) \in Frames
  BY VersionsAssumption, LimitsAssumption
     DEF NoChild, Children, NoSnapshot, Gutted, Snapshots, Frame, Frames, Request

LEMMA DataFields ==
  ASSUME NEW d \in Databases, NEW s \in Snapshots
  PROVE  /\ d.torn \in BOOLEAN /\ d.work \in 0 .. MaxWork /\ d.by \in Versions \union {Nothing}
         /\ s.kind \in {"none", "gutted", "whole"} /\ s.work \in 0 .. MaxWork
         /\ s.by \in Versions \union {Nothing}
         /\ [d EXCEPT !.torn = TRUE] \in Databases
         /\ \A v \in Versions \union {Nothing} :
               [d EXCEPT !.by = v] \in Databases /\ [s EXCEPT !.by = v] \in Snapshots
         /\ [torn |-> FALSE, work |-> s.work, by |-> s.by] \in Databases
         /\ [kind |-> "whole", work |-> d.work, by |-> d.by] \in Snapshots
         /\ d.work < MaxWork => [d EXCEPT !.work = @ + 1] \in Databases
<1>1. /\ d.torn \in BOOLEAN /\ d.work \in 0 .. MaxWork /\ d.by \in Versions \union {Nothing}
      /\ s.kind \in {"none", "gutted", "whole"} /\ s.work \in 0 .. MaxWork
      /\ s.by \in Versions \union {Nothing}
  BY DEF Databases, Snapshots
<1>2. [d EXCEPT !.torn = TRUE] \in Databases
  BY DEF Databases
<1>3. ASSUME NEW v \in Versions \union {Nothing}
      PROVE  [d EXCEPT !.by = v] \in Databases /\ [s EXCEPT !.by = v] \in Snapshots
  BY DEF Databases, Snapshots
<1>4. /\ [torn |-> FALSE, work |-> s.work, by |-> s.by] \in Databases
      /\ [kind |-> "whole", work |-> d.work, by |-> d.by] \in Snapshots
  BY <1>1 DEF Databases, Snapshots
<1>5. ASSUME d.work < MaxWork
      PROVE  [d EXCEPT !.work = @ + 1] \in Databases
  <2>1. d.work + 1 \in 0 .. MaxWork
    BY <1>1, <1>5, LimitsAssumption
  <2> QED BY <2>1 DEF Databases
<1> QED BY <1>1, <1>2, <1>3, <1>4, <1>5

LEMMA Shape ==
  ASSUME TypeOK
  PROVE  /\ mem \in States /\ disk \in States /\ child \in Children
         /\ db \in Databases /\ snap \in Snapshots
         /\ minted \in Nat /\ trials \in Nat /\ work \in Nat /\ AttemptLimit \in Nat
  BY LimitsAssumption DEF TypeOK

-----------------------------------------------------------------------------
(* Steps that change only where the supervisor is.                         *)

Moves ==
    \/ Start \/ Resume \/ SelectOrdinary \/ SelectExhausted \/ SelectAgain \/ SpawnFails
    \/ Stalls \/ GraceEnds \/ Exited \/ ReadFailed \/ Shutdown

LEMMA MovesSound ==
  ASSUME TypeOK, Sound, Moves
  PROVE  Sound'
<1>1. /\ UNCHANGED <<disk, marker, snap, db, staged, mem, loop, child, work, trials, minted>>
      /\ wire' \subseteq wire
  BY DEF Moves, Start, Resume, SelectOrdinary, SelectExhausted, SelectAgain, SpawnFails, Stalls,
         GraceEnds, Exited, ReadFailed, Shutdown, durable, history, counters
<1>2. mem \in States /\ mem.attempts \in Nat /\ AttemptLimit \in Nat \ {0}
  BY Shape, StateFields, LimitsAssumption
<1>3. \/ pc = "down" /\ pc' = "resume"
      \/ pc = "resume" /\ after' = "load" /\ pc' = (IF marker THEN "remove" ELSE "load")
      \/ pc = "select" /\ ~Pending(mem) /\ pc' = "spawn"
      \/ pc = "select" /\ Tried(mem) /\ pc' = "rollback"
      \/ pc = "select" /\ Tried(mem) /\ mem.attempts < AttemptLimit /\ pc' = "count"
      \/ pc = "spawn" /\ Pending(mem) /\ pc' = "fail"
      \/ pc = "run" /\ loop.trial /\ pc' = "stop" /\ after' = "rollback"
      \/ pc = "run" /\ ~loop.trial /\ pc' = "stop" /\ after' = "select"
      \/ pc = "run" /\ pc' = "stop" /\ after' = "down"
      \/ pc = "run" /\ pc' = "run" /\ after' = after
  BY <1>2 DEF Moves, Start, Resume, SelectOrdinary, SelectExhausted, SelectAgain, SpawnFails,
              Stalls, GraceEnds, Exited, ReadFailed, Shutdown, Goes, Stopping, Trial, Pending,
              Tried, Sound, Minds
<1>4. Placed'
  BY <1>1, <1>3 DEF Sound, Placed, Restores
<1>5. Minds'
  BY <1>1, <1>3 DEF Sound, Placed, Minds, Running, Undoing, Restores, Pending, Tried
<1>6. Follows'
  BY <1>1, <1>3 DEF Sound, Follows, Minds, Running, Undoing, Restores, Pending, Tried
<1>7. Backed' /\ Numbered' /\ Recorded'
  BY <1>1, <1>3 DEF Sound, Placed, Backed, Numbered, Recorded, Running, Restores, Pending, Tried
<1>8. Saved' /\ Stocked' /\ Tallied'
  BY <1>1, <1>3 DEF Sound, Placed, Saved, Stocked, Tallied, Running, Restores, Pending, Tried
<1> QED BY <1>4, <1>5, <1>6, <1>7, <1>8 DEF Sound

-----------------------------------------------------------------------------
(* A restore, and what follows it.                                         *)

Restoring == RollBack \/ RemoveLive \/ CopyBack \/ Unmark

LEMMA RestoringSound ==
  ASSUME TypeOK, Sound, Restoring
  PROVE  Sound'
<1>1. /\ UNCHANGED <<disk, snap, staged, mem, loop, child, wire, work, trials, minted>>
      /\ \/ pc = "rollback" /\ pc' = "remove" /\ after' = "settle" /\ marker' = TRUE
            /\ UNCHANGED db
         \/ pc = "remove" /\ pc' = "copy" /\ UNCHANGED <<after, marker>>
         \/ pc = "copy" /\ pc' = "unmark" /\ UNCHANGED <<after, marker>>
            /\ db'.torn = FALSE /\ db'.work = snap.work
         \/ pc = "unmark" /\ pc' = after /\ marker' = FALSE /\ UNCHANGED <<after, db>>
  BY DEF Restoring, RollBack, RemoveLive, CopyBack, Unmark, Goes, durable, history, counters
<1>2. /\ pc # "unmark" \/ after \in {"load", "settle"}
      /\ marker \in BOOLEAN /\ child.step \in {"none"}
  BY <1>1, Shape, ChildFields DEF Sound, Placed, Restores, TypeOK
<1>3. Placed'
  BY <1>1, <1>2 DEF Sound, Placed, Restores
<1>4. Minds'
  BY <1>1, <1>2 DEF Sound, Minds, Placed, Running, Undoing, Restores
<1>5. Follows'
  BY <1>1, <1>2 DEF Sound, Minds, Follows, Placed, Running, Undoing, Restores
<1>6. Backed' /\ Numbered' /\ Recorded'
  BY <1>1, <1>2 DEF Sound, Backed, Numbered, Recorded, Running, Restores
<1>7. Saved'
  BY <1>1, <1>2 DEF Sound, Placed, Minds, Saved, Running, Undoing, Restores
<1>8. Stocked' /\ Tallied'
  BY <1>1, <1>2 DEF Sound, Stocked, Tallied, Running, Restores
<1> QED BY <1>3, <1>4, <1>5, <1>6, <1>7, <1>8 DEF Sound

Settling == Fail \/ RolledBack

LEMMA SettlingSound ==
  ASSUME TypeOK, Sound, Settling
  PROVE  Sound'
<1>1. PICK phase \in {"failed", "rolled-back"} :
         /\ UNCHANGED <<marker, snap, db, staged, loop, child, wire, work, trials, minted>>
         /\ pc \in {"fail", "settle"} /\ pc' = "discard" /\ after' = "select"
         /\ mem' = Settle(mem, phase) /\ disk' = mem'
  BY DEF Settling, Fail, RolledBack, Goes, durable, history, counters
<1>2. /\ mem'.phase = phase /\ mem'.active = mem.active /\ mem'.to = mem.to
      /\ mem'.id = mem.id /\ disk' = mem'
  BY <1>1, Shape, SettleFields DEF Settled
<1>3. pc' = "discard" /\ after' = "select" /\ child.step = "none" /\ Pending(mem) /\ ~Pending(mem')
  BY <1>1, <1>2, Shape, ChildFields DEF Sound, Placed, Minds, Undoing, Running, Restores, Tried, Pending
<1>4. Placed'
  BY <1>1, <1>3 DEF Sound, Placed, Restores
<1>5. Minds' /\ Follows'
  BY <1>1, <1>2, <1>3 DEF Minds, Follows, Running, Undoing, Restores, Tried, Pending
<1>6. Backed' /\ Numbered' /\ Recorded'
  BY <1>1, <1>2, <1>3 DEF Sound, Backed, Numbered, Recorded, Running, Restores
<1>7. Saved' /\ Tallied'
  BY <1>1, <1>2, <1>3 DEF Sound, Placed, Saved, Tallied, Running, Restores, Tried, Pending
<1>8. Stocked'
  BY <1>1, <1>2, <1>3 DEF Sound, Stocked, Running, Restores, Selected, Pending
<1> QED BY <1>4, <1>5, <1>6, <1>7, <1>8 DEF Sound

LEMMA DiscardSound ==
  ASSUME TypeOK, Sound, Discard
  PROVE  Sound'
<1>1. /\ UNCHANGED <<disk, marker, db, staged, mem, loop, child, wire, work, trials, minted, after>>
      /\ pc = "discard" /\ pc' = after /\ after \in {"select", "tell"}
  BY DEF Discard, Goes, durable, history, counters, Sound, Placed
<1>2. ~marker /\ ~Pending(mem) /\ ~Tried(disk)
  BY <1>1, Shape, StateFields DEF Sound, Placed, Minds, Follows, Running, Restores, Tried, Pending
<1>3. Placed'
  BY <1>1 DEF Sound, Placed, Restores
<1>4. Minds' /\ Follows'
  BY <1>1, <1>2 DEF Sound, Minds, Follows, Running, Undoing, Restores, Tried, Pending
<1>5. Backed' /\ Numbered' /\ Recorded'
  BY <1>1, <1>2 DEF Sound, Placed, Backed, Numbered, Recorded, Running, Restores, Tried, Pending
<1>6. Saved' /\ Stocked' /\ Tallied'
  BY <1>1, <1>2 DEF Sound, Saved, Stocked, Tallied, Running, Restores, Tried, Pending
<1> QED BY <1>3, <1>4, <1>5, <1>6 DEF Sound

-----------------------------------------------------------------------------
(* The choice of a version, and its start.                                 *)

LEMMA StageSelfSound ==
  ASSUME TypeOK, Sound, StageSelf
  PROVE  Sound'
<1>1. /\ UNCHANGED <<disk, marker, snap, db, pc, after, mem, loop, child, wire, work, trials, minted>>
      /\ staged \subseteq staged'
  BY DEF StageSelf, history, counters
<1>2. Placed' /\ Minds' /\ Follows' /\ Backed'
  BY <1>1 DEF Sound, Placed, Minds, Follows, Backed, Running, Undoing, Restores, Tried, Pending
<1>3. Numbered' /\ Recorded' /\ Saved' /\ Stocked' /\ Tallied'
  BY <1>1 DEF Sound, Numbered, Recorded, Saved, Stocked, Tallied, Running, Restores, Tried, Pending
<1> QED BY <1>2, <1>3 DEF Sound

LEMMA LoadSound ==
  ASSUME TypeOK, Sound, Load
  PROVE  Sound'
<1>1. /\ UNCHANGED <<marker, snap, db, after, loop, child, wire, work, trials, minted>>
      /\ pc = "load" /\ pc' = "select" /\ mem' = disk' /\ staged' = staged
      /\ \/ disk' = disk /\ disk.phase # "absent"
         \/ disk' = Adopted(Self) /\ Self \in staged
  BY DEF Load, Goes, durable, history, counters
<1>2. /\ Adopted(Self).phase = "none" /\ Adopted(Self).id = 0 /\ Selected(Adopted(Self)) = Self
      /\ Adopted(Self).attempts = 0
      /\ minted \in Nat /\ AttemptLimit \in Nat /\ trials \in Nat
      /\ disk \in States /\ disk.attempts \in Nat /\ child \in Children
  BY Shape, StateFields, AdoptedFields, VersionsAssumption
<1>3. ~marker /\ child.step = "none" /\ wire = {}
  BY <1>1 DEF Sound, Placed, Restores
<1>4. Placed'
  BY <1>1, <1>3 DEF Placed, Restores
<1>5. Minds' /\ Follows' /\ Backed' /\ Recorded'
  BY <1>1, <1>2, <1>3 DEF Minds, Follows, Backed, Recorded, Running, Undoing, Restores, Tried, Pending
<1>6. Numbered'
  BY <1>1, <1>2, <1>3 DEF Sound, Numbered
<1>7. Saved'
  BY <1>1, <1>2, <1>3 DEF Sound, Saved, Running, Restores, Tried, Pending
<1>8. Stocked'
  BY <1>1, <1>2 DEF Sound, Stocked, Pending
<1>9. Tallied'
  BY <1>1, <1>2 DEF Sound, Tallied, Pending
<1> QED BY <1>4, <1>5, <1>6, <1>7, <1>8, <1>9 DEF Sound

LEMMA SelectFirstSound ==
  ASSUME TypeOK, Sound, SelectFirst
  PROVE  Sound'
<1>1. /\ UNCHANGED <<disk, marker, db, staged, mem, loop, child, wire, after, work, trials, minted>>
      /\ pc = "select" /\ Pending(mem) /\ mem.attempts = 0
      /\ \/ pc' = "count" /\ snap'.kind = "whole" /\ snap'.work = db.work
         \/ pc' = "fail"
  BY DEF SelectFirst, Goes, durable, history, counters, Pending
<1>2. ~Tried(mem) /\ AttemptLimit > 0 /\ mem.attempts < AttemptLimit
  BY <1>1, LimitsAssumption DEF Tried
<1>3. ~marker /\ child.step = "none" /\ disk = mem
  BY <1>1, <1>2 DEF Sound, Placed, Follows, Minds, Undoing, Running, Restores
<1>4. Placed'
  BY <1>1, <1>3 DEF Sound, Placed, Restores
<1>5. Minds' /\ Follows'
  BY <1>1, <1>2, <1>3 DEF Sound, Minds, Follows, Running, Undoing, Restores
<1>6. Backed' /\ Numbered' /\ Recorded'
  BY <1>1, <1>3 DEF Sound, Backed, Numbered, Recorded, Running, Restores
<1>7. Saved'
  BY <1>1, <1>2, <1>3 DEF Sound, Saved, Running, Restores
<1>8. Stocked' /\ Tallied'
  BY <1>1, <1>3 DEF Sound, Stocked, Tallied, Running, Restores
<1> QED BY <1>4, <1>5, <1>6, <1>7, <1>8 DEF Sound

LEMMA CountSound ==
  ASSUME TypeOK, Sound, Count
  PROVE  Sound'
<1>1. /\ UNCHANGED <<marker, snap, db, staged, loop, child, wire, after, work, trials, minted>>
      /\ pc = "count" /\ pc' = "spawn" /\ mem' = Retry(mem) /\ disk' = Retry(mem)
  BY DEF Count, Goes, durable, history, counters
<1>2. Pending(mem) /\ mem.attempts < AttemptLimit /\ child.step = "none" /\ disk = mem /\ ~marker
  BY <1>1 DEF Sound, Placed, Follows, Minds, Undoing, Running, Restores
<1>3. /\ mem'.attempts = mem.attempts + 1 /\ mem'.phase = mem.phase /\ mem'.to = mem.to
      /\ mem'.active = mem.active /\ mem'.id = mem.id
      /\ disk' = mem' /\ mem.attempts \in Nat /\ trials \in Nat /\ AttemptLimit \in Nat
  BY <1>1, <1>2, Shape, StateFields, RetryFields
<1>4. Tried(mem') /\ Pending(mem')
  BY <1>2, <1>3 DEF Tried, Pending
<1>5. Placed'
  BY <1>1, <1>2 DEF Sound, Placed, Restores
<1>6. Minds' /\ Follows'
  BY <1>1, <1>2, <1>3, <1>4 DEF Minds, Follows, Running, Undoing, Restores, Pending
<1>7. Backed' /\ Numbered' /\ Recorded'
  BY <1>1, <1>2, <1>3 DEF Sound, Backed, Numbered, Recorded, Running, Restores
<1>8. Saved'
  BY <1>1, <1>2 DEF Sound, Saved, Running, Restores
<1>9. Stocked'
  BY <1>1, <1>2, <1>3 DEF Sound, Stocked, Running, Restores, Selected, Pending
<1>10. Tallied'
  BY <1>1, <1>2, <1>3 DEF Sound, Tallied, Running, Restores, Selected, Pending
<1> QED BY <1>5, <1>6, <1>7, <1>8, <1>9, <1>10 DEF Sound

LEMMA SpawnSound ==
  ASSUME TypeOK, Sound, Spawn
  PROVE  Sound'
<1>1. /\ UNCHANGED <<disk, marker, snap, db, staged, mem, wire, after, work, minted>>
      /\ pc = "spawn" /\ pc' = "run"
      /\ child'.version = Selected(mem) /\ child'.trial = Pending(mem)
      /\ child'.update = (IF Pending(mem) THEN mem.id ELSE 0)
      /\ child'.step = "start" /\ child'.commit = FALSE
      /\ loop'.trial = Pending(mem) /\ loop'.accepted = FALSE
      /\ trials' = IF Pending(mem) THEN trials + 1 ELSE trials
  BY DEF Spawn, Goes, durable, history, counters, Pending, Trial, NoChild
<1>2. /\ mem \in States /\ mem.attempts \in 0 .. AttemptLimit /\ mem.id \in Nat /\ minted \in Nat
      /\ trials \in Nat /\ AttemptLimit \in Nat /\ Pending(mem) \in BOOLEAN
  BY Shape, StateFields DEF Pending
<1>3. /\ ~marker /\ child.step = "none" /\ wire = {}
      /\ Pending(mem) => Tried(mem) /\ disk = mem /\ trials < mem.attempts
  BY <1>1 DEF Sound, Placed, Minds, Follows, Tallied, Running, Undoing, Restores
<1>4. Placed'
  BY <1>1, <1>3 DEF Placed, Restores
<1>5. Minds' /\ Follows'
  BY <1>1, <1>2, <1>3 DEF Sound, Minds, Follows, Running, Undoing, Restores, Tried
<1>6. Backed'
  BY <1>1, <1>2, <1>3 DEF Backed, Tried
<1>7. Numbered' /\ Recorded'
  BY <1>1, <1>2, <1>3 DEF Sound, Numbered, Recorded, Running
<1>8. Saved' /\ Stocked'
  BY <1>1, <1>3 DEF Sound, Saved, Stocked, Running, Restores, Tried
<1>9. Tallied'
  BY <1>1, <1>2, <1>3, Shape, StateFields DEF Sound, Tallied, Follows, Running
<1> QED BY <1>4, <1>5, <1>6, <1>7, <1>8, <1>9 DEF Sound

-----------------------------------------------------------------------------
(* The frames of the child.                                                *)

LEMMA PendingMarked ==
  ASSUME NEW s \in States, Pending(s)
  PROVE  MarkReported(s) = s
<1>1. s.phase \notin Settled /\ s.reported \in BOOLEAN
  BY StateFields DEF Settled, Pending
<1>2. MarkReported(s) = [s EXCEPT !.reported = s.reported]
  BY <1>1 DEF MarkReported
<1> QED BY <1>2 DEF States

LEMMA ReadHelloSound ==
  ASSUME TypeOK, Sound, ReadHello
  PROVE  Sound'
<1>1. /\ UNCHANGED <<marker, snap, db, staged, pc, after, loop, child, work, trials, minted>>
      /\ pc = "run" /\ wire' \subseteq wire
      /\ \/ UNCHANGED <<disk, mem>>
         \/ /\ ~loop.trial /\ MarkReported(mem) # mem
            /\ mem' \in {mem, MarkReported(mem)} /\ disk' \in {disk, MarkReported(mem)}
            /\ mem' = mem \/ disk' = mem'
  BY DEF ReadHello, SaveFails, durable, history, counters
<1>2. /\ MarkReported(mem).phase = mem.phase /\ MarkReported(mem).active = mem.active
      /\ MarkReported(mem).id = mem.id /\ MarkReported(mem).to = mem.to
      /\ MarkReported(mem).attempts = mem.attempts
  BY Shape, MarkFields
<1>3. Pending(mem) => MarkReported(mem) = mem
  BY Shape, PendingMarked
<1>4. /\ UNCHANGED <<disk, mem>>
      \/ /\ ~Pending(mem) /\ ~Pending(mem') /\ ~Tried(mem) /\ ~Tried(mem')
         /\ mem'.phase = mem.phase /\ mem'.active = mem.active
         /\ mem'.id = mem.id /\ mem'.to = mem.to
         /\ \/ disk' = disk
            \/ /\ disk'.phase = mem.phase /\ disk'.active = mem.active
               /\ disk'.id = mem.id /\ disk'.to = mem.to /\ ~Pending(disk') /\ ~Tried(disk')
  BY <1>1, <1>2, <1>3 DEF Pending, Tried
<1>5. CASE UNCHANGED <<disk, mem>>
  <2>1. Placed' /\ Minds' /\ Follows' /\ Backed'
    BY <1>1, <1>5 DEF Sound, Placed, Minds, Follows, Backed, Running, Undoing, Restores, Pending,
                      Tried
  <2>2. Numbered' /\ Recorded' /\ Saved' /\ Stocked' /\ Tallied'
    BY <1>1, <1>5 DEF Sound, Numbered, Recorded, Saved, Stocked, Tallied, Running, Restores,
                      Pending, Tried
  <2> QED BY <2>1, <2>2 DEF Sound
<1>6. CASE /\ ~Pending(mem) /\ ~Pending(mem') /\ ~Tried(mem) /\ ~Tried(mem')
           /\ mem'.phase = mem.phase /\ mem'.active = mem.active
           /\ mem'.id = mem.id /\ mem'.to = mem.to
           /\ \/ disk' = disk
              \/ /\ disk'.phase = mem.phase /\ disk'.active = mem.active
                 /\ disk'.id = mem.id /\ disk'.to = mem.to /\ ~Pending(disk') /\ ~Tried(disk')
  <2>1. Selected(mem') = Selected(mem) /\ (disk' # disk => Selected(disk') = Selected(mem))
    BY <1>6 DEF Selected
  <2>2. Placed' /\ Minds'
    BY <1>1, <1>6 DEF Sound, Placed, Minds, Running, Undoing, Restores
  <2>3. Follows'
    BY <1>1, <1>6, <2>1 DEF Sound, Follows, Running, Restores
  <2>4. Backed'
    BY <1>1, <1>6, <2>1 DEF Sound, Backed
  <2>5. Numbered' /\ Recorded'
    BY <1>1, <1>6 DEF Sound, Numbered, Recorded, Running
  <2>6. Saved'
    BY <1>1, <1>6 DEF Sound, Saved, Running
  <2>7. Stocked' /\ Tallied'
    BY <1>1, <1>6, <2>1 DEF Sound, Stocked, Tallied, Running, Minds
  <2> QED BY <2>2, <2>3, <2>4, <2>5, <2>6, <2>7 DEF Sound
<1> QED BY <1>4, <1>5, <1>6

LEMMA ReadPreparedSound ==
  ASSUME TypeOK, Sound, ReadPrepared
  PROVE  Sound'
<1>1. /\ UNCHANGED <<marker, snap, db, staged, child, work, trials, minted>>
      /\ pc = "run" /\ loop.trial /\ wire' \subseteq wire
      /\ \/ /\ mem' = Committed(mem) /\ disk' = Committed(mem)
            /\ ~loop'.trial /\ loop'.accepted = loop.accepted
            /\ pc' = "discard" /\ after' = "tell"
         \/ /\ disk' \in {disk, Committed(mem)} /\ UNCHANGED <<mem, loop>>
            /\ pc' = "stop" /\ after' = "rollback"
  <2>1. loop' = [loop EXCEPT !.trial = FALSE] => ~loop'.trial /\ loop'.accepted = loop.accepted
    BY DEF TypeOK
  <2> QED BY <2>1 DEF ReadPrepared, SaveFails, Goes, Stopping, history, counters
<1>2. /\ Committed(mem).phase = "committed" /\ Committed(mem).active = mem.active
      /\ Committed(mem).id = mem.id /\ Committed(mem).to = mem.to
      /\ Committed(mem).attempts = mem.attempts
  BY Shape, CommittedFields
<1>3. /\ Tried(mem) /\ Pending(mem) /\ ~loop.accepted /\ disk = mem /\ ~marker
      /\ child.step # "none" => child.trial /\ ~child.commit
  BY <1>1 DEF Sound, Placed, Minds, Follows, Backed, Running, Undoing, Restores, Tried
<1>4. /\ ~Pending(Committed(mem)) /\ ~Tried(Committed(mem))
      /\ Selected(Committed(mem)) = Selected(mem) /\ Selected(mem) = mem.to
  BY <1>2, <1>3 DEF Pending, Tried, Selected
<1>5. Placed'
  BY <1>1, <1>3 DEF Sound, Placed, Restores
<1>6. Minds' /\ Follows'
  BY <1>1, <1>2, <1>3, <1>4 DEF Sound, Minds, Follows, Running, Undoing, Restores
<1>7. Backed'
  BY <1>1, <1>2, <1>3, <1>4 DEF Sound, Backed
<1>8. Numbered' /\ Recorded'
  BY <1>1, <1>2, <1>3 DEF Sound, Numbered, Recorded, Running
<1>9. Saved'
  BY <1>1, <1>3, <1>4 DEF Sound, Saved, Running
<1>10. Stocked' /\ Tallied'
  BY <1>1, <1>2, <1>3, <1>4 DEF Sound, Stocked, Tallied, Running
<1> QED BY <1>5, <1>6, <1>7, <1>8, <1>9, <1>10 DEF Sound

LEMMA ReadRequestSound ==
  ASSUME TypeOK, Sound, NEW v \in Versions, ReadRequest(v)
  PROVE  Sound'
<1> DEFINE begun == Begin(mem, minted + 1, v)
<1>1. /\ UNCHANGED <<marker, snap, db, staged, pc, after, work>>
      /\ pc = "run" /\ wire' \subseteq wire
      /\ \/ /\ ~loop.trial /\ ~loop.accepted /\ v \in staged /\ minted < MaxUpdates
            /\ minted' = minted + 1 /\ disk' = begun /\ trials' = 0
            /\ \/ mem' = begun /\ ~loop'.trial /\ loop'.accepted /\ child' = child
               \/ UNCHANGED <<mem, loop>>
         \/ UNCHANGED <<disk, mem, loop, minted, trials>>
  BY DEF ReadRequest, Refuses, TypeOK
<1>2. /\ child'.version = child.version /\ child'.trial = child.trial
      /\ child'.update = child.update /\ child'.step = child.step /\ child'.commit = child.commit
  <2>1. child' = child \/ child' = [child EXCEPT !.asked = FALSE]
    BY DEF ReadRequest, Refuses
  <2> QED BY <2>1, Shape DEF Children
<1>3. /\ minted \in Nat /\ trials \in Nat /\ AttemptLimit \in Nat /\ mem \in States
      /\ child.update \in Nat /\ mem.id \in Nat /\ disk.id \in Nat
  BY Shape, ChildFields, StateFields
<1>4. minted < MaxUpdates =>
         /\ begun.active = Selected(mem) /\ begun.id = minted + 1
         /\ begun.phase = "pending" /\ begun.to = v /\ begun.attempts = 0
  <2>1. minted < MaxUpdates => minted + 1 \in Updates
    BY <1>3, LimitsAssumption DEF Updates
  <2> QED BY <1>3, <2>1, BeginFields
<1> HIDE DEF begun
<1>5. CASE UNCHANGED <<disk, mem, loop, minted, trials>>
  <2>1. Placed' /\ Minds' /\ Follows'
    BY <1>1, <1>2, <1>5 DEF Sound, Placed, Minds, Follows, Running, Undoing, Restores, Pending, Tried
  <2>2. Backed'
    BY <1>1, <1>2, <1>5 DEF Sound, Backed, Pending, Tried
  <2>3. Numbered' /\ Recorded' /\ Saved' /\ Stocked' /\ Tallied'
    BY <1>1, <1>2, <1>5 DEF Sound, Numbered, Recorded, Saved, Stocked, Tallied, Running, Restores,
                      Pending, Tried
  <2> QED BY <2>1, <2>2, <2>3 DEF Sound
<1>6. CASE /\ ~loop.trial /\ ~loop.accepted /\ v \in staged /\ minted < MaxUpdates
           /\ minted' = minted + 1 /\ disk' = begun /\ trials' = 0
           /\ \/ mem' = begun /\ ~loop'.trial /\ loop'.accepted /\ child' = child
              \/ UNCHANGED <<mem, loop>>
  <2>1. ~Pending(mem) /\ ~Tried(mem) /\ ~marker
    BY <1>1, <1>6 DEF Sound, Placed, Minds, Tried, Restores
  <2>2. /\ Pending(begun) /\ ~Tried(begun) /\ Selected(begun) = v
        /\ begun.active = Selected(mem) /\ begun.id = minted + 1 /\ begun.phase = "pending"
        /\ begun.attempts = 0
    BY <1>4, <1>6 DEF Pending, Tried, Selected
  <2>3. Placed' /\ Minds' /\ Follows'
    BY <1>1, <1>2, <1>6, <2>1, <2>2 DEF Sound, Placed, Minds, Follows, Running, Undoing, Restores
  <2>4. Backed'
    BY <1>1, <1>2, <1>6, <2>1, <2>2 DEF Sound, Backed
  <2>5. Numbered'
    BY <1>1, <1>2, <1>3, <1>6, <2>2 DEF Sound, Numbered, Running
  <2>6. Recorded'
    BY <1>1, <1>2, <1>3, <1>6, <2>2 DEF Sound, Numbered, Recorded
  <2>7. Saved'
    BY <1>1, <1>6, <2>1, <2>2 DEF Sound, Saved, Running
  <2>8. Stocked'
    BY <1>1, <1>6, <2>1, <2>2 DEF Sound, Stocked, Running
  <2>9. Tallied'
    BY <1>1, <1>3, <1>6, <2>2 DEF Tallied
  <2> QED BY <2>3, <2>4, <2>5, <2>6, <2>7, <2>8, <2>9 DEF Sound
<1> QED BY <1>1, <1>5, <1>6

LEMMA StopSound ==
  ASSUME TypeOK, Sound, Stop
  PROVE  Sound'
<1>1. /\ UNCHANGED <<disk, marker, snap, db, staged, after, mem, loop, work, trials, minted>>
      /\ pc = "stop" /\ pc' = after /\ after \in {"rollback", "select", "down"}
      /\ child'.step = "none" /\ child'.update = 0 /\ wire' = {} /\ minted \in Nat
  BY Shape, Literals DEF Stop, Goes, durable, history, counters, Sound, Placed
<1>2. Placed'
  BY <1>1 DEF Sound, Placed, Restores
<1>3. Minds' /\ Follows'
  BY <1>1 DEF Sound, Minds, Follows, Running, Undoing, Restores
<1>4. Backed' /\ Numbered' /\ Recorded'
  BY <1>1 DEF Sound, Backed, Numbered, Recorded, Running, Restores
<1>5. Saved' /\ Stocked' /\ Tallied'
  BY <1>1 DEF Sound, Saved, Stocked, Tallied, Running, Restores
<1> QED BY <1>2, <1>3, <1>4, <1>5 DEF Sound

LEMMA TellSound ==
  ASSUME TypeOK, Sound, Tell
  PROVE  Sound'
<1>1. /\ UNCHANGED <<disk, marker, snap, db, staged, after, mem, loop, wire, work, trials, minted>>
      /\ pc = "tell" /\ pc' = "prune"
      /\ child'.version = child.version /\ child'.trial = child.trial
      /\ child'.update = child.update /\ child'.step = child.step /\ child'.commit
  BY Shape DEF Tell, Goes, durable, history, counters, Children
<1>2. /\ mem.phase = "committed" /\ ~Pending(mem) /\ ~Tried(mem) /\ disk = mem
      /\ child.step # "none" => child.trial
      /\ mem.id \in Nat
  BY <1>1, Shape, StateFields DEF Sound, Minds, Backed, Pending, Tried
<1>3. Placed' /\ Minds' /\ Follows'
  BY <1>1, <1>2 DEF Sound, Placed, Minds, Follows, Running, Undoing, Restores
<1>4. Backed' /\ Numbered'
  BY <1>1, <1>2 DEF Sound, Backed, Numbered, Running
<1>5. Recorded'
  BY <1>1, <1>2 DEF Sound, Backed, Recorded
<1>6. Saved' /\ Stocked' /\ Tallied'
  BY <1>1, <1>2 DEF Sound, Saved, Stocked, Tallied, Running, Restores
<1> QED BY <1>3, <1>4, <1>5, <1>6 DEF Sound

LEMMA PruneSound ==
  ASSUME TypeOK, Sound, Prune
  PROVE  Sound'
<1>1. /\ UNCHANGED <<disk, marker, snap, db, after, mem, loop, child, wire, work, trials, minted>>
      /\ pc = "prune" /\ pc' = "run" /\ staged \intersect {mem.active, mem.to} \subseteq staged'
  BY DEF Prune, Kept, Goes, history, counters
<1>2. /\ mem.phase = "committed" /\ ~Pending(mem) /\ ~Tried(mem) /\ disk = mem
      /\ Selected(mem) \in {mem.active, mem.to}
  BY <1>1 DEF Sound, Minds, Pending, Tried, Selected
<1>3. Placed' /\ Minds' /\ Follows'
  BY <1>1, <1>2 DEF Sound, Placed, Minds, Follows, Running, Undoing, Restores
<1>4. Backed' /\ Numbered' /\ Recorded'
  BY <1>1, <1>2 DEF Sound, Backed, Numbered, Recorded, Minds, Running
<1>5. Saved' /\ Stocked' /\ Tallied'
  BY <1>1, <1>2 DEF Sound, Saved, Stocked, Tallied, Running, Restores
<1> QED BY <1>3, <1>4, <1>5 DEF Sound

-----------------------------------------------------------------------------
(* The backend and the host.                                               *)

\* What the steps of the backend share.
LEMMA BackendFields ==
  ASSUME TypeOK, Backend
  PROVE  /\ UNCHANGED <<disk, marker, snap, pc, after, mem, loop, trials, minted>>
         /\ child'.version = child.version /\ child'.trial = child.trial
         /\ child'.update = child.update /\ child'.commit = child.commit
         /\ child.step # "none" /\ child'.step # "none"
         /\ \/ child'.step \in {child.step, "boot", "exited"}
            \/ child.step = "boot" /\ child'.step = IF child.trial THEN "booted" ELSE "live"
            \/ child.step = "booted" /\ child'.step = "waiting"
            \/ child.step = "waiting" /\ child.commit /\ child'.step = "live"
         /\ staged \subseteq staged' /\ db'.torn = db.torn
         /\ \/ work' = work /\ db'.work = db.work
            \/ child.step = "live" /\ work' = work + 1 /\ db'.work = db.work + 1
<1>1. child \in Children /\ child.trial \in BOOLEAN /\ db \in Databases
  BY Shape, ChildFields
<1>2. UNCHANGED <<disk, marker, snap, pc, after, mem, loop, trials, minted>>
  BY DEF Backend, Hello, Boot, Reports, GateOpens, Works, Exits, Stages, RequestUpdate,
         ChildOnly, counters
<1>3. CASE Hello \/ Reports \/ GateOpens \/ Exits
  BY <1>1, <1>2, <1>3 DEF Hello, Reports, GateOpens, Exits, Alive, Children
<1>4. CASE Boot
  <2>1. db'.torn = db.torn /\ db'.work = db.work
    BY <1>1, <1>4 DEF Boot, Databases
  <2> QED BY <1>1, <1>2, <1>4, <2>1 DEF Boot, Children
<1>5. CASE Works
  <2>1. db'.torn = db.torn /\ db'.work = db.work + 1
    BY <1>1, <1>5 DEF Works, Databases
  <2> QED BY <1>1, <1>2, <1>5, <2>1 DEF Works
<1>6. ASSUME NEW v \in Versions, Stages(v) \/ RequestUpdate(v)
      PROVE  /\ child'.version = child.version /\ child'.trial = child.trial
             /\ child'.update = child.update /\ child'.commit = child.commit
             /\ child.step = "live" /\ child'.step = "live"
             /\ staged \subseteq staged' /\ db' = db /\ work' = work
  BY <1>1, <1>6 DEF Stages, RequestUpdate, Children
<1> QED BY <1>2, <1>3, <1>4, <1>5, <1>6 DEF Backend

LEMMA BackendSound ==
  ASSUME TypeOK, Sound, Backend
  PROVE  Sound'
<1>1. child.step = "live" => /\ ~marker /\ ~Tried(mem) /\ ~Tried(disk)
                             /\ pc # "count" /\ pc # "unmark"
  <2> SUFFICES ASSUME child.step = "live" PROVE ~marker /\ ~Tried(mem) /\ ~Tried(disk)
                                                /\ pc # "count" /\ pc # "unmark"
    OBVIOUS
  <2>1. ~marker /\ Running /\ pc # "count" /\ pc # "unmark"
    BY DEF Sound, Placed, Running, Restores
  <2>2. ~Tried(mem)
    BY Shape, ChildFields DEF Sound, Backed
  <2>3. ~Tried(disk)
    BY <2>1, <2>2 DEF Sound, Follows, Minds, Tried
  <2> QED BY <2>1, <2>2, <2>3
<1>2. Placed' /\ Minds' /\ Follows'
  BY BackendFields
     DEF Sound, Placed, Minds, Follows, Running, Undoing, Restores, Pending, Tried
<1>3. Backed'
  BY BackendFields, Shape, ChildFields DEF Sound, Backed, Pending, Tried
<1>4. Numbered' /\ Recorded'
  BY BackendFields DEF Sound, Numbered, Recorded, Running, Restores
<1>5. Saved'
  BY <1>1, BackendFields DEF Sound, Saved, Running, Restores, Pending, Tried
<1>6. Stocked' /\ Tallied'
  BY BackendFields DEF Sound, Stocked, Tallied, Running, Restores, Pending
<1> QED BY <1>2, <1>3, <1>4, <1>5, <1>6 DEF Sound

LEMMA DiesSound ==
  ASSUME TypeOK, Sound, Dies
  PROVE  Sound'
<1>1. /\ UNCHANGED <<disk, marker, snap, db, staged, after, mem, loop, work, trials, minted>>
      /\ pc' = "down" /\ child'.step = "none" /\ child'.update = 0 /\ wire' = {} /\ minted \in Nat
  BY Shape, Literals DEF Dies, durable, history, counters
<1> QED BY <1>1 DEF Sound, Placed, Minds, Follows, Backed, Numbered, Recorded, Saved, Stocked,
                    Tallied, Running, Undoing, Restores, Tried, Pending

LEMMA AdoptSound ==
  ASSUME TypeOK, Sound, NEW v \in Versions, Adopt(v)
  PROVE  Sound'
<1>1. /\ UNCHANGED <<marker, pc, after, mem, loop, child, wire, work, trials, minted>>
      /\ pc = "down" /\ v \in staged' /\ disk' = Adopted(v)
      /\ snap'.kind = snap.kind /\ snap'.work = snap.work
      /\ db'.torn = db.torn /\ db'.work = db.work
  BY Shape DEF Adopt, history, Snapshots, Databases
<1>2. /\ disk'.id = 0 /\ ~Pending(disk') /\ ~Tried(disk') /\ Selected(disk') = v
      /\ minted \in Nat /\ trials \in Nat
  BY <1>1, Shape, AdoptedFields DEF Pending, Tried
<1> QED BY <1>1, <1>2 DEF Sound, Placed, Minds, Follows, Backed, Numbered, Recorded, Saved, Stocked,
                    Tallied, Running, Undoing, Restores

LEMMA SoundInit == Init => Sound
<1>1. 0 <= AttemptLimit
  BY LimitsAssumption
<1>2. Adopted(Self).id = 0
  BY AdoptedFields, VersionsAssumption
<1> QED BY <1>1, <1>2, Literals
    DEF Init, Sound, Placed, Minds, Follows, Backed, Numbered, Recorded, Saved, Stocked, Tallied,
        Running, Undoing, Restores, Tried, Pending, Adopted, NoChild, NoSnapshot

LEMMA SoundNext ==
  ASSUME TypeOK, Sound, [Next]_vars
  PROVE  Sound'
<1>1. CASE UNCHANGED vars
  BY <1>1 DEF vars, durable, history, counters, Sound, Placed, Minds, Follows, Backed, Numbered,
              Recorded, Saved, Stocked, Tallied, Running, Undoing, Restores, Tried, Pending
<1>2. CASE Supervise
  BY <1>2, MovesSound, RestoringSound, SettlingSound, DiscardSound, StageSelfSound,
     LoadSound, SelectFirstSound,
     CountSound, SpawnSound, ReadHelloSound, ReadPreparedSound, ReadRequestSound, StopSound,
     TellSound, PruneSound
     DEF Supervise, Moves, Restoring, Settling
<1>3. CASE Host
  BY <1>3, MovesSound, DiesSound, AdoptSound DEF Host, Moves
<1> QED BY <1>1, <1>2, <1>3, BackendSound DEF Next

-----------------------------------------------------------------------------
(* Types.                                                                  *)

LEMMA TypeInit == Init => TypeOK
<1> SUFFICES ASSUME Init PROVE TypeOK
  OBVIOUS
<1>1. Adopted(Self) \in States /\ [Adopted(Self) EXCEPT !.phase = "absent"] \in States
  BY AdoptedFields, VersionsAssumption DEF States
<1>2. [torn |-> FALSE, work |-> 0, by |-> Nothing] \in Databases
  BY LimitsAssumption DEF Databases
<1>3. "down" \in Places
  BY DEF Places
<1>4. [trial |-> FALSE, accepted |-> FALSE] \in [trial : BOOLEAN, accepted : BOOLEAN]
  OBVIOUS
<1>5. /\ 0 \in 0 .. MaxWork /\ 0 \in 0 .. MaxUpdates /\ 0 \in 0 .. MaxFaults
      /\ 0 \in 0 .. MaxAdoptions
  BY LimitsAssumption
<1> QED BY <1>1, <1>2, <1>3, <1>4, <1>5, Literals, VersionsAssumption DEF Init, TypeOK

LEMMA TypeState ==
  ASSUME TypeOK, Sound, StageSelf \/ Load \/ Settling \/ Count \/ ReadHello \/ ReadPrepared
  PROVE  TypeOK'
<1>1. mem \in States /\ disk \in States /\ "failed" \in Settled /\ "rolled-back" \in Settled
  BY Shape DEF Settled
<1>2. CASE Load
  BY <1>2, AdoptedFields, VersionsAssumption DEF TypeOK, Load, Goes, Places, history, counters
<1>3. CASE Settling
  BY <1>1, <1>3, SettleFields
     DEF TypeOK, Settling, Fail, RolledBack, Goes, Places, history, counters
<1>4. CASE Count
  <2>1. mem.attempts < AttemptLimit
    BY <1>4 DEF Sound, Minds, Count
  <2> QED BY <1>1, <1>4, <2>1, RetryFields DEF TypeOK, Count, Goes, Places, history, counters
<1>5. CASE ReadHello
  BY <1>1, <1>5, MarkFields DEF TypeOK, ReadHello, SaveFails, history, counters
<1>6. CASE ReadPrepared
  <2>1. Committed(mem) \in States
    BY <1>1, CommittedFields
  <2>2. [loop EXCEPT !.trial = FALSE] \in [trial : BOOLEAN, accepted : BOOLEAN]
    BY DEF TypeOK
  <2> QED BY <1>6, <2>1, <2>2
          DEF TypeOK, ReadPrepared, SaveFails, Goes, Stopping, Places, history, counters
<1>7. CASE StageSelf
  BY <1>7, VersionsAssumption DEF TypeOK, StageSelf, history, counters
<1> QED BY <1>2, <1>3, <1>4, <1>5, <1>6, <1>7

LEMMA TypeData ==
  ASSUME TypeOK, SelectFirst \/ Restoring \/ Discard
  PROVE  TypeOK'
<1>1. mem \in States /\ disk \in States /\ db \in Databases /\ snap \in Snapshots
  BY Shape
<1>2. CASE SelectFirst
  <2>1. snap' \in Snapshots
    BY <1>1, <1>2, DataFields, Literals DEF SelectFirst
  <2> QED BY <1>2, <2>1 DEF TypeOK, SelectFirst, Goes, Places, history, counters
<1>3. CASE Restoring
  <2>1. /\ UNCHANGED <<disk, snap, staged, mem, loop, child, wire, history, counters>>
        /\ pc' \in Places /\ after' \in Places /\ marker' \in BOOLEAN
    BY <1>3 DEF TypeOK, Restoring, RollBack, RemoveLive, CopyBack, Unmark, Goes, Places
  <2>2. db' \in Databases
    <3>1. [db EXCEPT !.torn = TRUE] \in Databases
      BY <1>1, DataFields
    <3>2. [torn |-> FALSE, work |-> snap.work, by |-> snap.by] \in Databases
      BY <1>1, DataFields
    <3> QED BY <1>1, <1>3, <3>1, <3>2 DEF Restoring, RollBack, RemoveLive, CopyBack, Unmark
  <2> QED BY <2>1, <2>2 DEF TypeOK, history, counters
<1>4. CASE Discard
  BY <1>4, Literals DEF TypeOK, Discard, Goes, history, counters
<1> QED BY <1>2, <1>3, <1>4

LEMMA TypeRequest ==
  ASSUME TypeOK, NEW v \in Versions, ReadRequest(v)
  PROVE  TypeOK'
<1>1. mem \in States /\ child \in Children /\ [child EXCEPT !.asked = FALSE] \in Children
  BY Shape, ChildFields
<1>2. [loop EXCEPT !.accepted = TRUE] \in [trial : BOOLEAN, accepted : BOOLEAN]
  BY DEF TypeOK
<1>3. minted < MaxUpdates => /\ minted + 1 \in Updates /\ minted + 1 \in 0 .. MaxUpdates
                             /\ Begin(mem, minted + 1, v) \in States
  <2>1. minted < MaxUpdates => minted + 1 \in Updates /\ minted + 1 \in 0 .. MaxUpdates
    BY Shape, LimitsAssumption DEF Updates
  <2> QED BY <1>1, <2>1, BeginFields
<1>4. wire' \subseteq Frames /\ child' \in Children
  BY <1>1 DEF TypeOK, ReadRequest, Refuses
<1>5. \/ /\ minted < MaxUpdates /\ minted' = minted + 1
         /\ disk' = Begin(mem, minted + 1, v) /\ trials' = 0
         /\ \/ mem' = disk' /\ loop' = [loop EXCEPT !.accepted = TRUE]
            \/ UNCHANGED <<mem, loop>>
      \/ UNCHANGED <<disk, minted, trials, mem, loop>>
  BY DEF ReadRequest, Refuses
<1>6. /\ disk' \in States /\ mem' \in States /\ minted' \in 0 .. MaxUpdates /\ trials' \in Nat
      /\ loop' \in [trial : BOOLEAN, accepted : BOOLEAN]
  <2>1. CASE UNCHANGED <<disk, minted, trials, mem, loop>>
    BY <2>1 DEF TypeOK
  <2>2. CASE /\ minted < MaxUpdates /\ minted' = minted + 1
             /\ disk' = Begin(mem, minted + 1, v) /\ trials' = 0
             /\ \/ mem' = disk' /\ loop' = [loop EXCEPT !.accepted = TRUE]
                \/ UNCHANGED <<mem, loop>>
    <3>1. disk' \in States /\ minted' \in 0 .. MaxUpdates /\ trials' \in Nat
      BY <1>3, <2>2
    <3>2. mem' \in States /\ loop' \in [trial : BOOLEAN, accepted : BOOLEAN]
      BY <1>1, <1>2, <2>2, <3>1 DEF TypeOK
    <3> QED BY <3>1, <3>2
  <2> QED BY <1>5, <2>1, <2>2
<1> QED BY <1>4, <1>6 DEF TypeOK, ReadRequest

LEMMA TypeChild ==
  ASSUME TypeOK, Spawn \/ Stop \/ Tell \/ Prune
  PROVE  TypeOK'
<1>1. mem \in States /\ child \in Children /\ [child EXCEPT !.commit = TRUE] \in Children
      /\ NoChild \in Children
  BY Shape, ChildFields, Literals
<1>2. CASE Spawn
  <2>1. Selected(mem) \in Versions /\ mem.id \in 0 .. MaxUpdates /\ 0 \in 0 .. MaxUpdates
        /\ Trial \in BOOLEAN
    BY <1>1, StateFields, LimitsAssumption DEF Trial
  <2>2. [NoChild EXCEPT !.version = Selected(mem), !.trial = Trial,
                        !.update = IF Trial THEN mem.id ELSE 0,
                        !.step = "start"] \in Children
    BY <2>1 DEF NoChild, Children
  <2>3. trials' \in Nat
    BY <1>2 DEF TypeOK, Spawn
  <2> QED BY <1>2, <2>1, <2>2, <2>3 DEF TypeOK, Spawn, Goes, Places, durable, counters
<1>3. CASE Stop
  BY <1>1, <1>3 DEF TypeOK, Stop, Goes, durable, history, counters
<1>4. CASE Tell
  BY <1>1, <1>4 DEF TypeOK, Tell, Goes, Places, durable, history, counters
<1>5. CASE Prune
  BY <1>5 DEF TypeOK, Prune, Goes, Places, history, counters
<1> QED BY <1>2, <1>3, <1>4, <1>5

LEMMA TypeMoves ==
  ASSUME TypeOK, Moves
  PROVE  TypeOK'
<1>1. /\ UNCHANGED <<durable, mem, loop, child, history, minted, adoptions>>
      /\ wire' \subseteq wire /\ pc' \in Places /\ after' \in Places
  BY DEF Moves, Start, Resume, SelectOrdinary, SelectExhausted, SelectAgain, SpawnFails, Stalls,
         GraceEnds, Exited, ReadFailed, Shutdown, Goes, Stopping, Places, TypeOK, durable, history,
         counters
<1>2. faults' \in 0 .. MaxFaults
  <2>1. faults' = faults \/ (faults < MaxFaults /\ faults' = faults + 1)
    BY DEF Moves, Start, Resume, SelectOrdinary, SelectExhausted, SelectAgain, SpawnFails, Stalls,
           GraceEnds, Exited, ReadFailed, Shutdown, counters
  <2> QED BY <2>1, LimitsAssumption DEF TypeOK
<1> QED BY <1>1, <1>2 DEF TypeOK, durable, history

LEMMA TypeBackend ==
  ASSUME TypeOK, Sound, Backend
  PROVE  TypeOK'
<1>1. /\ child \in Children /\ db \in Databases /\ snap \in Snapshots /\ child.trial \in BOOLEAN
      /\ child.version \in Versions
  BY Shape, ChildFields
<1>2. UNCHANGED <<disk, marker, snap, pc, after, mem, loop, trials, counters>>
  BY DEF Backend, Hello, Boot, Reports, GateOpens, Works, Exits, Stages, RequestUpdate, ChildOnly
<1>3. child' \in Children
  <2>1. \/ child' = child \/ child' = [child EXCEPT !.asked = TRUE]
        \/ \E step \in {"boot", "booted", "waiting", "live"} : child' = [child EXCEPT !.step = step]
        \/ \E code \in {"clean", "error", "restart"} :
              child' = [child EXCEPT !.step = "exited", !.code = code]
    BY <1>1
       DEF Backend, Hello, Boot, Reports, GateOpens, Works, Exits, Stages, RequestUpdate
  <2>2. [child EXCEPT !.asked = TRUE] \in Children
    BY <1>1, ChildFields
  <2>3. \A step \in {"boot", "booted", "waiting", "live"} : [child EXCEPT !.step = step] \in Children
    BY <1>1, ChildFields
  <2>4. \A code \in {"clean", "error", "restart"} :
           [child EXCEPT !.step = "exited", !.code = code] \in Children
    BY <1>1, ChildFields
  <2> QED BY <1>1, <2>1, <2>2, <2>3, <2>4, Zenon
<1>4. db' \in Databases /\ work' \in 0 .. MaxWork
  <2>1. \/ UNCHANGED <<db, work>>
        \/ db' = [db EXCEPT !.by = child.version] /\ work' = work
        \/ work < MaxWork /\ work' = work + 1 /\ db' = [db EXCEPT !.work = @ + 1]
    BY DEF Backend, Hello, Boot, Reports, GateOpens, Works, Exits, Stages, RequestUpdate
  <2>2. child.step # "none"
    BY BackendFields
  <2>3. db.work = work
    BY <2>2 DEF Sound, Placed, Saved, Restores
  <2>4. work < MaxWork => work + 1 \in 0 .. MaxWork
    BY LimitsAssumption DEF TypeOK
  <2>5. CASE UNCHANGED <<db, work>>
    BY <1>1, <2>5 DEF TypeOK
  <2>6. CASE db' = [db EXCEPT !.by = child.version] /\ work' = work
    BY <1>1, <2>6, DataFields DEF TypeOK
  <2>7. CASE work < MaxWork /\ work' = work + 1 /\ db' = [db EXCEPT !.work = @ + 1]
    BY <1>1, <2>3, <2>4, <2>7, DataFields
  <2> QED BY <2>1, <2>5, <2>6, <2>7
<1>5. staged' \subseteq Versions
  BY DEF Backend, Hello, Boot, Reports, GateOpens, Works, Exits, Stages, RequestUpdate, TypeOK
<1>6. wire' \subseteq Frames
  BY Literals
     DEF Backend, Hello, Boot, Reports, GateOpens, Works, Exits, Stages, RequestUpdate, TypeOK
<1> QED BY <1>2, <1>3, <1>4, <1>5, <1>6 DEF TypeOK, counters

LEMMA TypeHost ==
  ASSUME TypeOK, Dies \/ \E v \in Versions : Adopt(v)
  PROVE  TypeOK'
<1>1. CASE Dies
  <2>1. faults' \in 0 .. MaxFaults
    BY <1>1, LimitsAssumption DEF Dies, TypeOK
  <2> QED BY <1>1, <2>1, Literals DEF Dies, TypeOK, Places, durable, history
<1>2. ASSUME NEW v \in Versions, Adopt(v)
      PROVE  TypeOK'
  <2>1. adoptions' \in 0 .. MaxAdoptions
    BY <1>2, LimitsAssumption DEF Adopt, TypeOK
  <2>2. db' \in Databases /\ snap' \in Snapshots /\ disk' \in States
    BY <1>2, Shape, DataFields, AdoptedFields DEF Adopt
  <2> QED BY <1>2, <2>1, <2>2 DEF Adopt, TypeOK, history
<1> QED BY <1>1, <1>2

LEMMA TypeNext ==
  ASSUME TypeOK, Sound, [Next]_vars
  PROVE  TypeOK'
<1>1. CASE UNCHANGED vars
  BY <1>1 DEF vars, durable, history, counters, TypeOK
<1>2. CASE Supervise
  BY <1>2, TypeState, TypeData, TypeRequest, TypeChild, TypeMoves
     DEF Supervise, Moves, Restoring, Settling
<1>3. CASE Host
  BY <1>3, TypeMoves, TypeHost DEF Host, Moves
<1> QED BY <1>1, <1>2, <1>3, TypeBackend DEF Next

-----------------------------------------------------------------------------
(* Who owns the database.                                                  *)

LEMMA OwnedMoves ==
  ASSUME TypeOK, Sound, Owned, ~LateSpawnFaults, Moves
  PROVE  Owned'
<1>1. /\ UNCHANGED <<disk, marker, snap, db, mem, child>> /\ wire' \subseteq wire
      /\ pc' \notin {"unmark", "settle"}
  BY DEF Moves, Start, Resume, SelectOrdinary, SelectExhausted, SelectAgain, SpawnFails, Stalls,
         GraceEnds, Exited, ReadFailed, Shutdown, Goes, Stopping, durable
<1>2. /\ pc' = "fail" => pc = "spawn" /\ Pending(mem) /\ mem.attempts = 1
      /\ pc' = "count" => Tried(mem)
      /\ pc' = "spawn" => ~Pending(mem)
      /\ Running' => Running
  BY Shape, StateFields
     DEF Moves, Start, Resume, SelectOrdinary, SelectExhausted, SelectAgain, SpawnFails, Stalls,
         GraceEnds, Exited, ReadFailed, Shutdown, Goes, Stopping, Trial, Pending, Tried, Running,
         Restores
<1>3. Tried(mem) => mem.attempts # 0
  BY DEF Tried
<1> QED BY <1>1, <1>2, <1>3 DEF Owned, Owner, Tried, Pending

LEMMA OwnedRestoring ==
  ASSUME TypeOK, Sound, Owned, Restoring
  PROVE  Owned'
<1>1. /\ UNCHANGED <<disk, snap, mem, child, wire>> /\ child.step = "none" /\ wire = {}
      /\ \/ pc = "rollback" /\ pc' = "remove" /\ after' = "settle" /\ marker' = TRUE
            /\ UNCHANGED db
         \/ pc = "remove" /\ pc' = "copy" /\ UNCHANGED <<after, marker>> /\ db'.by = db.by
         \/ pc = "copy" /\ pc' = "unmark" /\ UNCHANGED <<after, marker>> /\ db'.by = snap.by
         \/ pc = "unmark" /\ pc' = after /\ marker' = FALSE /\ UNCHANGED <<after, db>>
            /\ after \in {"load", "settle"}
      /\ pc # "rollback" => marker
  BY Shape DEF Restoring, RollBack, RemoveLive, CopyBack, Unmark, Goes, Sound, Placed, Restores,
               Databases
<1>2. /\ pc = "rollback" => Running /\ Tried(mem) /\ disk.active = mem.active
      /\ pc' = "settle" => Running /\ Tried(mem)
      /\ Running' => Running
  <2>1. Committed(mem).active = mem.active
    BY Shape, CommittedFields
  <2>2. pc = "rollback" => Running /\ Tried(mem) /\ disk.active = mem.active
    BY <2>1 DEF Running, Undoing, Tried, Sound, Minds, Follows
  <2>3. pc' = "settle" => Running /\ Tried(mem)
    BY <1>1 DEF Running, Undoing, Restores, Sound, Minds
  <2> QED BY <1>1, <2>2, <2>3 DEF Running, Restores
<1> QED BY <1>1, <1>2 DEF Owned, Owner, Tried, Pending

LEMMA OwnedSettling ==
  ASSUME TypeOK, Sound, Owned, Settling
  PROVE  Owned'
<1>1. PICK phase \in {"failed", "rolled-back"} :
         /\ UNCHANGED <<marker, snap, db, child, wire>>
         /\ pc \in {"fail", "settle"} /\ pc' = "discard"
         /\ mem' = Settle(mem, phase) /\ disk' = mem'
  BY DEF Settling, Fail, RolledBack, Goes
<1>2. /\ disk'.phase = phase /\ disk'.active = mem.active /\ mem'.phase = phase
  BY <1>1, Shape, SettleFields DEF Settled
<1>3. child.step = "none" /\ ~marker /\ wire = {}
  BY <1>1 DEF Sound, Placed, Restores
<1> QED BY <1>1, <1>2, <1>3 DEF Owned, Owner, Tried, Pending

LEMMA OwnedDiscard ==
  ASSUME TypeOK, Sound, Owned, Discard
  PROVE  Owned'
<1>1. /\ UNCHANGED <<disk, marker, db, mem, child, wire>>
      /\ pc = "discard" /\ pc' \in {"select", "tell"}
  BY DEF Discard, Goes, Sound, Placed
<1>2. ~marker /\ ~Tried(mem) /\ ~Tried(disk)
  BY <1>1, Shape, StateFields DEF Sound, Placed, Minds, Follows, Running, Restores, Tried
<1> QED BY <1>1, <1>2 DEF Owned, Owner, Tried, Pending

LEMMA OwnedStageSelf ==
  ASSUME TypeOK, Sound, Owned, StageSelf
  PROVE  Owned'
<1>1. UNCHANGED <<disk, marker, snap, db, pc, after, mem, child, wire>>
  BY DEF StageSelf
<1> QED BY <1>1 DEF Owned, Owner, Running, Restores, Tried, Pending

LEMMA OwnedLoad ==
  ASSUME TypeOK, Sound, Owned, Load
  PROVE  Owned'
<1>1. /\ UNCHANGED <<marker, snap, db, child, wire>>
      /\ pc = "load" /\ pc' = "select" /\ mem' = disk'
      /\ \/ disk' = disk
         \/ disk.phase = "absent" /\ disk' = Adopted(Self)
  BY DEF Load, Goes
<1>2. child.step = "none" /\ ~marker /\ wire = {}
  BY <1>1 DEF Sound, Placed, Restores
<1>3. CASE disk' = disk
  BY <1>1, <1>2, <1>3 DEF Owned, Owner, Tried, Pending
<1>4. CASE disk.phase = "absent" /\ disk' = Adopted(Self)
  <2>1. disk'.phase = "none" /\ disk'.active = Self
    BY <1>4, AdoptedFields, VersionsAssumption
  <2>2. db.by \in {Nothing, Self}
    BY <1>2, <1>4 DEF Owned, Owner, Tried, Pending
  <2> QED BY <1>1, <1>2, <2>1, <2>2 DEF Owned, Owner, Tried, Pending
<1> QED BY <1>1, <1>3, <1>4

LEMMA OwnedSelectFirst ==
  ASSUME TypeOK, Sound, Owned, SelectFirst
  PROVE  Owned'
<1>1. /\ UNCHANGED <<disk, marker, db, mem, child, wire>>
      /\ pc = "select" /\ Pending(mem) /\ mem.attempts = 0
      /\ \/ pc' = "count" /\ snap'.by = db.by
         \/ pc' = "fail"
  BY DEF SelectFirst, Goes, Pending
<1>2. ~Tried(mem) /\ ~marker /\ child.step = "none" /\ disk = mem
  BY <1>1 DEF Sound, Placed, Follows, Minds, Undoing, Running, Restores, Tried
<1>3. db.by \in {Nothing, mem.active}
  BY <1>1, <1>2 DEF Owned, Owner, Pending
<1> QED BY <1>1, <1>2, <1>3 DEF Owned, Owner, Tried, Pending

LEMMA OwnedCount ==
  ASSUME TypeOK, Sound, Owned, Count
  PROVE  Owned'
<1>1. /\ UNCHANGED <<marker, snap, db, child, wire>>
      /\ pc = "count" /\ pc' = "spawn" /\ mem' = Retry(mem) /\ disk' = mem'
  BY DEF Count, Goes
<1>2. Pending(mem) /\ mem.attempts < AttemptLimit /\ child.step = "none" /\ ~marker /\ wire = {}
  BY <1>1 DEF Sound, Placed, Minds, Restores
<1>3. /\ mem'.attempts = mem.attempts + 1 /\ mem'.phase = mem.phase
      /\ mem'.active = mem.active /\ mem.attempts \in Nat
  BY <1>1, <1>2, Shape, StateFields, RetryFields
<1>4. Tried(mem') /\ (mem'.attempts = 1 => mem.attempts = 0)
  BY <1>2, <1>3 DEF Tried, Pending
<1>5. snap.by \in {Nothing, mem.active} /\ (mem.attempts = 0 => db.by \in {Nothing, mem.active})
  BY <1>1 DEF Owned, Running
<1> QED BY <1>1, <1>2, <1>3, <1>4, <1>5 DEF Owned, Tried, Pending

LEMMA OwnedSpawn ==
  ASSUME TypeOK, Sound, Owned, Spawn
  PROVE  Owned'
<1>1. /\ UNCHANGED <<disk, marker, snap, db, mem, wire>>
      /\ pc = "spawn" /\ pc' = "run"
      /\ child'.version = Selected(mem) /\ child'.trial = Pending(mem) /\ child'.step = "start"
  BY DEF Spawn, Goes, durable, Pending, Trial, NoChild
<1>2. ~marker /\ wire = {}
  BY <1>1 DEF Sound, Placed, Restores
<1>3. ~Pending(mem) =>
         \/ db.by \in {Nothing, Selected(mem)}
         \/ disk.phase = "committed" /\ db.by = disk.active
  <2> SUFFICES ASSUME ~Pending(mem)
               PROVE  \/ db.by \in {Nothing, Selected(mem)}
                      \/ disk.phase = "committed" /\ db.by = disk.active
    OBVIOUS
  <2>1. CASE Pending(disk)
    <3>1. ~Tried(disk) /\ disk.active = Selected(mem)
      BY <1>1, <2>1 DEF Sound, Follows, Running, Tried
    <3> QED BY <1>2, <2>1, <3>1 DEF Owned, Owner, Pending
  <2>2. CASE ~Pending(disk)
    <3>1. disk.phase = mem.phase /\ disk.active = mem.active /\ disk.to = mem.to
      BY <1>1, <2>2 DEF Sound, Follows, Running
    <3> QED BY <1>2, <2>2, <3>1 DEF Owned, Owner, Selected, Pending, Tried
  <2> QED BY <2>1, <2>2
<1> QED BY <1>1, <1>2, <1>3 DEF Owned, Owner, Tried, Running

LEMMA OwnedReadHello ==
  ASSUME TypeOK, Sound, Owned, ReadHello
  PROVE  Owned'
<1>1. /\ UNCHANGED <<marker, snap, db, pc, after, child>>
      /\ pc = "run" /\ wire' \subseteq wire
      /\ \/ UNCHANGED <<disk, mem>>
         \/ /\ ~loop.trial /\ MarkReported(mem) # mem
            /\ mem' \in {mem, MarkReported(mem)} /\ disk' \in {disk, MarkReported(mem)}
  BY DEF ReadHello, SaveFails
<1>2. /\ MarkReported(mem).phase = mem.phase /\ MarkReported(mem).active = mem.active
      /\ MarkReported(mem).id = mem.id /\ MarkReported(mem).to = mem.to
      /\ MarkReported(mem).attempts = mem.attempts
  BY Shape, MarkFields
<1>3. CASE UNCHANGED <<disk, mem>>
  BY <1>1, <1>3 DEF Owned, Owner, Tried, Pending, Running, Restores
<1>4. CASE /\ ~loop.trial /\ MarkReported(mem) # mem
           /\ mem' \in {mem, MarkReported(mem)} /\ disk' \in {disk, MarkReported(mem)}
  <2>1. ~marker /\ ~Pending(mem) /\ mem.phase # "absent"
    BY <1>1, <1>4, PendingMarked, Shape DEF Sound, Placed, Minds, Running, Restores
  <2>2. ~Pending(mem') /\ ~Tried(mem')
    BY <1>2, <1>4, <2>1 DEF Pending, Tried
  <2>3. CASE disk' = disk
    BY <1>1, <2>2, <2>3 DEF Owned, Owner, Tried, Pending, Running, Restores
  <2>4. CASE disk' = MarkReported(mem)
    <3>1. ~Tried(disk) /\ (Pending(disk) => disk.active = Selected(mem))
          /\ (~Pending(disk) => /\ disk.phase = mem.phase /\ disk.active = mem.active
                                /\ disk.to = mem.to)
      BY <1>1, <2>1 DEF Sound, Follows, Running, Tried
    <3>2. Owner(disk, db.by)
      BY <2>1, <3>1 DEF Owned
    <3>3. Owner(disk', db.by)
      BY <1>2, <2>1, <2>4, <3>1, <3>2 DEF Owner, Selected, Pending
    <3>4. ~Tried(disk') /\ disk'.phase # "absent" /\ disk'.phase = mem.phase /\ disk'.active = mem.active
      BY <1>2, <2>1, <2>4 DEF Tried, Pending
    <3>5. child.step # "none" /\ ~child.trial =>
             \/ db.by \in {Nothing, child.version}
             \/ disk'.phase = "committed" /\ db.by = disk'.active
      BY <3>1, <3>4 DEF Owned, Pending
    <3> QED BY <1>1, <2>1, <2>2, <3>3, <3>4, <3>5 DEF Owned
  <2> QED BY <1>4, <2>3, <2>4
<1> QED BY <1>1, <1>3, <1>4

LEMMA OwnedReadPrepared ==
  ASSUME TypeOK, Sound, Owned, ReadPrepared
  PROVE  Owned'
<1>1. /\ UNCHANGED <<marker, snap, db, child>>
      /\ pc = "run" /\ loop.trial /\ wire' \subseteq wire /\ Frame("prepared") \in wire
      /\ \/ mem' = Committed(mem) /\ disk' = Committed(mem) /\ pc' = "discard"
         \/ disk' \in {disk, Committed(mem)} /\ mem' = mem /\ pc' = "stop"
  BY DEF ReadPrepared, SaveFails, Goes, Stopping
<1>2. /\ Committed(mem).phase = "committed" /\ Committed(mem).active = mem.active
      /\ Committed(mem).to = mem.to
  BY Shape, CommittedFields
<1>3. /\ Tried(mem) /\ disk = mem /\ ~marker /\ Running
      /\ child.trial /\ child.step # "none" /\ child.version = mem.to
  BY <1>1 DEF Sound, Placed, Minds, Follows, Backed, Running, Undoing, Restores, Tried, Pending,
              Selected
<1>4. db.by = mem.to
  BY <1>1, <1>3 DEF Owned
<1>5. ~Tried(Committed(mem))
  BY <1>2 DEF Tried, Pending
<1> QED BY <1>1, <1>2, <1>3, <1>4, <1>5 DEF Owned, Owner

LEMMA OwnedReadRequest ==
  ASSUME TypeOK, Sound, Owned, NEW v \in Versions, ReadRequest(v)
  PROVE  Owned'
<1> DEFINE begun == Begin(mem, minted + 1, v)
<1>1. /\ UNCHANGED <<marker, snap, db, pc, after>>
      /\ pc = "run" /\ wire' \subseteq wire /\ Request(v) \in wire
      /\ \/ /\ ~loop.trial /\ ~loop.accepted /\ minted < MaxUpdates
            /\ disk' = begun /\ mem' \in {mem, begun}
         \/ UNCHANGED <<disk, mem>>
  BY DEF ReadRequest, Refuses
<1>2. child'.version = child.version /\ child'.trial = child.trial /\ child'.step = child.step
  <2>1. child' = child \/ child' = [child EXCEPT !.asked = FALSE]
    BY DEF ReadRequest, Refuses
  <2> QED BY <2>1, Shape DEF Children
<1>3. minted < MaxUpdates =>
         /\ begun.active = Selected(mem) /\ begun.phase = "pending" /\ begun.attempts = 0
  <2>1. minted < MaxUpdates => minted + 1 \in Updates
    BY Shape, LimitsAssumption DEF Updates
  <2> QED BY <2>1, Shape, BeginFields
<1> HIDE DEF begun
<1>4. CASE UNCHANGED <<disk, mem>>
  BY <1>1, <1>2, <1>4 DEF Owned, Owner, Tried, Pending, Running, Restores
<1>5. CASE /\ ~loop.trial /\ ~loop.accepted /\ minted < MaxUpdates
           /\ disk' = begun /\ mem' \in {mem, begun}
  <2>1. ~Pending(mem) /\ ~marker /\ child.step # "none" /\ child.version = Selected(mem)
    BY <1>1, <1>5 DEF Sound, Placed, Minds, Backed, Running, Restores
  <2>2. db.by = child.version
    BY <1>1 DEF Owned
  <2>3. ~Tried(mem') /\ ~Tried(disk') /\ disk'.active = Selected(mem) /\ disk'.phase = "pending"
    BY <1>3, <1>5, <2>1 DEF Tried, Pending
  <2> QED BY <1>1, <1>2, <2>1, <2>2, <2>3 DEF Owned, Owner
<1> QED BY <1>1, <1>4, <1>5

LEMMA OwnedChild ==
  ASSUME TypeOK, Sound, Owned, Stop \/ Tell \/ Prune \/ Dies
  PROVE  Owned'
<1>1. /\ UNCHANGED <<disk, marker, snap, db, mem>> /\ wire' \subseteq wire
      /\ \/ /\ child'.step = child.step /\ child'.version = child.version
            /\ child'.trial = child.trial
         \/ child'.step = "none" /\ wire' = {}
  <2>1. [child EXCEPT !.commit = TRUE].step = child.step
        /\ [child EXCEPT !.commit = TRUE].version = child.version
        /\ [child EXCEPT !.commit = TRUE].trial = child.trial
    BY Shape DEF Children
  <2> QED BY <2>1, Literals DEF Stop, Tell, Prune, Dies, durable
<1>2. pc' \notin {"unmark", "fail", "settle", "count", "spawn"} /\ (Running' => Running)
  BY DEF Stop, Tell, Prune, Dies, Goes, Sound, Placed, Running, Restores
<1> QED BY <1>1, <1>2 DEF Owned, Owner, Tried, Pending

LEMMA OwnedBackend ==
  ASSUME TypeOK, Sound, Owned, Backend
  PROVE  Owned'
<1>1. /\ ~marker /\ pc \notin {"unmark", "fail", "settle", "count", "spawn"} /\ Running
  BY BackendFields DEF Sound, Placed, Running, Restores
<1>2. /\ UNCHANGED <<disk, marker, snap, pc, after, mem>>
      /\ child'.version = child.version /\ child'.trial = child.trial
      /\ child.step # "none" /\ child'.step # "none"
  BY BackendFields
<1>3. CASE Boot
  <2>1. db'.by = child.version /\ wire' = wire /\ child.step = "boot"
    BY <1>3, Shape DEF Boot, Databases
  <2>2. ~Tried(disk) => Owner(disk, child.version)
    <3>1. CASE Tried(mem)
      <4>1. disk = mem \/ disk = Committed(mem)
        BY <1>1, <3>1 DEF Sound, Follows, Tried
      <4>2. child.version = mem.to
        BY <1>2, <3>1 DEF Sound, Backed, Selected, Tried, Pending
      <4>3. Committed(mem).phase = "committed" /\ Committed(mem).to = mem.to
        BY Shape, CommittedFields
      <4> QED BY <3>1, <4>1, <4>2, <4>3 DEF Owner
    <3>2. CASE Pending(mem) /\ ~Tried(mem)
      <4>1. disk = mem
        BY <1>1, <3>2 DEF Sound, Follows, Minds
      <4> QED BY <1>2, <3>2, <4>1 DEF Sound, Backed, Owner
    <3>3. CASE ~Pending(mem)
      <4>1. child.version = Selected(mem)
        BY <1>2, <3>3 DEF Sound, Backed
      <4> QED BY <1>1, <3>3, <4>1 DEF Sound, Follows, Owner, Selected, Pending
    <3> QED BY <3>1, <3>2, <3>3
  <2>3. child.trial => child'.step = "booted"
    BY <1>3, Shape DEF Boot, Children
  <2>4. (Frame("prepared") \in wire => child.trial)
    BY DEF Owned
  <2> QED BY <1>1, <1>2, <2>1, <2>2, <2>4 DEF Owned
<1>4. CASE ~Boot
  <2>1. db'.by = db.by
    BY <1>4, Shape
       DEF Backend, Hello, Boot, Reports, GateOpens, Works, Exits, Stages, RequestUpdate, Databases
  <2>2. child'.step \in {"booted", "waiting", "live"} => child.step \in {"booted", "waiting", "live"}
    BY <1>4, Shape
       DEF Backend, Hello, Boot, Reports, GateOpens, Works, Exits, Stages, RequestUpdate, Children
  <2>3. Frame("prepared") \in wire' => Frame("prepared") \in wire \/ child.step = "booted"
    BY <1>4
       DEF Backend, Hello, Boot, Reports, GateOpens, Works, Exits, Stages, RequestUpdate, Frame,
           Request
  <2>4. ASSUME NEW v \in Versions, Request(v) \in wire'
        PROVE  Request(v) \in wire \/ child.step = "live"
    BY <1>4, <2>4
       DEF Backend, Hello, Boot, Reports, GateOpens, Works, Exits, Stages, RequestUpdate, Frame,
           Request
  <2>5. child.step = "booted" => child.trial
    BY DEF Sound, Backed
  <2>6. /\ child'.step \in {"booted", "waiting", "live"} => db'.by = child'.version
        /\ Frame("prepared") \in wire' => child'.trial /\ db'.by = child'.version
        /\ \A v \in Versions : Request(v) \in wire' => db'.by = child'.version
    BY <1>2, <2>1, <2>2, <2>3, <2>4, <2>5 DEF Owned
  <2> QED BY <1>1, <1>2, <2>1, <2>6 DEF Owned, Owner, Tried, Pending
<1> QED BY <1>3, <1>4

LEMMA OwnedAdopt ==
  ASSUME TypeOK, Sound, Owned, NEW v \in Versions, Adopt(v)
  PROVE  Owned'
<1>1. /\ UNCHANGED <<marker, pc, mem, child, wire>> /\ pc = "down" /\ disk' = Adopted(v)
      /\ snap'.by = Nothing /\ db'.by = Nothing
  BY Shape DEF Adopt, Snapshots, Databases
<1>2. disk'.phase = "none"
  BY <1>1, AdoptedFields
<1>3. child.step = "none" /\ wire = {}
  BY <1>1 DEF Sound, Placed
<1> QED BY <1>1, <1>2, <1>3 DEF Owned, Owner, Tried, Pending, Running, Restores

LEMMA OwnedInit == Init => Owned
<1> SUFFICES ASSUME Init PROVE Owned
  OBVIOUS
<1>1. disk.phase = "absent" /\ disk.active = Self /\ child.step = "none"
  BY DEF Init, Adopted, NoChild
<1> QED BY <1>1 DEF Init, Owned, Owner, Tried, Pending, Running, Restores

LEMMA OwnedNext ==
  ASSUME TypeOK, Sound, Owned, ~LateSpawnFaults, [Next]_vars
  PROVE  Owned'
<1>1. CASE UNCHANGED vars
  BY <1>1 DEF vars, durable, Owned, Owner, Running, Restores, Tried, Pending
<1>2. CASE Supervise
  BY <1>2, OwnedMoves, OwnedRestoring, OwnedSettling, OwnedDiscard, OwnedStageSelf,
     OwnedLoad, OwnedSelectFirst,
     OwnedCount, OwnedSpawn, OwnedReadHello, OwnedReadPrepared, OwnedReadRequest, OwnedChild
     DEF Supervise, Moves, Restoring, Settling
<1>3. CASE Host
  BY <1>3, OwnedMoves, OwnedChild, OwnedAdopt DEF Host, Moves
<1> QED BY <1>1, <1>2, <1>3, OwnedBackend DEF Next

-----------------------------------------------------------------------------
(* The theorems.                                                           *)

\* The inductive invariant holds in every state (supervise.go, state.go,
\* snapshot.go): what every later theorem rests on.
THEOREM Inductive == Spec => []IInv
<1>1. Init => IInv
  BY TypeInit, SoundInit, OwnedInit DEF IInv
<1>2. IInv /\ [Next]_vars => IInv'
  BY TypeNext, SoundNext, OwnedNext DEF IInv
<1> QED BY <1>1, <1>2, PTL DEF Spec

\* Every variable keeps its type.
THEOREM TypeCorrect == Spec => []TypeOK
<1>1. IInv => TypeOK
  BY DEF IInv
<1> QED BY <1>1, Inductive, PTL

\* RestoreSnapshot and ResumeRestore put back all that live backends recorded,
\* whatever crashes, failed writes and repeated trials lie between.
THEOREM WorkIsKept == Spec => []NothingLost
<1>1. IInv => NothingLost
  BY DEF IInv, Sound, Saved, NothingLost
<1> QED BY <1>1, Inductive, PTL

\* A trial acts only on an update whose commit every later start reads back.
THEOREM ActsCommitted == Spec => []ActsOnceCommitted
<1>1. IInv => ActsOnceCommitted
  BY ChildFields, Shape DEF IInv, Sound, Backed, Recorded, ActsOnceCommitted
<1> QED BY <1>1, Inductive, PTL

\* The next start finds the snapshot of a marked restore, the snapshot of an
\* update that was tried, and the binary of what it may select.
THEOREM StartsGoOn == Spec => []NeverStranded
<1>1. IInv => NeverStranded
  BY DEF IInv, Sound, Saved, Stocked, Tried, Pending, NeverStranded
<1> QED BY <1>1, Inductive, PTL

\* The attempts that Count saves before a start bound the trials of an update.
THEOREM TrialsBounded == Spec => []TrialsAreBounded
<1>1. IInv => TrialsAreBounded
  BY DEF IInv, Sound, Tallied, TrialsAreBounded
<1> QED BY <1>1, Inductive, PTL

\* Where the start of a repeated trial does not fail, a backend finds the
\* database its own version or the one before it wrote, never half a restore.
THEOREM PreviousIsSafe == ASSUME ~LateSpawnFaults PROVE Spec => []OwnData
<1>1. IInv => OwnData
  BY DEF IInv, Sound, Owned, Placed, Saved, OwnData, Alive, Restores
<1> QED BY <1>1, Inductive, PTL

=============================================================================
