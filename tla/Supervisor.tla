----------------------------- MODULE Supervisor -----------------------------
(***************************************************************************)
(* The supervisor of a headless backend (internal/supervise).  It runs the *)
(* version its state file selects as a child, and replaces it on request:  *)
(* the child stops, the database is copied, the target boots as a trial    *)
(* that may migrate but not act, and is committed when it reports prepared *)
(* or rolled back by putting the copy back.  Anything may end between two  *)
(* steps; the next start goes on from what is durable.                     *)
(*                                                                         *)
(* A step is what lies between two points at which a crash can tell the    *)
(* disk apart.  A function of the supervisor that returns an error leaves  *)
(* what a crash at the same point would, so `Dies' stands for both.        *)
(***************************************************************************)
EXTENDS Naturals

CONSTANTS
    Versions,         \* builds that may be staged
    Self,             \* the supervisor's own, adopted when nothing is selected
    Nothing,          \* no version
    AttemptLimit,     \* TrialAttemptLimit
    LateSpawnFaults,  \* may the start of a process fail for a repeated trial?
    MaxUpdates,       \* bound: update records
    MaxWork,          \* bound: what the backends record
    MaxFaults,        \* bound: crashes and shutdowns
    MaxAdoptions      \* bound: local updates by the operator

ASSUME VersionsAssumption == Self \in Versions /\ Nothing \notin Versions
ASSUME LimitsAssumption ==
    /\ AttemptLimit \in Nat \ {0} /\ LateSpawnFaults \in BOOLEAN
    /\ MaxUpdates \in Nat /\ MaxWork \in Nat
    /\ MaxFaults \in Nat /\ MaxAdoptions \in Nat

VARIABLES
    disk,      \* service-state.json
    marker,    \* restore-marker.json exists
    snap,      \* the snapshot directory
    db,        \* the live database
    staged,    \* version directories
    pc,        \* where the supervisor is; "down" when it does not run
    after,     \* where it goes once it has stopped, restored or discarded
    mem,       \* its State
    loop,      \* runChild's own variables
    child,     \* the backend process
    wire,      \* frames of the child the supervisor has not read
    minted,    \* ids given to updates
    work,      \* history: what live backends recorded
    trials,    \* history: processes started as trials of the newest update
    faults, adoptions

durable == <<disk, marker, snap, db, staged>>
history == <<work, trials>>
counters == <<minted, faults, adoptions>>
vars == <<durable, pc, after, mem, loop, child, wire, history, counters>>

Updates == 1 .. MaxUpdates
Settled == {"committed", "rolled-back", "failed"}

\* State and its record; Validate makes From the active version.
States == [active : Versions, id : 0 .. MaxUpdates,
           phase : {"absent", "none", "pending"} \union Settled,
           to : Versions, attempts : 0 .. AttemptLimit, reported : BOOLEAN]
Adopted(v) == [active |-> v, id |-> 0, phase |-> "none", to |-> v,
               attempts |-> 0, reported |-> FALSE]

\* History: `by' is the version that opened and migrated the database last.
\* What an operator selects by hand may run over anything.
Databases == [torn : BOOLEAN, work : 0 .. MaxWork, by : Versions \union {Nothing}]
\* A directory whose removal stopped half way is gutted: a manifest, no files.
Snapshots == [kind : {"none", "gutted", "whole"}, work : 0 .. MaxWork,
              by : Versions \union {Nothing}]
NoSnapshot == [kind |-> "none", work |-> 0, by |-> Nothing]
Gutted == [NoSnapshot EXCEPT !.kind = "gutted"]

Frames == [kind : {"hello", "prepared", "failed"}, target : {Nothing}]
          \union [kind : {"request"}, target : Versions]
Frame(kind) == [kind |-> kind, target |-> Nothing]

Children == [version : Versions, trial : BOOLEAN, update : 0 .. MaxUpdates,
             step : {"none", "start", "boot", "booted", "waiting", "live", "exited"},
             code : {"none", "clean", "error", "restart"}, asked : BOOLEAN,
             commit : BOOLEAN]
NoChild == [version |-> Self, trial |-> FALSE, update |-> 0, step |-> "none",
            code |-> "none", asked |-> FALSE, commit |-> FALSE]

Places == {"down", "resume", "remove", "copy", "unmark", "load", "select", "fail",
           "count", "spawn", "run", "stop", "tell", "prune", "rollback", "settle",
           "discard"}

TypeOK ==
    /\ disk \in States /\ mem \in States
    /\ marker \in BOOLEAN /\ snap \in Snapshots /\ db \in Databases
    /\ staged \subseteq Versions
    /\ pc \in Places /\ after \in Places
    /\ loop \in [trial : BOOLEAN, accepted : BOOLEAN]
    /\ child \in Children /\ wire \subseteq Frames
    /\ work \in 0 .. MaxWork /\ trials \in Nat
    /\ minted \in 0 .. MaxUpdates /\ faults \in 0 .. MaxFaults /\ adoptions \in 0 .. MaxAdoptions

Alive == child.step \notin {"none", "exited"}

\* A fresh install, over a database that an unsupervised backend may have used.
Init ==
    /\ disk = [Adopted(Self) EXCEPT !.phase = "absent"]
    /\ marker = FALSE /\ snap = NoSnapshot
    /\ db = [torn |-> FALSE, work |-> 0, by |-> Nothing]
    /\ staged = {}
    /\ pc = "down" /\ after = "down" /\ mem = Adopted(Self)
    /\ loop = [trial |-> FALSE, accepted |-> FALSE]
    /\ child = NoChild /\ wire = {}
    /\ work = 0 /\ trials = 0 /\ minted = 0
    /\ faults = 0 /\ adoptions = 0

-----------------------------------------------------------------------------
(* The durable state: the transitions of State.                            *)

\* Select's version.
Selected(s) == IF s.phase \in {"pending", "committed"} THEN s.to ELSE s.active

Begin(s, id, target) ==
    [active |-> Selected(s), id |-> id, phase |-> "pending", to |-> target,
     attempts |-> 0, reported |-> FALSE]
Retry(s) == [s EXCEPT !.attempts = @ + 1]
Settle(s, phase) == [s EXCEPT !.phase = phase]
MarkReported(s) == [s EXCEPT !.reported = @ \/ s.phase \in Settled]
Committed(s) == MarkReported(Settle(s, "committed"))

\* A write returns an error before its rename, or after it.
SaveFails(s) == disk' \in {disk, s}

Goes(place) == pc' = place

-----------------------------------------------------------------------------
(* Run, up to the choice of a version.                                     *)

Start ==
    /\ pc = "down" /\ Goes("resume")
    /\ UNCHANGED <<durable, after, mem, loop, child, wire, history, counters>>

\* Mutant: the state file is read over an interrupted restore.
Resume_Ignores ==
    /\ pc = "resume" /\ Goes("load") /\ after' = "load"
    /\ UNCHANGED <<durable, mem, loop, child, wire, history, counters>>

\* ResumeRestore finishes a marked restore before the state file is read.
Resume ==
    /\ pc = "resume"
    /\ Goes(IF marker THEN "remove" ELSE "load") /\ after' = "load"
    /\ UNCHANGED <<durable, mem, loop, child, wire, history, counters>>

\* applyRestore reads the snapshot's files before it removes the live ones.
RemoveLive ==
    /\ pc = "remove" /\ snap.kind = "whole" /\ Goes("copy")
    /\ db' = [db EXCEPT !.torn = TRUE]
    /\ UNCHANGED <<disk, marker, snap, staged, after, mem, loop, child, wire, history, counters>>

CopyBack ==
    /\ pc = "copy" /\ Goes("unmark")
    /\ db' = [torn |-> FALSE, work |-> snap.work, by |-> snap.by]
    /\ UNCHANGED <<disk, marker, snap, staged, after, mem, loop, child, wire, history, counters>>

Unmark ==
    /\ pc = "unmark" /\ Goes(after) /\ marker' = FALSE
    /\ UNCHANGED <<disk, snap, db, staged, after, mem, loop, child, wire, history, counters>>

\* A fresh install stages the supervisor itself, unless an earlier start did, ...
StageSelf ==
    /\ pc = "load" /\ disk.phase = "absent" /\ Self \notin staged
    /\ staged' = staged \union {Self}
    /\ UNCHANGED <<disk, marker, snap, db, pc, after, mem, loop, child, wire, history, counters>>

\* ... and adopts that version; every other start reads the state file.
Load ==
    /\ pc = "load" /\ Goes("select")
    /\ IF disk.phase = "absent"
       THEN Self \in staged /\ mem' = Adopted(Self) /\ disk' = mem'
       ELSE mem' = disk /\ UNCHANGED disk
    /\ UNCHANGED <<marker, snap, db, staged, after, loop, child, wire, history, counters>>

SelectOrdinary ==
    /\ pc = "select" /\ mem.phase # "pending" /\ Goes("spawn")
    /\ UNCHANGED <<durable, after, mem, loop, child, wire, history, counters>>

SelectExhausted ==
    /\ pc = "select" /\ mem.phase = "pending" /\ mem.attempts >= AttemptLimit
    /\ Goes("rollback")
    /\ UNCHANGED <<durable, after, mem, loop, child, wire, history, counters>>

\* A trial that was spawned before needs the snapshot taken for it: without
\* one Run returns an error.
SelectAgain ==
    /\ pc = "select" /\ mem.phase = "pending" /\ mem.attempts \in 1 .. AttemptLimit - 1
    /\ snap.kind # "none" /\ Goes("count")
    /\ UNCHANGED <<durable, after, mem, loop, child, wire, history, counters>>

\* Mutant: a snapshot that is there is taken for this update's.
SelectFirst_Trusts ==
    /\ pc = "select" /\ mem.phase = "pending" /\ mem.attempts = 0
    /\ \/ /\ Goes("count")
          /\ snap' = IF snap.kind = "whole" THEN snap
                     ELSE [kind |-> "whole", work |-> db.work, by |-> db.by]
       \/ Goes("fail") /\ snap' \in {snap, Gutted, NoSnapshot}
    /\ UNCHANGED <<disk, marker, db, staged, after, mem, loop, child, wire, history, counters>>

\* Mutant: the snapshot belongs to the stop, not to the first trial.
SelectFirst_AfterStop ==
    /\ pc = "select" /\ mem.phase = "pending" /\ mem.attempts = 0
    /\ \/ /\ Goes("count")
          /\ snap' = IF after = "load" THEN snap
                     ELSE [kind |-> "whole", work |-> db.work, by |-> db.by]
       \/ Goes("fail") /\ snap' \in {snap, Gutted, NoSnapshot}
    /\ UNCHANGED <<disk, marker, db, staged, after, mem, loop, child, wire, history, counters>>

\* TakeSnapshot clears the directory, copies, and writes the manifest last; the
\* sync of the directory may still fail.
SelectFirst ==
    LET taken == [kind |-> "whole", work |-> db.work, by |-> db.by]
    IN  /\ pc = "select" /\ mem.phase = "pending" /\ mem.attempts = 0
        /\ \/ Goes("count") /\ snap' = taken
           \/ Goes("fail") /\ snap' \in {snap, Gutted, NoSnapshot, taken}
        /\ UNCHANGED <<disk, marker, db, staged, after, mem, loop, child, wire, history, counters>>

\* settleFailure.
Fail ==
    /\ pc = "fail" /\ Goes("discard") /\ after' = "select"
    /\ mem' = Settle(mem, "failed") /\ disk' = mem'
    /\ UNCHANGED <<marker, snap, db, staged, loop, child, wire, history, counters>>

\* Mutant: the attempt is counted in memory only.
Count_Unsaved ==
    /\ pc = "count" /\ Goes("spawn")
    /\ mem' = Retry(mem)
    /\ UNCHANGED <<durable, after, loop, child, wire, history, counters>>

\* The attempt is counted before it happens.
Count ==
    /\ pc = "count" /\ Goes("spawn")
    /\ mem' = Retry(mem) /\ disk' = mem'
    /\ UNCHANGED <<marker, snap, db, staged, after, loop, child, wire, history, counters>>

Trial == mem.phase = "pending"

Spawn ==
    /\ pc = "spawn" /\ Selected(mem) \in staged /\ Goes("run")
    /\ child' = [NoChild EXCEPT !.version = Selected(mem), !.trial = Trial,
                                !.update = IF Trial THEN mem.id ELSE 0,
                                !.step = "start"]
    /\ loop' = [trial |-> Trial, accepted |-> FALSE]
    /\ trials' = IF Trial THEN trials + 1 ELSE trials
    /\ UNCHANGED <<durable, after, mem, wire, work, counters>>

\* The start of a trial fails; an ordinary one that fails ends Run.
SpawnFails ==
    /\ pc = "spawn" /\ Trial /\ (mem.attempts = 1 \/ LateSpawnFaults)
    /\ Goes("fail")
    /\ UNCHANGED <<durable, after, mem, loop, child, wire, history, counters>>

-----------------------------------------------------------------------------
(* runChild: one select over the child's exit, its frames and the timers.  *)

Stopping(next) == Goes("stop") /\ after' = next

\* A child that is not a trial was handed the outcome in its first frame.
ReadHello ==
    /\ pc = "run" /\ Frame("hello") \in wire
    /\ wire' = wire \ {Frame("hello")}
    /\ IF loop.trial \/ MarkReported(mem) = mem
       THEN UNCHANGED <<disk, mem>>
       ELSE \/ mem' = MarkReported(mem) /\ disk' = mem'
            \/ SaveFails(MarkReported(mem)) /\ UNCHANGED mem
    /\ UNCHANGED <<marker, snap, db, staged, pc, after, loop, child, history, counters>>

\* Mutant: a commit that could not be recorded is announced all the same.
ReadPrepared_Announces ==
    /\ pc = "run" /\ loop.trial /\ Frame("prepared") \in wire /\ Frame("hello") \notin wire
    /\ wire' = wire \ {Frame("prepared")}
    /\ mem' = Committed(mem) /\ SaveFails(mem')
    /\ loop' = [loop EXCEPT !.trial = FALSE]
    /\ Goes("discard") /\ after' = "tell"
    /\ UNCHANGED <<marker, snap, db, staged, child, history, counters>>

\* Mutant: a commit that could not be recorded leaves the child waiting for it.
ReadPrepared_Ignores ==
    /\ pc = "run" /\ loop.trial /\ Frame("prepared") \in wire /\ Frame("hello") \notin wire
    /\ wire' = wire \ {Frame("prepared")}
    /\ loop' = [loop EXCEPT !.trial = FALSE]
    /\ \/ /\ mem' = Committed(mem) /\ disk' = mem'
          /\ Goes("discard") /\ after' = "tell"
       \/ SaveFails(Committed(mem)) /\ UNCHANGED <<mem, pc, after>>
    /\ UNCHANGED <<marker, snap, db, staged, child, history, counters>>

\* commit: durable first; one that cannot be recorded is a failed trial.
ReadPrepared ==
    /\ pc = "run" /\ loop.trial /\ Frame("prepared") \in wire /\ Frame("hello") \notin wire
    /\ wire' = wire \ {Frame("prepared")}
    /\ \/ /\ mem' = Committed(mem) /\ disk' = mem'
          /\ loop' = [loop EXCEPT !.trial = FALSE]
          /\ Goes("discard") /\ after' = "tell"
       \/ /\ SaveFails(Committed(mem)) /\ Stopping("rollback")
          /\ UNCHANGED <<mem, loop>>
    /\ UNCHANGED <<marker, snap, db, staged, child, history, counters>>

ReadFailed ==
    /\ pc = "run" /\ Frame("failed") \in wire /\ Frame("hello") \notin wire
    /\ wire' = wire \ {Frame("failed")}
    /\ IF loop.trial THEN Stopping("rollback") ELSE UNCHANGED <<pc, after>>
    /\ UNCHANGED <<durable, mem, loop, child, history, counters>>

\* The judge gives up on a trial that stalls or passes its ceiling.
Stalls ==
    /\ pc = "run" /\ loop.trial /\ Stopping("rollback")
    /\ UNCHANGED <<durable, mem, loop, child, wire, history, counters>>

Request(v) == [kind |-> "request", target |-> v]

Refuses == child' = [child EXCEPT !.asked = FALSE] /\ UNCHANGED <<mem, loop>>

\* acceptUpdate: staged and answering, then pending on disk, then the reply.
\* A write that failed after its rename refuses what the next start selects.
ReadRequest(v) ==
    /\ pc = "run" /\ Request(v) \in wire /\ Frame("hello") \notin wire
    /\ wire' = wire \ {Request(v)}
    /\ \/ /\ ~loop.trial /\ ~loop.accepted
          /\ v \in staged /\ v # Selected(mem) /\ minted < MaxUpdates
          /\ minted' = minted + 1 /\ disk' = Begin(mem, minted', v) /\ trials' = 0
          /\ \/ /\ mem' = disk' /\ loop' = [loop EXCEPT !.accepted = TRUE]
                /\ UNCHANGED child
             \/ Refuses
       \/ Refuses /\ UNCHANGED <<disk, minted, trials>>
    /\ UNCHANGED <<marker, snap, db, staged, pc, after, work, faults, adoptions>>

\* The response grace is over.
GraceEnds ==
    /\ pc = "run" /\ loop.accepted /\ Stopping("select")
    /\ UNCHANGED <<durable, mem, loop, child, wire, history, counters>>

Exited ==
    /\ pc = "run" /\ child.step = "exited"
    /\ Stopping(IF loop.trial THEN "rollback"
                ELSE IF loop.accepted \/ child.code = "restart" THEN "select" ELSE "down")
    /\ UNCHANGED <<durable, mem, loop, child, wire, history, counters>>

\* The service manager stops the unit.
Shutdown ==
    /\ pc = "run" /\ faults < MaxFaults /\ Stopping("down")
    /\ faults' = faults + 1
    /\ UNCHANGED <<durable, mem, loop, child, wire, history, minted, adoptions>>

\* stopChild returns when the process is reaped; until then it may still act.
Stop ==
    /\ pc = "stop" /\ Goes(after) /\ child' = NoChild /\ wire' = {}
    /\ UNCHANGED <<durable, after, mem, loop, history, counters>>

\* DiscardSnapshot, whose failure is only logged.
Discard ==
    /\ pc = "discard" /\ Goes(after) /\ snap' \in {NoSnapshot, Gutted, snap}
    /\ UNCHANGED <<disk, marker, db, staged, after, mem, loop, child, wire, history, counters>>

\* The commit frame.
Tell ==
    /\ pc = "tell" /\ Goes("prune") /\ child' = [child EXCEPT !.commit = TRUE]
    /\ UNCHANGED <<durable, after, mem, loop, wire, history, counters>>

Kept(s) == {s.active, s.to}

Prune ==
    /\ pc = "prune" /\ Goes("run")
    /\ \E left \in SUBSET staged : staged' = left \union (staged \intersect Kept(mem))
    /\ UNCHANGED <<disk, marker, snap, db, after, mem, loop, child, wire, history, counters>>

\* RestoreSnapshot: the manifest first, then the marker, then the files.
RollBack ==
    /\ pc = "rollback" /\ snap.kind # "none"
    /\ marker' = TRUE /\ Goes("remove") /\ after' = "settle"
    /\ UNCHANGED <<disk, snap, db, staged, mem, loop, child, wire, history, counters>>

RolledBack ==
    /\ pc = "settle" /\ Goes("discard") /\ after' = "select"
    /\ mem' = Settle(mem, "rolled-back") /\ disk' = mem'
    /\ UNCHANGED <<marker, snap, db, staged, loop, child, wire, history, counters>>

-----------------------------------------------------------------------------
(* The backend.                                                            *)

ChildOnly == UNCHANGED <<disk, marker, snap, pc, after, mem, loop, trials, counters>>

Hello ==
    /\ child.step = "start" /\ child' = [child EXCEPT !.step = "boot"]
    /\ wire' = wire \union {Frame("hello")}
    /\ ChildOnly /\ UNCHANGED <<db, staged, work>>

\* Start opens the database and migrates it.  An ordinary backend then acts.
Boot ==
    /\ child.step = "boot"
    /\ db' = [db EXCEPT !.by = child.version]
    /\ child' = [child EXCEPT !.step = IF child.trial THEN "booted" ELSE "live"]
    /\ ChildOnly /\ UNCHANGED <<staged, wire, work>>

\* startFinished, reportPrepared.
Reports ==
    /\ child.step = "booted" /\ child' = [child EXCEPT !.step = "waiting"]
    /\ \E verdict \in {"prepared", "failed"} : wire' = wire \union {Frame(verdict)}
    /\ ChildOnly /\ UNCHANGED <<db, staged, work>>

\* awaitCommit returns: the activation gate opens.
GateOpens ==
    /\ child.step = "waiting" /\ child.commit
    /\ child' = [child EXCEPT !.step = "live"]
    /\ ChildOnly /\ UNCHANGED <<db, staged, wire, work>>

Works ==
    /\ child.step = "live" /\ work < MaxWork
    /\ work' = work + 1 /\ db' = [db EXCEPT !.work = @ + 1]
    /\ ChildOnly /\ UNCHANGED <<staged, child, wire>>

Stages(v) ==
    /\ child.step = "live" /\ ~child.asked /\ v # child.version
    /\ staged' = staged \union {v}
    /\ ChildOnly /\ UNCHANGED <<db, child, wire, work>>

RequestUpdate(v) ==
    /\ child.step = "live" /\ ~child.asked /\ v # child.version
    /\ child' = [child EXCEPT !.asked = TRUE]
    /\ wire' = wire \union {Request(v)}
    /\ ChildOnly /\ UNCHANGED <<db, staged, work>>

\* A request that stays without an answer makes the backend ask for a restart.
Exits ==
    /\ Alive
    /\ \E code \in {"clean", "error", "restart"} :
          /\ code = "restart" => child.asked
          /\ child' = [child EXCEPT !.step = "exited", !.code = code]
    /\ ChildOnly /\ UNCHANGED <<db, staged, wire, work>>

-----------------------------------------------------------------------------
(* The host.                                                               *)

\* The supervisor returns an error, is killed, or the machine goes down; the
\* service manager takes its children along.
Dies ==
    /\ pc # "down" /\ faults < MaxFaults /\ faults' = faults + 1
    /\ pc' = "down" /\ child' = NoChild /\ wire' = {}
    /\ UNCHANGED <<durable, after, mem, loop, history, minted, adoptions>>

\* `service update': the unit is stopped, a version staged and selected.
Adopt(v) ==
    /\ pc = "down" /\ adoptions < MaxAdoptions /\ adoptions' = adoptions + 1
    /\ staged' = staged \union {v} /\ disk' = Adopted(v)
    /\ db' = [db EXCEPT !.by = Nothing] /\ snap' = [snap EXCEPT !.by = Nothing]
    /\ UNCHANGED <<marker, pc, after, mem, loop, child, wire, history, minted, faults>>

-----------------------------------------------------------------------------

Supervise ==
    \/ Start \/ Resume \/ RemoveLive \/ CopyBack \/ Unmark
    \/ StageSelf \/ Load
    \/ SelectOrdinary \/ SelectExhausted \/ SelectAgain \/ SelectFirst
    \/ Fail \/ Count \/ Spawn \/ SpawnFails
    \/ ReadHello \/ ReadPrepared \/ ReadFailed \/ (\E v \in Versions : ReadRequest(v))
    \/ Stalls \/ GraceEnds \/ Exited \/ Stop
    \/ Discard \/ Tell \/ Prune \/ RollBack \/ RolledBack

Backend ==
    \/ Hello \/ Boot \/ Reports \/ GateOpens \/ Works \/ Exits
    \/ \E v \in Versions : Stages(v) \/ RequestUpdate(v)

Host == Dies \/ Shutdown \/ \E v \in Versions : Adopt(v)

Next == Supervise \/ Backend \/ Host

Spec == Init /\ [][Next]_vars

\* The supervisor's goroutine runs, its timers fire, and the service manager
\* starts it again.
FairSpec == Spec /\ WF_vars(Supervise)

-----------------------------------------------------------------------------

\* Whatever a live backend recorded is in the database, or in the snapshot of
\* a restore under way: no rollback, crash or repeated trial takes it back.
NothingLost ==
    IF marker THEN snap.kind = "whole" /\ snap.work = work ELSE ~db.torn /\ db.work = work

\* No backend runs over a database that is half a restore, and an ordinary one
\* finds what its own version wrote, or the version it was updated from; never
\* what a target left that did not commit.
OwnData ==
    /\ Alive => ~marker /\ ~db.torn
    /\ Alive /\ ~child.trial =>
          \/ db.by \in {Nothing, child.version}
          \/ disk.phase = "committed" /\ db.by = disk.active

\* A trial acts only on an update every later start selects.
ActsOnceCommitted ==
    child.trial /\ child.step = "live" =>
        disk.id >= child.update /\ (disk.id = child.update => disk.phase = "committed")

\* Whatever ended when, the next start can go on: a restore that is marked has
\* its files, a trial that is repeated its snapshot, and every version that may
\* be selected next its binary.
NeverStranded ==
    /\ marker => snap.kind = "whole"
    /\ disk.phase = "pending" /\ disk.attempts > 0 => snap.kind = "whole"
    /\ disk.phase # "absent" => Selected(disk) \in staged
    /\ disk.phase = "pending" => disk.active \in staged

\* A target is started as a trial no more often than the limit says.
TrialsAreBounded == trials <= AttemptLimit

\* An update the supervisor knows of is settled, once faults end.
UpdatesSettle ==
    \A u \in Updates :
        (disk.phase = "pending" /\ disk.id = u /\ mem.id = u)
            ~> ~(disk.phase = "pending" /\ disk.id = u)

=============================================================================
