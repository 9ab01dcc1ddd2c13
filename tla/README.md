# Agent Overflow: specifications, model checking and proofs

Agent Overflow runs coding agents on several computers and shows their
conversations in a desktop window, a browser or a phone. It is a Go backend
(`internal/`, about 470 000 lines without tests) with a Svelte frontend
(`frontend/`). This directory holds TLA+ modules of its concurrent and
distributed parts, the TLC configurations that check them on small instances,
and TLAPS proofs of their main theorems.

Paths below are relative to the repository; a Go package without a prefix is
under `internal/`.

## 1. The parts of the system

| Part | State | Operations | What is hard |
|---|---|---|---|
| **Conversation handoff** (`threadtransfer`, `transferclient`, `transferfiles`, `store/transfer_*.go`) | one journal row per computer, an operation directory at the receiver (upload, stage, recipe, proof) | begin, offer, seal, upload, prepare, retire, activate, cancel, discard, clean up | two computers without a coordinator, requests lost or served late, crashes between any two writes |
| **Transfer scheduler** (`threadtransfer/jobs.go`) | due times and retry counts in the journal, running attempts, one wake signal, one timer | wake, dispatch, attempt, finish, close, restart | a wake racing the attempt it must repeat, failed journal writes, a loop that sleeps over work |
| **Event delivery** (`transport` bus, subscriber, connection; `frontend/src/lib/transport` client) | numbered rings per channel, a bounded queue per connection, withheld marks and gap flags, client cursors and reconnect buffer | emit, deliver or drop, pump, watermark, replay, reconnect, restart | losses must be noticed by someone; replay is interleaved with live frames; numbers start again with the process |
| **Keyed lock** (`keyedlock`) | entries with a reference count and a one-slot semaphore | lock with a context, unlock | entries are reclaimed and recycled while callers come, give up and leave |
| **Session renewal** (`deviceclient`, `identity` refresh, `store` pairing and rotation) | the profile file of an installation, each process's copy of it, a lock file; one row per refresh secret, revoked sessions | begin, save, exchange, apply, pair, forget; receive, rotate, decline, revoke, expire, prune | several processes renew one profile, answers are lost or late, a repetition looks like theft, either side crashes or is downgraded |
| **Admission of sessions** (`identity` sessions, `transport` connection registry and watch) | a map of live sessions with a generation, rows of sessions and of their device, registered connections | ask whether a session is live, upgrade, watch, renew, revoke, mint, prune | a row read before a revocation is installed after it; a connection is upgraded while its session is revoked |
| **Supervisor** (`supervise`, `main_serve_supervisor.go`) | state file, restore marker, snapshot directory, live database, staged versions, the child and its frames | select, snapshot, try, commit, roll back, prune, report | a crash or a failed write between any two of these; a target that migrates the database and then fails |
| Session runtime registry (`sessionruntime`) | running provider sessions, start reservations, tokens | put, take, update, begin and finish a start | stale tokens of a displaced session, one start at a time |
| Provider runtimes (`provider`, `claudeapp`, `codexapp`, ...) | child processes, turn streams | start, send, interrupt, stop | external programs with their own protocols |
| Workflow engine (`workflow`, `workflowapp`, `workflowhost`) | runs, steps and receipts in SQLite | a single command loop with asynchronous follow-ups | crash between a transition and its follow-up |
| Discussions (`discussion`, `discussionapp`) | turn order, pending replies | open, reply, skip, close | several agents answering at once |
| App facade (`app`, `threadapp`, `threadtools`, `threadmcp`) | wiring, send idempotency, per-thread settle locks | every user command | it calls every other part |
| Store (`store`) | SQLite tables | transactions | durable and relaxed commits |
| Remote jobs (`remotejobs`) | jobs that outlive a connection | start, poll, cancel | lost answers |
| Update of the desktop application (`appupdate`, `selfupdate`) | installed and candidate versions | install, probation, roll back | a crash in the middle |
| Triage and forges (`triage`, `forgeapi`, `forgeattach`) | cached issues and reviews | poll, announce | stale caches |
| Git and worktrees (`git*`, `worktree*`, `compare`) | repositories | run git, watch | git's own |
| Browser, terminal, editor, notifications (`browser`, `terminal`, `editor`, `notify`, `push`, ...) | external processes and services | open, drive, close | lifetimes |
| Settings, accounts, usage (`settings`, `provideraccounts`, `usage*`) | documents and counters | edit, record | concurrent edits |
| Harness, CLI, launchers (`harness*`, `aocli`, `wsllauncher`) | test and start-up tools | | |
| Frontend views, mobile shell | Svelte stores | | |

How they meet: the app layer begins a transfer and wakes its scheduler; the
scheduler runs one attempt of the handoff at a time per operation; the receiver
serializes its requests and its attempts with a keyed lock named by the
operation; every change is published on the event bus and reaches clients over
the event delivery of `transport`.

A client that connects to the event delivery presents a session, which the
admission answers for; the same session is renewed in the background by every
process that has the profile open, and a renewal extends what the admission
remembers. On a headless host the whole backend is a child of the supervisor.

`PROJECT.json` lists every part with its status, every hazard with the line
where it bites, and every run, mutant, mapped definition, finding and theorem.

### What makes each modelled part correct

* Handoff: at most one computer may run a moved conversation; nothing written is
  lost by the move; a source that gave the conversation up has left a receiver
  that can finish without it; a canceled receiver is inert and a canceled source
  leaves no receiver that only it could release; verdicts are final; the move
  finishes and cancellations resolve once faults end.
* Scheduler: no change of a row is forgotten, the loop never sleeps over a due
  row, attempts are counted and bounded, close joins everything.
* Event delivery: a client's cursor never passes a frame in silence, no frame
  disappears without an announcement, cursors belong to the running process, a
  reconnect window closes.
* Keyed lock: one holder per key, an entry exactly as long as it is needed,
  waiters are served, and a canceled waiter returns even behind a wedged holder.
* Session renewal: a session has one unspent secret; whatever was lost, repeated or
  cut short, the saved profile can be renewed and is not taken for a thief; a
  revoked session stays revoked; a late answer neither takes the profile back nor
  removes it; an uncertain renewal is settled.
* Admission: no call is admitted that began after a revocation forgot its session,
  and none is refused whose session stayed live; once a revocation has returned
  nothing streams under its sessions; every connection of a dead session ends.
* Supervisor: no work a live backend recorded is lost; a backend runs over its own
  whole database; a trial acts only on a durable commit; every next start has the
  files it needs; trials are bounded; every update is settled.

## 2. The modules

| Module | What it is |
|---|---|
| `TransferOwnership` | abstract: one conversation, held by the source, in transit, or held by the destination |
| `ThreadTransfer` | both workers, the requests between them, users, crashes |
| `ThreadTransferProofs` | two inductive invariants, every safety property of the handoff, and the refinement |
| `TransferJobs`, `TransferJobsProofs` | the scheduler of one computer, and proofs of its types and safety properties |
| `EventDelivery`, `EventDeliveryProofs` | bus, one connection at a time, one client; proofs of its types and safety properties |
| `KeyMutex` | abstract: a mutex per key |
| `KeyedLock`, `KeyedLockProofs` | the reference-counted registry, its proofs |
| `SessionRenewal` | client processes over one profile, the exchange, the backend's rotation |
| `SessionRenewalProofs` | its inductive invariant, and what follows from it for the backend |
| `SessionProfileProofs` | what follows from it for the profile |
| `SessionAdmission`, `SessionAdmissionProofs` | the fast path, connections, renewals and revocations of a device's sessions, and proofs |
| `Supervisor`, `SupervisorProofs` | the supervisor, its child and its files, and proofs |
| `MC*` | extend a module for TLC: the symmetry of processes, the number of frames of each channel and launch, otherwise nothing |

### ThreadTransfer

`src` is the source's journal row and sealed snapshot, `dst` the receiver's row
with its operation directory, `wk` the source worker with the copy of the row it
read (which goes stale, as in the code), `call` its outstanding request, `late`
the requests it gave up on, `lock` the receiver's operation lock and where its
holder is, `conv` the conversation with the kind of its transfer (a member of
`Kinds`: a move, a copy, or a copy that consumes a draft).

Every journal write, every file the protocol depends on and every request is a
step of its own; what a function does between two of these is one step. A pass of
`Source.Run` is the sequence `Start`, `Ask*`/`Served*`, `Seal`, `Decide`,
`Advance*`, and ends in `Complete` or `Canceling`. `Destination.Run` is
`RunPrepare`/`RunInstall`/`RunClean` and the steps of its lock holder. A request
is either answered, fails, or is abandoned by its sender: then it stays in `late`
(if its kind is in `Lingering`) and may be served at any later time. Either
computer may crash between any two steps; `SourceCrash` and the destination's
crash lose what is volatile, and may rewind the cleanup mark, the one write whose
commit is not synced.

A version number stands for the contents of the conversation; the archive is
named by the version it captured and arrives in `Chunks` pieces.

`TurnStart` also requires that a draft has not been consumed: a draft that was
handed over has no text left to send.

### TransferJobs

`row` is the part of the journal the scheduler reads: phase, next attempt, and
whether a change is unread (the retry count only chooses among `Delays`). `active` is the map of running attempts
with its tag, `attempt` the goroutines behind it, `loop` the loop's place, timer
and pause, `wake` the one-slot signal channel, `tails` and `callers` the signals
still to be sent by finished attempts and by wakers. Time is a distance: `Tick`
moves every due time one closer. A change (`Change`) and its wake (`Wake`) are
separate steps, as they are in the code.

### EventDelivery

The bus's rings are kept as the newest and oldest retained number. A frame is a
channel, a number and a kind: an event, an event stamped with a gap, a bare gap
marker, or a watermark. The subscriber's channel and the pump's coalescing buffer
are one queue: both keep their order. The two directions of the socket are
sequences; a disconnect drops them. The client's reconnect buffer keeps the
frames of a window and sorts them by number within a channel. What a replay has yet to
write is a set per channel, written in the order of its numbers. `got`, `lately` and
`told` are history: what was dispatched, what of it since the channel's last
announcement, in order, and how far a loss was announced to consumers, who answer with
a snapshot.

### KeyedLock

Entries are addresses that may be recycled when nothing refers to them. A caller
goes from idle to waiting (`Call` takes the reference), wins the token, rechecks
its context, holds, unlocks and drops its reference; a canceled one yields or
gives up. The drain of the token and `dropRef` are separate steps.

### SessionRenewal

`profile` is the session file, `client` each process's copy of it and the place of
its rotation, `legacyLock` the lock file of legacy renewals. `rows` is
`refresh_secrets`, `revoked` the sessions that are revoked, `modern` whether the
backend's build knows recoverable renewals, `requests` the renewals on the wire or
in a handler. `reused`, `lapsed` and `legacy` are history: the sessions that
properties have to except.

A rotation of a process is `Begin`, a `Probe` when nobody knows what the backend
supports, the legacy lock when it does not support recovery, `Save` (the
transaction that writes the successor, and the request), and one of `Late`, `Keep`,
`Remove`, `Apply`. Profile transactions hold the file's lock from their reading to
their writing and are one step; between them lie the network and another process.
In the backend the check (`Receive`), the transaction (`Rotate`, `Decline`) and the
two writes that answer reuse (`SpendFamily`, `RevokeFamily`) are steps of their own.
`Abandon` and a crash of the client leave a request that may be served later;
`Restart` cuts the handlers short and may bring back another build.

A secret is the number of its drawing, and 0 is none; its hash, its expiry time
(`Expire` closes a window, in an order the code's times imply) and the device's
proof are abstracted.

### SessionAdmission

`rows` and `device` are the database, `live` the map the fast path answers from
(a row of it was live when it was read, so only its deadline is kept), `generation`
the counter that every revocation moves. `conn` is a request: where it is on the
way to a streaming connection, and where its call of `Live` is. A call of `Live`
is at most four steps (the look of `Ask`, then `Drop`, `Read` and `Install`), each
under the mutex or in one statement, as in the code; the same call answers a plain request,
the check after an upgrade, and the watch of a connection. `renewal` is `Refresh`
from its capture of the generation (`Capture`) to its entry (`Remember`); `revocation` is
`RevokeSession` or `RevokeDevice`: the row, the entry, then the callbacks that
close the registered connections, taken and called one by one. `late` and
`unbroken` are history: the call began with its session forgotten, and its session
was live ever since it began.

### Supervisor

`disk`, `marker`, `snap`, `db` and `staged` are what survives: the state file, the
restore marker, the snapshot directory, the database and the version directories.
`mem` is the `State` that `Run` holds, which a failed write leaves behind the disk;
`loop` the variables of `runChild`, `child` the backend, `wire` its unread frames.
`pc` is the place in `Run`, `restoreSnapshot` or `settleFailure`, and `after` where
they return to. A step is what lies between two points at which a crash can tell
the disk apart, and `Dies` is the crash (or the error return that leaves the same
disk). A write fails before its rename or after it (`SaveFails`); a directory whose
removal was cut short is `gutted`. The database is abstracted to how much live
backends recorded in it (`work`), which version migrated it last (`by`), and
whether half of it is missing (`torn`).

## 3. The runs

| Run | Question | Bounds and why they are enough |
|---|---|---|
| `transfer_safe` | Are a move, a copy and a draft safe under every interleaving, and do they implement the abstract handoff? | one chunk and a reserved worktree; two versions tell "written before the seal" from "written after"; every request may arrive late except a status, which changes nothing |
| `transfer_live` | Does a retired source complete, a cancellation resolve, scratch get released? | two chunks, so that an upload can stop in the middle; chunks and cancellations linger: the requests that can undo progress; faults end |
| `transfer_reservation` | *finding*, see below | |
| `jobs` | Is a change ever forgotten, can the loop sleep over work, is every change read and every retry made? | two operations and one worker: slots are contended; two changes: one can come at each stage of the attempt that reads the other; one signal of a finished attempt |
| `events` | Can a loss be silent, can a client confuse two processes' numbers, do windows close, do withheld frames carry the cursor along? | a history channel and a whole-state channel share a one-slot queue, with a ring of one and a client buffer of one, so that each overflows; two connections and two launches: one reconnection within a launch, one across |
| `lock` | One holder per key, entries exactly while needed, a mutex, waiters served? | three callers: a holder, a waiter and one that leaves; two entries, so that one is recycled while the other is in use. That keys do not share entries is proved (`Apart`) |
| `renewal_safe` | Can two processes ruin each other's session? | two processes, two pairings (an answer may be about the one before), three secrets (a rotation and its successor), one request that its sender gave up; the backend knows recovery, the profile may not |
| `renewal_live` | Is every uncertain renewal settled although the backend may be downgraded and updated? | both builds, a profile that knows of recovery, two secrets |
| `renewal_exchange` | *finding*, see below | |
| `supervisor` | Is work ever lost or foreign, does a trial act too early, can the next start always go on, is every update settled? | two versions; two updates, so that one meets what the other left; three crashes or shutdowns: one in a trial, one in its rollback, one in the rollback's resumption; `LateSpawnFaults` is false |
| `supervisor_respawn` | *finding*, see below | |
| `admission` | Does the fast path outlive a revocation or refuse a live session, does a revoked session go silent? | one session, one plain request, one connection, one renewal, and two revocations, which may overlap; a window of one and a clock of one: access ends once. Several sessions of one device are covered by the proofs |

Deadlock is checked except where the model really may stop: the event runs end
when the bounds on frames and connections are used up, every caller of the
lock may have panicked (a second unlock does), and a renewal stops when the bound on
secrets is used up or the user has removed the profile.

### Fairness

* `ThreadTransfer`: both workers are goroutines the scheduler resumes, and the
  holder of the receiver's lock goes on (weak fairness). Waiters of that lock are
  served in arrival order (a Go channel; `lock` shows what follows), hence
  strong fairness of a request at the door and of the receiver's attempts. A fault
  (a lost request, a failed write, a crash, a damaged upload) may recur any number
  of times but not for ever: `Calm` says that from some point on only steps of the
  workers, the users and the requests happen.
* `TransferJobs`: weak fairness of every goroutine and of time; faults end.
* `EventDelivery`: the pump, the read loop and the client's socket are scheduled.
  Nothing makes the bus emit or the client connect.
* `KeyedLock`: weak fairness of every caller's steps outside the critical section,
  strong fairness of winning the token (Go hands a freed slot to the longest
  waiting sender). Only `Served` assumes, as its own antecedent, that critical
  sections end; `CanceledReturns` holds although they may not.
* `SessionAdmission`: weak fairness of each request's next step (a goroutine, or the
  timer of the connection's watch) and of each revocation once it began. Nobody
  must call, renew or revoke, and nothing makes the owner act.
* `Supervisor`: weak fairness of the supervisor's own step: its goroutine and its
  timers (the probation and the grace of a stop) run, and the service manager
  starts it again. Nothing is assumed of the child; a silent one is timed out.
* `SessionRenewal`: weak fairness of every process (`KeepRenewed` begins again after
  a failure, and an installation's user opens it again), of the handlers, and of the
  owner's update; faults end.

### Findings

* `transfer_reservation`: a preparation that reserved the receiver's worktree and
  stopped before it recorded "prepared", followed by one that stopped right after
  it removed the stage, leaves the reservation without the manifest that names it.
  `Discard` then returns success without releasing it, and the cancellation is
  acknowledged, although `DestinationDiscarder` says that reservations are released
  first and that it "must recover its own interrupted cleanup".
* `renewal_exchange`: `rotate` says of hosts without recovery that their exchange is
  serialized across current client processes by a separate lock. Only a process that
  itself believes the host is legacy takes it. While one is in its exchange, a
  ticket tells the other that the (updated) host supports recovery; it passes by the
  lock and presents the same secret for a successor of its own. The backend takes
  whichever it commits second for reuse and ends the session. This is why
  `AlwaysRenewable`, `NoFalseReuse` and `EndsForCause` except sessions for which a
  legacy renewal was ever sent.
* `supervisor_respawn`: `Run` settles an update as failed when a trial's process
  cannot be started, because "nothing of the target's has run". That is true of the
  first attempt only. When the first attempt migrated the database and was
  interrupted, and the start of the second fails, the snapshot is discarded without
  a restore and the previous version boots on the target's database. With
  `LateSpawnFaults = FALSE` the run `supervisor` and the theorem `PreviousIsSafe`
  show that there is no other way to it.

Three weaker disagreements have no run of their own. The transport documentation
says that a client drops any frame at or below its cursor; a frame with a gap stamp
is dispatched before that check and may move the cursor back, so that later frames
repeat, and `RepeatsAreTold` shows the limit of this: between two announcements of a
loss on its channel dispatches only ascend, so a frame is repeated after an
announcement, which makes consumers fetch a snapshot anyway. (That every repeat has a
number up to which a loss was announced is *not* true: with a ring of five, a queue of
two and five frames a stamped gap lowers the cursor below a frame that was dispatched.) `SessionConns.CloseSession` promises that nothing streams
when it returns; of two overlapping revocations the second returns while the first
still holds callbacks, which `RevokedIsSilent` excepts. A settled update's outcome is
announced at most once, not exactly once: it is marked before it is published.

## 4. The proofs

`ThreadTransferProofs` proves, for any set of kinds, number of chunks, set of
requests that may linger and version bound (`KindsAssumption`,
`WorkspaceAssumption`, `LingeringAssumption`, `ChunksAssumption`,
`MaxVersionAssumption`):

* `TypeCorrect`, `OneOwner` (SingleOwner), `RetiredRecovers`
  (RetiredIsRecoverable), `VerdictFirst` (ProofFollowsVerdict), `NeverBack`
  (Monotone);
* `TurnsKeepAccess` (NoTurnUnderFence), `LastVersionArrives` (NothingLost),
  `CancelsLeaveNothing` (CancelIsClean);
* `HandsOver` (ImplementsOwnership): the two journals implement
  `TransferOwnership`: each step is a `Write`, a `Retire`, an `Arrive`
  or a stutter of it.

None of these is inductive. A late activation may be served long after its sender
forgot it, so the invariant must say of everything that carries the activation
(the proof file, an outstanding or late request, a stale copy of the row, a holder
of the lock inside the installation) that the source has retired: `ActivationInv`.
`CancellationInv` says the converse of everything that carries a cancellation, and
the two exclude each other. `BeliefInv` relates what the source believes of the
receiver, and the receiver's running step, to the receiver's row; `ReadyInv` says
what each step of a preparation has already put in place; `ArchiveInv` says that
there is one archive identity; `DraftInv` that a draft is named from the fence on.
`IInv` is their conjunction with the types. The proof has one case per action
(`TypeStep`, `PartsStep`); `ForwardStep` derives the action property from it.

`KeptInv` is a second invariant, proved over the first (`Kept`): behind the fence
no turn runs and what was sealed is the version the conversation has
(`SealedInv`), a source without an offer has sealed nothing, and one that cancels
has done so with a receiver that is canceled (`BoundInv`), and nothing is published
before the source retired (`PublishedInv`). What the archive holds is then the last
version, which is `NothingLost`, and no canceled side leaves the other waiting,
which is `CancelIsClean`.

`TransferJobsProofs` proves for any finite set of operations, any number of workers,
any delays with a longest one, and any bounds (`OpsAssumption`, `WorkersAssumption`,
`DelaysAssumption`, `BoundsAssumption`): `TypeCorrect`, `NothingIsForgotten`
(NothingForgotten), `NeverOversleeps` (NeverSleepsOverWork) and `CountIsTrue`
(AttemptsAreCounted). No run repeats the types. A finished attempt may have missed a
change only if the change's caller has yet to wake it or a wake tagged it
(`MissedIsTagged`), and then its row must be due again even when its result cannot
be written: a running attempt was due when it started and nothing puts it off
meanwhile (`RunningWasDue`). `Counted` says that what runs fits the slots and `Over`
that nothing runs any more once the scheduler has stopped. Three lemmas carry the
queue: the rows in the order of `ORDER BY` are numbered by their predecessors
(`Ranks`), so a dispatch leaves a due row only for want of a slot (`Starts`); its
timer is at most the time of every row it leaves (`Timers`); and a tick keeps both
on the same side of one another (`Ageing`, `Closing`).

`KeyedLockProofs` proves for any finite set of callers, any keys and enough
entries: `MutualExclusion` (Exclusive), `Reclamation` (Reclaims) and `Refinement`
(ImplementsMutex). Its invariant holds the types
(so that no run repeats them) and says that an entry's reference count is the
number of callers that refer to it (`Counted`), that a referring caller's entry is
the one its key is registered under (`Located`), that two keys never share an entry
(`Apart`), that a registered entry is referred to (`Used`), and that a taken token
belongs to exactly one caller (`OneToken`). The refinement maps every step to an
`Enter`, a `Leave` or a stutter.

`SessionRenewalProofs` and `SessionProfileProofs` prove for any finite set of
processes, any builds, anything an older client may have noted, and any number of
pairings, secrets and late requests (`ProcessesAssumption`, `BuildsAssumption`,
`BoundsAssumption`): `TypeCorrect`, `SingleHead` (OneHead), `Renewable`
(AlwaysRenewable), `NoReuse` (NoFalseReuse), `RevokedStays` (RevokedIsFinal),
`GoesForward` (Forward) and `EndsRightly` (EndsForCause): every safety property of
`renewal_safe`. A backend that answers a repetition must find its record, so the
invariant relates everything that names a secret: the request a process waits for is
the one it saved (`Waits`); numbers are drawn before they are used (`Numbered`); a
successor is proposed for one session only (`Alone`); and of a session no legacy
renewal was sent for, everything that was ever asked with one secret, by whichever
process, late or not, names the successor that the backend recorded and the profile
saved, and nothing is asked with a secret newer than the profile's (`Agree`). A
grant means that its secret was spent (`Granted`), and an unspent secret expires
only with its session (`Lapse`). `IInv` adds the types and three of the properties
themselves. A step either only moves a request on or loses one (`Quiet`) or touches
rows or the profile; each action has its own lemma, and one per conjunct it can
disturb. For the profile, `Rising` says that what may still be granted is newer than
what the profile has, and `Refused` that a refusal has a cause.

`SessionAdmissionProofs` proves for any sessions, requests, connections, renewals,
revocations and clock (`WindowAssumption`): `TypeCorrect`, `AnswersTruly`
(CallsAnswerTruly) and `Silence` (RevokedIsSilent). A row read before its session
was forgotten was read in an older generation (`Fresh`, and `Dropped` for
renewals), so it is never installed; a late call has no row in hand (`Late`); a
call whose session stayed live never loses it (`Steady`); an open connection is
registered, or held by the revocation that took it (`Found`), and once a revocation
took what carries its session, one that is still open has its check before it, in a
call that is late and will be refused (`Taken`).

`EventDeliveryProofs` proves for any finite set of channels, any ring, queue and buffer
capacities, and any number of frames, connections and launches (`ChannelsAssumption`,
`CapsAssumption`, `EventBoundsAssumption`): `TypeCorrect`, `DispatchesAscend`
(RepeatsAreTold), `CursorsAreReached` (CursorIsReachable), `CursorsSkipNothing`
(NoSilentLoss) and `NoFrameVanishes` (NothingVanishes): every safety property of
`events`. The invariant has these layers, each proved over those before it.

* `Shape`: what is left of a closed connection, hello first, one request, one
  marker, frames held in a replay window only, no marks in the queue.
* `Dispatching` with `Blank`: the dispatches since the last announcement ascend up to
  the cursor. Draining is the hard step: `Nth` counts along a strict order
  (`Ranked`), so each buffered frame is handled once (`NthFacts`), and what one
  `Handled` preserves the drained view has (`DrainedIn`, `DrainedFacts`).
* `Bounds`: nothing is numbered above its channel's head, and a mark stands for a
  frame that the client declined.
* `Order`: the frames of a channel that are live on the wire or queued (`Line`)
  ascend, marks excepted; behind a watermark pass everything is above its marks; a
  channel with a loss to announce has nothing under way up to its head.
* `Delivery`: above a gap that is under way nothing is missing behind it (`Behind`),
  since the client will set its cursor to it in either direction; once the replay was
  read nothing is missing above the cursors (`Tracking`), neither up to the head nor
  below any number the line will take the cursor to (`Heights`), and the frames held
  or about to be (`Early`) have no hole below them (`Packed`); in a window all that
  arrives is above the cursors (`Freshness`), so that draining it in the order of its
  numbers passes all of it; and what the cursors passed was accounted for (`Keeping`).
  `CoversStill` and `CoversGrown` say how such statements survive when frames move on,
  and when the ring and the line grow; each action needs to show no more than that.

`SupervisorProofs` proves for any versions, updates, faults and attempt limit
(`VersionsAssumption`, `LimitsAssumption`): `TypeCorrect`, `WorkIsKept`
(NothingLost), `ActsCommitted` (ActsOnceCommitted), `StartsGoOn` (NeverStranded),
`TrialsBounded` (TrialsAreBounded), and, where the start of a repeated trial does
not fail, `PreviousIsSafe` (OwnData). Its invariant relates memory to disk
(`Follows`: after a failed write the disk may be ahead, in the ways listed there),
each place to what the memory says (`Placed`, `Minds`), the child to the version it
was started for (`Backed`, `Recorded`), the snapshot to the moment it was taken
(`Saved`), the staged versions to what may be selected (`Stocked`), attempts to
processes (`Tallied`), and the database's last writer to the state (`Owned`).

Only model-checked: every liveness property (`RetiredCompletes`, `CancelResolves`,
`ScratchReclaimed`, `ChangesAreRead`, `RetriesHappen`, `ReplayCompletes`,
`DeclinedAdvance`, `Served`, `CanceledReturns`, `PendingSettles`, `UpdatesSettle`, `DeadIsDisconnected`), since
liveness and ENABLED are out of the prover's reach. Every safety property of the
passing runs is proved. The library's induction theorems cannot be used, since they
take an operator; where the drain of the reconnect buffer needs induction over the
frames it handles, `UpTo` gives it over the set of the numbers that have the property:
those up to `n` without it would have a least one (`Least`).

## 5. What is not modelled

* Handoff: several operations on one computer, the contents and planning of the
  archive, what the installer does inside one step, and the authentication of
  requests. An operation's retention after it ended.
* Event delivery: filters by origin and scope (they only remove channels), the
  background lease and the merging of deltas, the thread lists of gaps, ephemeral
  channels, a client that narrows its watch set again; the refusal of a replay request
  with more than `MaxReplayChannels` cursors, which the client, whose cursor map has
  the same cap, never sends. A whole-state frame that is
  dropped with no later one leaves the client stale until it reconnects; that is by
  design and exempted.
* Session renewal: a pairing the owner has not confirmed yet, device proofs and
  passkeys, deletion of session rows, the renewal lease of the browser, names and
  endpoints in the profile.
* Admission: signatures and binding classes, the local credential, own devices and
  scopes (with them the close of an upgrade whose grants could not be read), the cap
  on a session's lifetime, several devices at once. Rotation of secrets is `SessionRenewal`'s; here a renewal is its effect on the session's row.
* Supervisor: the record of failed trials, progress reports and the measure of a
  stall, the check of free space and of protocol versions, the publication of
  outcomes, and a power failure that rewinds a directory that was not synced.
* Everything with status `not_modelled` in `PROJECT.json`, each with its reason.

## 6. The plan

Done: the handoff with its abstract specification, the proofs of all its safety
properties and of the refinement; the scheduler with the proofs of its safety
properties; event delivery with the proofs of all its safety properties; the keyed lock with
its abstract specification and proofs; session renewal, the admission of sessions and
the supervisor, with the proofs of all their safety properties.

Next, in this order:

1. `SessionRuntime`: displacement, token-checked updates, single-flight starts.
2. `SerialQueue` and `RelaySession`: work submitted while the queue drains; a stale
   report during a fetch.
3. `RemoteJobs`; `Discussion`; then `WorkflowEngine` with its serial follow-ups
   composed from `SerialQueue`.
4. In `EventDelivery`: leases, narrowing watch sets, several connections; its
   connections composed with `SessionAdmission`'s.
