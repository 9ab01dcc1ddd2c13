---------------------------- MODULE EventDelivery ----------------------------
(***************************************************************************)
(* Event frames from the backend's bus to one client that reconnects       *)
(* (internal/transport: EventBus, Subscriber, connHandler; the frontend's  *)
(* WSClient and ReplayBuffer).  Frames are numbered per channel, kept in   *)
(* bounded rings, queued without blocking to the connection's pump, and    *)
(* replayed from the client's cursors after an outage, while live frames   *)
(* go on.  The bus forgets everything when the backend restarts.           *)
(*                                                                         *)
(* The pump's coalescing buffer is part of the queue: both are in order.   *)
(***************************************************************************)
EXTENDS Naturals, Sequences, FiniteSets, SequencesExt, FiniteSetsExt

CONSTANTS
    Channels,
    LatestOnly,    \* channels of whole-state frames: a ring of one
    Narrow,        \* channels whose frames the watch set may withhold
    RingCap,       \* depth of every other ring
    QueueCap,      \* slots of a subscriber's buffer
    BufferCap,     \* frames the client holds while it reconciles a replay
    MaxEmits,      \* bound: frames each launch emits on each channel
    MaxOpens,      \* bound: connections the client makes
    MaxLaunches    \* bound: launches of the backend

ASSUME ChannelsAssumption ==
    IsFiniteSet(Channels) /\ LatestOnly \subseteq Channels /\ Narrow \subseteq Channels \ LatestOnly
ASSUME CapsAssumption ==
    RingCap \in Nat \ {0} /\ QueueCap \in Nat \ {0} /\ BufferCap \in Nat \ {0}
ASSUME EventBoundsAssumption ==
    MaxEmits \in [1 .. MaxLaunches -> [Channels -> Nat]] /\ MaxOpens \in Nat /\ MaxLaunches \in Nat \ {0}

VARIABLES
    launch,   \* which process owns the sequence numbers
    ring,     \* EventBus.rings: the newest frame and the oldest one retained
    foreign,  \* the frames addressed to an entity outside the client's watch set
    sub,      \* the connection's Subscriber: filter, gapped channels, marks
    queue,    \* ... and its channel of frames
    pump,     \* where the pump's watermark pass is
    sending,  \* what a replay has yet to write, per channel
    up,       \* the client's frames on their way to the read loop
    wire,     \* the server's frames on their way to the client
    client,   \* the client's connection, launch, watch set and replay window
    cursor,   \* WSClient.lastSeqByChannel
    held,     \* WSClient.replayBuffer
    opens,    \* how many connections were made
    got,      \* history: what was dispatched, per channel and launch
    lately,   \* history: ... since the channel's last gap was announced, in order
    told      \* history: up to which frame a gap was announced

server == <<launch, ring, foreign>>
connection == <<sub, queue, pump, sending>>
history == <<got, lately, told>>
vars == <<server, connection, up, wire, client, cursor, held, opens, history>>

Frames == [channel : Channels, kind : {"event", "stamped", "gap", "mark"}, seq : Nat]
Frame(c, kind, seq) == [channel |-> c, kind |-> kind, seq |-> seq]

NoSubscriber == [on |-> FALSE, armed |-> FALSE, gapped |-> {}, withheld |-> [c \in Channels |-> 0]]
IdlePump == [pc |-> "idle", left |-> 0, marks |-> [c \in Channels |-> 0]]
NoReplay == [busy |-> FALSE, frames |-> [c \in Channels |-> {}]]
NothingHeld == [frames |-> <<>>, overflow |-> FALSE, heads |-> [c \in Channels |-> 0]]

Init ==
    /\ launch = 1
    /\ ring = [c \in Channels |-> [seq |-> 0, oldest |-> 1]]
    /\ foreign = [c \in Channels |-> {}]
    /\ sub = NoSubscriber /\ queue = <<>> /\ pump = IdlePump /\ sending = NoReplay
    /\ up = <<>> /\ wire = <<>>
    /\ client = [open |-> FALSE, known |-> FALSE, launch |-> 0, watch |-> FALSE,
                 replaying |-> FALSE, recover |-> FALSE]
    /\ cursor = [c \in Channels |-> [seq |-> 0, fresh |-> FALSE]]
    /\ held = NothingHeld
    /\ opens = 0
    /\ got = [c \in Channels |-> {}] /\ lately = [c \in Channels |-> <<>>]
    /\ told = [c \in Channels |-> 0]

-----------------------------------------------------------------------------
(* The bus.  Emit numbers, retains and fans out under one mutex.           *)

Capacity(c) == IF c \in LatestOnly THEN 1 ELSE RingCap

\* Subscriber.noteWithheld: nothing is marked past a loss not yet announced.
NoteWithheld(c, seq) ==
    sub' = IF c \in sub.gapped THEN sub ELSE [sub EXCEPT !.withheld[c] = seq]

\* Mutant: a dropped frame is not recorded.
Dropped_Forgotten(c) == {}

\* Subscriber.noteDrop, for the retentions whose loss must be announced.
Dropped(c) == {c} \ LatestOnly

\* Subscriber.clearWithheld.
ClearWithheld(c) == [sub.withheld EXCEPT ![c] = 0]

\* Mutant: other channels' losses are taken for announced although no marker fit.
Enqueue_ForgetsOthers(c, seq) ==
    LET fits == Len(queue) < QueueCap
        kind == IF c \in sub.gapped THEN "stamped" ELSE "event"
    IN /\ queue' = queue \o IF fits THEN <<Frame(c, kind, seq)>> ELSE <<>>
       /\ sub' = [sub EXCEPT !.gapped = IF fits THEN {} ELSE Dropped(c),
                             !.withheld = ClearWithheld(c)]

\* Subscriber.deliver past its filters: markers of other gapped channels, then
\* the frame, each only if there is room.
Enqueue(c, seq) ==
    LET others == sub.gapped \ {c}
        room == QueueCap - Len(queue)
    IN \E flushed \in SUBSET others :
       /\ Cardinality(flushed) = Min({Cardinality(others), room})
       /\ LET markers == SetToSeq({Frame(d, "gap", ring[d].seq) : d \in flushed})
              fits == Len(queue \o markers) < QueueCap
              kind == IF c \in sub.gapped THEN "stamped" ELSE "event"
          IN /\ queue' = queue \o markers \o IF fits THEN <<Frame(c, kind, seq)>> ELSE <<>>
             /\ sub' = [sub EXCEPT !.gapped = (@ \ (flushed \union {c}))
                                              \union (IF fits THEN {} ELSE Dropped(c)),
                                   !.withheld = ClearWithheld(c)]

\* EmitScoped: away says that the frame's entity is outside the watch set.
Emit(c, away) ==
    LET seq == ring[c].seq + 1 IN
    /\ ring[c].seq < MaxEmits[launch][c] /\ (away => c \in Narrow)
    /\ ring' = [ring EXCEPT ![c] = [seq |-> seq, oldest |-> Max({@.oldest, seq - Capacity(c) + 1})]]
    /\ foreign' = IF away THEN [foreign EXCEPT ![c] = @ \union {seq}] ELSE foreign
    /\ CASE ~sub.on -> UNCHANGED <<sub, queue>>
         [] sub.on /\ sub.armed /\ away -> NoteWithheld(c, seq) /\ UNCHANGED queue
         [] OTHER -> Enqueue(c, seq)
    /\ UNCHANGED <<launch, pump, sending, up, wire, client, cursor, held, opens, history>>

\* Frames leave a deep ring by age, or by the byte budget.
Release(c) ==
    /\ c \notin LatestOnly /\ ring[c].oldest <= ring[c].seq
    /\ ring' = [ring EXCEPT ![c].oldest = @ + 1]
    /\ UNCHANGED <<launch, foreign, connection, up, wire, client, cursor, held, opens, history>>

-----------------------------------------------------------------------------
(* The connection: the pump, the read loop and its replay.                 *)

Written(frames) ==
    wire' = wire \o [i \in DOMAIN frames |-> [type |-> "event", frame |-> frames[i]]]

\* pumpEvent: one queued frame goes on toward the wire.
PumpEvent ==
    /\ pump.pc = "idle" /\ queue # <<>>
    /\ Written(<<Head(queue)>>) /\ queue' = Tail(queue)
    /\ UNCHANGED <<server, sub, pump, sending, up, client, cursor, held, opens, history>>

\* takeWithheld, on the watermark ticker.
TakeWithheld ==
    /\ sub.on /\ pump.pc = "idle"
    /\ \E c \in Channels : sub.withheld[c] # 0
    /\ pump' = [pc |-> "count", left |-> 0, marks |-> sub.withheld]
    /\ sub' = [sub EXCEPT !.withheld = NoSubscriber.withheld]
    /\ UNCHANGED <<server, queue, sending, up, wire, client, cursor, held, opens, history>>

\* Mutant: a pass that finds nothing to drain writes no marks either.
CountQueue_Abandons ==
    /\ pump.pc = "count"
    /\ pump' = IF queue = <<>> THEN IdlePump ELSE [pump EXCEPT !.pc = "drain", !.left = Len(queue)]
    /\ UNCHANGED <<server, sub, queue, sending, up, wire, client, cursor, held, opens, history>>

\* sendWatermarks drains as many frames as are queued now ...
CountQueue ==
    /\ pump.pc = "count"
    /\ pump' = [pump EXCEPT !.pc = "drain", !.left = Len(queue)]
    /\ UNCHANGED <<server, sub, queue, sending, up, wire, client, cursor, held, opens, history>>

DrainEvent ==
    /\ pump.pc = "drain" /\ pump.left > 0
    /\ Written(<<Head(queue)>>) /\ queue' = Tail(queue)
    /\ pump' = [pump EXCEPT !.left = @ - 1]
    /\ UNCHANGED <<server, sub, sending, up, client, cursor, held, opens, history>>

\* ... and then writes the marks.
WriteMarks ==
    /\ pump.pc = "drain" /\ pump.left = 0
    /\ Written(SetToSeq({Frame(c, "mark", pump.marks[c]) :
                           c \in {d \in Channels : pump.marks[d] # 0}}))
    /\ pump' = IdlePump
    /\ UNCHANGED <<server, sub, queue, sending, up, client, cursor, held, opens, history>>

\* ring.replayAfter's gap: a cursor of another sequence space, or one whose
\* frames are no longer retained.
Missed(c, from) ==
    LET r == ring[c] IN
    IF r.oldest > r.seq THEN from # r.seq ELSE from > r.seq \/ from + 1 < r.oldest

\* EventBus.Replay for one channel: what was missed, a gap marker, or the newest
\* frame of a whole-state channel.
Replay(c, from) ==
    LET head == ring[c].seq IN
    CASE Missed(c, from) /\ c \in LatestOnly /\ from <= head -> {Frame(c, "event", head)}
      [] Missed(c, from) /\ ~(c \in LatestOnly /\ from <= head) -> {Frame(c, "gap", head)}
      [] OTHER -> {Frame(c, "event", seq) : seq \in from + 1 .. head}

\* handleReplay withholds what the watch set does, and marks how far it came.
Filtered(c, from) ==
    LET missed == Replay(c, from)
        withheld == {f \in missed : sub.armed /\ f.kind = "event" /\ f.seq \in foreign[c]}
        last == {f \in withheld : \A other \in missed : other.seq <= f.seq}
    IN (missed \ withheld) \union {Frame(c, "mark", f.seq) : f \in last}

\* The read loop takes the client's frames in order, one at a time.
ReadWatch ==
    /\ up # <<>> /\ Head(up).type = "watch" /\ ~sending.busy
    /\ sub' = [sub EXCEPT !.armed = TRUE]
    /\ up' = Tail(up)
    /\ UNCHANGED <<server, queue, pump, sending, wire, client, cursor, held, opens, history>>

\* Mutant: a replay that has nothing to send is not answered.
ReadReplay_Unanswered ==
    /\ up # <<>> /\ Head(up).type = "replay" /\ ~sending.busy
    /\ LET missed == [c \in Channels |-> IF Head(up).known THEN Filtered(c, Head(up).from[c])
                                        ELSE {}]
       IN sending' = [busy |-> \E c \in Channels : missed[c] # {}, frames |-> missed]
    /\ up' = Tail(up)
    /\ UNCHANGED <<server, sub, queue, pump, wire, client, cursor, held, opens, history>>

ReadReplay ==
    /\ up # <<>> /\ Head(up).type = "replay" /\ ~sending.busy
    /\ sending' = [busy |-> TRUE,
                   frames |-> [c \in Channels |-> IF Head(up).known THEN Filtered(c, Head(up).from[c])
                                                  ELSE {}]]
    /\ up' = Tail(up)
    /\ UNCHANGED <<server, sub, queue, pump, wire, client, cursor, held, opens, history>>

\* Each channel's frames in the order of their numbers, its mark last.
WriteReplay(c) ==
    /\ \E f \in sending.frames[c] :
          /\ \A other \in sending.frames[c] : f.seq <= other.seq
          /\ Written(<<f>>)
          /\ sending' = [sending EXCEPT !.frames[c] = @ \ {f}]
    /\ UNCHANGED <<server, sub, queue, pump, up, client, cursor, held, opens, history>>

\* The completion marker.
WriteDone ==
    /\ sending.busy /\ \A c \in Channels : sending.frames[c] = {}
    /\ wire' = Append(wire, [type |-> "replay"])
    /\ sending' = NoReplay
    /\ UNCHANGED <<server, sub, queue, pump, up, client, cursor, held, opens, history>>

-----------------------------------------------------------------------------
(* The client.                                                             *)

\* A socket opens: the bus subscribes it at the heads it reports in hello, and
\* the client restates its watch set before it asks for a replay.
Open ==
    /\ ~client.open /\ opens < MaxOpens
    /\ opens' = opens + 1
    /\ client' = [client EXCEPT !.open = TRUE, !.replaying = TRUE]
    /\ cursor' = [c \in Channels |-> [cursor[c] EXCEPT !.fresh = FALSE]]
    /\ up' = (IF client.watch THEN <<[type |-> "watch"]>> ELSE <<>>)
             \o <<[type |-> "replay", known |-> client.known,
                   from |-> [c \in Channels |-> cursor[c].seq]]>>
    /\ sub' = [NoSubscriber EXCEPT !.on = TRUE]
    /\ wire' = <<[type |-> "hello", launch |-> launch,
                  baseline |-> [c \in Channels |-> ring[c].seq]]>>
    /\ UNCHANGED <<server, queue, pump, sending, held, history>>

\* The client opens its first pane: it states a watch set from now on.
Watch ==
    /\ ~client.watch /\ Narrow # {}
    /\ client' = [client EXCEPT !.watch = TRUE]
    /\ up' = IF client.open THEN Append(up, [type |-> "watch"]) ELSE up
    /\ UNCHANGED <<server, connection, wire, cursor, held, opens, history>>

\* Mutant: a new launch's hello leaves the cursors alone.
Restarted_Unnoticed(hello) == FALSE

Restarted(hello) == client.launch # 0 /\ hello.launch # client.launch

\* applyHello: a new process owns the numbers, or unknown channels are seeded.
ReadHello ==
    /\ wire # <<>> /\ Head(wire).type = "hello"
    /\ LET hello == Head(wire)
           zeroed == Restarted(hello) /\ client.known IN
       /\ client' = [client EXCEPT !.launch = hello.launch, !.known = TRUE,
                                   !.recover = @ \/ zeroed]
       /\ IF client.known
          THEN /\ cursor' = IF zeroed THEN [c \in Channels |-> [cursor[c] EXCEPT !.seq = 0]]
                            ELSE cursor
               /\ UNCHANGED told
          ELSE /\ cursor' = [c \in Channels |-> [seq |-> hello.baseline[c], fresh |-> TRUE]]
               /\ told' = hello.baseline
    /\ wire' = Tail(wire)
    /\ UNCHANGED <<server, connection, up, held, opens, got, lately>>

\* What a frame does to one channel: its cursor, what it dispatched, what it told.
View(c) == [cur |-> cursor[c], got |-> got[c], lately |-> lately[c], told |-> told[c]]
At(seq) == [seq |-> seq, fresh |-> TRUE]

Told(view, seq) == [view EXCEPT !.told = Max({@, seq}), !.lately = <<>>]
Dispatched(view, seq) ==
    [view EXCEPT !.cur = At(seq), !.got = @ \union {seq}, !.lately = Append(@, seq)]

\* A skip within one connection, on a channel that is not narrowed, is a loss.
Skipped(view, f) ==
    view.cur.fresh /\ f.seq > view.cur.seq + 1 /\ ~(client.watch /\ f.channel \in Narrow)

\* Mutant: a frame at or below the cursor is dispatched again.
Handled_Repeats(view, f) ==
    CASE f.kind = "mark" -> IF f.seq > view.cur.seq THEN [view EXCEPT !.cur = At(f.seq)] ELSE view
      [] f.kind = "gap" -> [Told(view, f.seq) EXCEPT !.cur = At(f.seq)]
      [] f.kind = "stamped" -> Dispatched(Told(view, f.seq), f.seq)
      [] f.kind = "event" -> Dispatched(view, f.seq)

\* handleEventEntry: a mark only advances the cursor, a gap sets it and is told,
\* a frame above it is dispatched.
Handled(view, f) ==
    CASE f.kind = "mark" -> IF f.seq > view.cur.seq THEN [view EXCEPT !.cur = At(f.seq)] ELSE view
      [] f.kind = "gap" -> [Told(view, f.seq) EXCEPT !.cur = At(f.seq)]
      [] f.kind = "stamped" -> Dispatched(Told(view, f.seq), f.seq)
      [] f.kind = "event" /\ f.seq <= view.cur.seq -> view
      [] f.kind = "event" /\ f.seq > view.cur.seq ->
           Dispatched(IF Skipped(view, f) THEN Told(view, f.seq) ELSE view, f.seq)

\* From the second connection on, frames wait for the replay to complete.
Buffering == client.replaying /\ opens > 1

\* ReplayBuffer.push: past its limit only the heads are kept.
Pushed(f) ==
    LET heads == [held.heads EXCEPT ![f.channel] = Max({@, f.seq})] IN
    IF held.overflow \/ Len(held.frames) = BufferCap
    THEN [frames |-> <<>>, overflow |-> TRUE, heads |-> heads]
    ELSE [frames |-> Append(held.frames, f), overflow |-> FALSE, heads |-> heads]

ReadFrame ==
    /\ wire # <<>> /\ Head(wire).type = "event"
    /\ LET f == Head(wire).frame
           c == f.channel IN
       IF Buffering
       THEN /\ held' = Pushed(f)
            /\ UNCHANGED <<cursor, history>>
       ELSE LET view == Handled(View(c), f) IN
            /\ cursor' = [cursor EXCEPT ![c] = view.cur]
            /\ got' = [got EXCEPT ![c] = view.got]
            /\ lately' = [lately EXCEPT ![c] = view.lately]
            /\ told' = [told EXCEPT ![c] = view.told]
            /\ UNCHANGED held
    /\ wire' = Tail(wire)
    /\ UNCHANGED <<server, connection, up, client, opens>>

\* ReplayBuffer.drain: by number, a gap first among equals.
Precedes(i, j) ==
    LET gap(k) == held.frames[k].kind \in {"gap", "stamped"} IN
    \/ held.frames[i].seq < held.frames[j].seq
    \/ held.frames[i].seq = held.frames[j].seq /\ gap(i) /\ ~gap(j)
    \/ held.frames[i].seq = held.frames[j].seq /\ gap(i) = gap(j) /\ i < j

Mine(c) == {i \in DOMAIN held.frames : held.frames[i].channel = c}
Nth(c, n) == CHOOSE j \in Mine(c) : Cardinality({i \in Mine(c) : Precedes(i, j)}) = n

\* The channel's view after each of its frames.
Views(c) ==
    LET view[n \in 0 .. Cardinality(Mine(c))] ==
            IF n = 0 THEN View(c) ELSE Handled(view[n - 1], held.frames[Nth(c, n - 1)])
    IN view

Drained(c) == Views(c)[Cardinality(Mine(c))]

Newest(c) == IF held.heads[c] # 0 THEN held.heads[c] ELSE cursor[c].seq

\* Mutant: an overflown buffer moves the cursors and tells nobody.
Recovered_Untold(c) == [View(c) EXCEPT !.cur = At(Newest(c))]

\* An overflown buffer told every channel, at the newest number it saw.  (A
\* marker numbered 0 follows a restart, which zeroed the cursor as well.)
Recovered(c) == [Told(View(c), Newest(c)) EXCEPT !.cur = At(Newest(c))]

\* The completion closes the window; after a restart every consumer is told to
\* fetch a snapshot, which covers whatever was emitted until then.
Settled(c) ==
    LET view == IF held.overflow THEN Recovered(c) ELSE Drained(c)
    IN IF client.recover THEN Told(view, ring[c].seq) ELSE view

ReadDone ==
    /\ wire # <<>> /\ Head(wire).type = "replay"
    /\ cursor' = [c \in Channels |-> Settled(c).cur]
    /\ got' = [c \in Channels |-> Settled(c).got]
    /\ lately' = [c \in Channels |-> Settled(c).lately]
    /\ told' = [c \in Channels |-> Settled(c).told]
    /\ held' = NothingHeld
    /\ client' = [client EXCEPT !.replaying = FALSE, !.recover = FALSE]
    /\ wire' = Tail(wire)
    /\ UNCHANGED <<server, connection, up, opens>>

-----------------------------------------------------------------------------
(* Outages.                                                                *)

Disconnected ==
    /\ sub' = NoSubscriber /\ queue' = <<>> /\ pump' = IdlePump /\ sending' = NoReplay
    /\ up' = <<>> /\ wire' = <<>>
    /\ held' = NothingHeld
    /\ client' = [client EXCEPT !.open = FALSE, !.replaying = FALSE]
    /\ UNCHANGED <<cursor, opens>>

Disconnect ==
    /\ client.open
    /\ Disconnected
    /\ UNCHANGED <<server, history>>

\* The backend starts over: its numbers, rings and subscribers are new.
Relaunch ==
    /\ launch < MaxLaunches /\ launch' = launch + 1
    /\ ring' = [c \in Channels |-> [seq |-> 0, oldest |-> 1]]
    /\ foreign' = [c \in Channels |-> {}]
    /\ Disconnected
    /\ got' = [c \in Channels |-> {}] /\ lately' = [c \in Channels |-> <<>>]
    /\ told' = [c \in Channels |-> 0]

-----------------------------------------------------------------------------

BusNext == \E c \in Channels : Release(c) \/ \E away \in BOOLEAN : Emit(c, away)

PumpNext == PumpEvent \/ TakeWithheld \/ CountQueue \/ DrainEvent \/ WriteMarks

LoopNext == ReadWatch \/ ReadReplay \/ WriteDone \/ \E c \in Channels : WriteReplay(c)

ClientReads == ReadHello \/ ReadFrame \/ ReadDone

Next ==
    \/ BusNext \/ PumpNext \/ LoopNext \/ ClientReads \/ Open \/ Watch
    \/ Disconnect \/ Relaunch

Spec == Init /\ [][Next]_vars

\* The pump, the read loop and the client's socket are scheduled.
FairSpec == Spec /\ WF_vars(PumpNext) /\ WF_vars(LoopNext) /\ WF_vars(ClientReads)

-----------------------------------------------------------------------------
(* Properties.                                                             *)

Downward ==
    [type : {"hello"}, launch : 1 .. MaxLaunches, baseline : [Channels -> Nat]]
        \union [type : {"event"}, frame : Frames] \union [type : {"replay"}]
Upward == [type : {"watch"}]
              \union [type : {"replay"}, known : BOOLEAN, from : [Channels -> Nat]]

TypeOK ==
    /\ launch \in 1 .. MaxLaunches
    /\ ring \in [Channels -> [seq : Nat, oldest : Nat]]
    /\ foreign \in [Channels -> SUBSET Nat]
    /\ sub \in [on : BOOLEAN, armed : BOOLEAN, gapped : SUBSET Channels,
                withheld : [Channels -> Nat]]
    /\ queue \in Seq(Frames) /\ Len(queue) <= QueueCap
    /\ pump \in [pc : {"idle", "count", "drain"}, left : 0 .. QueueCap,
                 marks : [Channels -> Nat]]
    /\ sending \in [busy : BOOLEAN, frames : [Channels -> SUBSET Frames]]
    /\ up \in Seq(Upward) /\ wire \in Seq(Downward)
    /\ client \in [open : BOOLEAN, known : BOOLEAN, launch : 0 .. MaxLaunches,
                   watch : BOOLEAN, replaying : BOOLEAN, recover : BOOLEAN]
    /\ cursor \in [Channels -> [seq : Nat, fresh : BOOLEAN]]
    /\ held \in [frames : Seq(Frames), overflow : BOOLEAN, heads : [Channels -> Nat]]
    /\ Len(held.frames) <= BufferCap /\ opens \in 0 .. MaxOpens
    /\ got \in [Channels -> SUBSET Nat] /\ lately \in [Channels -> Seq(Nat)]
    /\ told \in [Channels -> Nat]

\* The client asked not to be sent these.
Declined(c) == IF client.watch THEN foreign[c] ELSE {}

\* A cursor never passes a frame in silence: what it passed was dispatched,
\* declined, superseded by a later whole state, or lies under a loss the client
\* announced (or will, when the replay that follows a restart completes).
NoSilentLoss ==
    client.launch = launch =>
        \A c \in Channels : \A seq \in 1 .. cursor[c].seq :
            \/ seq \in got[c] \union Declined(c)
            \/ seq <= told[c]
            \/ client.recover
            \/ c \in LatestOnly /\ \E later \in got[c] : seq < later

\* Every frame above the cursor of a settled connection is on its way, is
\* declined, or lies under a loss announced or that the subscriber will announce.
Carried(c) ==
    {queue[i] : i \in DOMAIN queue} \union {wire[i].frame : i \in {j \in DOMAIN wire : wire[j].type = "event"}}
NothingVanishes ==
    client.open /\ client.known /\ client.launch = launch /\ ~client.replaying =>
        \A c \in Channels \ LatestOnly : \A seq \in cursor[c].seq + 1 .. ring[c].seq :
            \/ seq \in Declined(c) \/ c \in sub.gapped \/ seq <= told[c]
            \/ \E f \in Carried(c) : /\ f.channel = c
                                     /\ \/ f.seq = seq
                                        \/ f.seq > seq /\ f.kind \in {"gap", "stamped"}

\* Frames are dispatched in the order of their numbers, and a frame is dispatched
\* again only after its channel's consumers were told of a loss, which they answer
\* with a snapshot.
RepeatsAreTold ==
    \A c \in Channels : \A i, j \in DOMAIN lately[c] : i < j => lately[c][i] < lately[c][j]

\* A cursor never points into the numbers of a process that is gone, once hello
\* was read: later frames would be dropped forever.
CursorIsReachable ==
    client.launch = launch => \A c \in Channels : cursor[c].seq <= ring[c].seq

\* A replay window closes, unless the connection does.
ReplayCompletes == client.replaying ~> ~client.replaying

\* Frames a connection declines carry its cursor along, if no loss intervenes.
DeclinedAdvance ==
    \A c \in Narrow : \A n \in 1 .. MaxEmits[1][c] :
        (sub.withheld[c] = n) ~> (cursor[c].seq >= n \/ ~client.open \/ sub.withheld[c] > n
                                   \/ c \in sub.gapped)

=============================================================================
