-------------------------- MODULE SessionAdmission --------------------------
(***************************************************************************)
(* Who may call and who may listen (internal/identity/sessions.go, the     *)
(* connection registry and the watch of a connection in                    *)
(* internal/transport).  Every request asks Live, which answers from a map *)
(* of rows it read earlier, and installs what it reads there.  A           *)
(* revocation writes the row, drops the entry, and closes the connections  *)
(* that carry the session.  Calls, upgrades, renewals, revocations and     *)
(* the owner's own operations interleave at every lock and statement.      *)
(*                                                                         *)
(* One device with its sessions.  A row of the map was live when it was    *)
(* read, so its deadline is all of it that a later reader can tell apart.  *)
(***************************************************************************)
EXTENDS Integers

CONSTANTS
    Sessions,      \* sessions of the device; an id is minted once
    Calls,         \* requests that come to nothing more
    Conns,         \* requests that may upgrade to a connection
    Renewals,      \* renewal requests under way
    MaxRevocations, \* bound: calls that revoke a session, or the device
    Window,        \* length of access
    MaxClock       \* bound: the clock

ASSUME WindowAssumption == 
    Window \in Nat \ {0} /\ MaxClock \in Nat /\ MaxRevocations \in Nat

Clients == Calls \union Conns
Revocations == 1 .. MaxRevocations   \* in the order in which they write

VARIABLES
    clock,
    device,      \* the device's row
    rows,        \* the sessions' rows
    live,        \* the fast path: a deadline, NoEntry without one
    generation,  \* moved by every revocation
    conn,        \* a request or connection, and its call of Live
    registry,    \* SessionConns: connections a revocation will find
    renewal,     \* Refresh, from its capture of the generation
    revocation   \* RevokeSession and RevokeDevice

vars == <<clock, device, rows, live, generation, conn, registry, renewal, revocation>>

Times == 0 .. MaxClock + Window
NoEntry == 0

Rows == [state : {"unborn", "pending", "confirmed", "revoked", "deleted"}, expires : Times]

\* `at' is where Live is, `late' and `unbroken' its history: it began with its
\* session forgotten; the session was live ever since it began.
Requests == [place : {"none", "upgrade", "attached", "check", "stream", "watch"},
             at : {"drop", "read", "install", "admitted", "refused", "unavailable"},
             session : Sessions, now : 0 .. MaxClock, seen : Nat, expires : Times,
             late : BOOLEAN, unbroken : BOOLEAN, closed : BOOLEAN]
NoRequest(s) == [place |-> "none", at |-> "refused", session |-> s, now |-> 0, seen |-> 0,
                 expires |-> 0, late |-> FALSE, unbroken |-> FALSE, closed |-> FALSE]
RenewalCalls == [at : {"idle", "rotate", "remember"}, session : Sessions,
                 seen : Nat, expires : Times]
NoRenewal(s) == [at |-> "idle", session |-> s, seen |-> 0, expires |-> 0]

\* What a call ends, what it has not taken yet, and the callbacks it holds.
RevocationCalls == [at : {"ready", "forget", "close"}, ending : SUBSET Sessions,
                    left : SUBSET Sessions, closing : SUBSET Conns]

TypeOK ==
    /\ clock \in 0 .. MaxClock
    /\ device \in {"admitted", "revoked", "forgotten"}
    /\ rows \in [Sessions -> Rows]
    /\ live \in [Sessions -> Times] /\ generation \in Nat
    /\ conn \in [Clients -> Requests] /\ registry \subseteq Conns
    /\ renewal \in [Renewals -> RenewalCalls]
    /\ revocation \in [Revocations -> RevocationCalls]

Unrevoked == {"pending", "confirmed"}

LiveIn(table, standing, now, s) ==
    table[s].state = "confirmed" /\ standing = "admitted" /\ table[s].expires > now

RowLive(s) == LiveIn(rows, device, clock, s)

\* A backend that just started.  A session may have been minted on a revoked
\* device by a build that did not refuse it.
Init ==
    /\ clock = 0
    /\ device \in {"admitted", "revoked"}
    /\ \/ rows = [s \in Sessions |-> [state |-> "unborn", expires |-> 0]]
       \/ rows \in [Sessions -> [state : {"confirmed"}, expires : 0 .. Window]]
    /\ live = [s \in Sessions |-> NoEntry] /\ generation = 0
    /\ \E s \in Sessions : conn = [c \in Clients |-> NoRequest(s)]
    /\ registry = {}
    /\ \E s \in Sessions : renewal = [n \in Renewals |-> NoRenewal(s)]
    /\ revocation = [r \in Revocations |->
                        [at |-> "ready", ending |-> {}, left |-> {}, closing |-> {}]]

\* The revocations that are past the fast path, and those that returned.
Forgotten(s) == \E r \in Revocations : revocation[r].at = "close" /\ s \in revocation[r].ending
Returned(r) == revocation[r].at = "close" /\ revocation[r].left = {} /\ revocation[r].closing = {}

\* Each call still unbroken whose session is still live.
Recall(table, standing, now) ==
    conn' = [c \in Clients |->
                [conn[c] EXCEPT !.unbroken = @ /\ LiveIn(table, standing, now, conn[c].session)]]

-----------------------------------------------------------------------------
(* Live.                                                                   *)

\* Mutant: an entry is believed beyond its deadline.
Hit_Present(s) == live[s] # NoEntry

Hit(s) == live[s] > clock

Answer(call, at) == [call EXCEPT !.at = at, !.now = 0, !.seen = 0, !.expires = 0]

\* The clock, and one look at the map, with the generation.
Ask(c, s, place) ==
    LET call == [place |-> place, at |-> "read", session |-> s, now |-> clock,
                 seen |-> generation, expires |-> NoEntry,
                 late |-> Forgotten(s), unbroken |-> RowLive(s), closed |-> conn[c].closed] IN
    conn' = [conn EXCEPT ![c] =
        IF Hit(s) THEN Answer(call, "admitted")
        ELSE IF live[s] # NoEntry THEN [call EXCEPT !.at = "drop", !.expires = live[s]]
        ELSE call]

\* Mutant: an entry that expired in place is the answer.
Drop_Refuses(c) ==
    /\ conn[c].place # "none" /\ conn[c].at = "drop"
    /\ live' = IF live[conn[c].session] = conn[c].expires
               THEN [live EXCEPT ![conn[c].session] = NoEntry] ELSE live
    /\ conn' = [conn EXCEPT ![c] = Answer(@, "refused")]
    /\ UNCHANGED <<clock, device, rows, generation, registry, renewal, revocation>>

\* dropExpired.
Drop(c) ==
    /\ conn[c].place # "none" /\ conn[c].at = "drop"
    /\ live' = IF live[conn[c].session] = conn[c].expires
               THEN [live EXCEPT ![conn[c].session] = NoEntry] ELSE live
    /\ conn' = [conn EXCEPT ![c].at = "read", ![c].expires = NoEntry]
    /\ UNCHANGED <<clock, device, rows, generation, registry, renewal, revocation>>

\* confirmedSession: the row joined with its device's, which may not be
\* readable; then the deadline, at the time Live began.
Read(c) ==
    /\ conn[c].place # "none" /\ conn[c].at = "read"
    /\ \/ /\ LiveIn(rows, device, conn[c].now, conn[c].session)
          /\ conn' = [conn EXCEPT ![c].at = "install",
                                  ![c].expires = rows[conn[c].session].expires]
       \/ /\ ~LiveIn(rows, device, conn[c].now, conn[c].session)
          /\ conn' = [conn EXCEPT ![c] = Answer(@, "refused")]
       \/ conn' = [conn EXCEPT ![c] = Answer(@, "unavailable")]
    /\ UNCHANGED <<clock, device, rows, live, generation, registry, renewal, revocation>>

\* Mutant: what was read is installed whatever was revoked meanwhile.
Install_Always(c) ==
    /\ conn[c].place # "none" /\ conn[c].at = "install"
    /\ live' = [live EXCEPT ![conn[c].session] = conn[c].expires]
    /\ conn' = [conn EXCEPT ![c] = Answer(@, "admitted")]
    /\ UNCHANGED <<clock, device, rows, generation, registry, renewal, revocation>>

\* A full map may lose the entries that expired.
Swept(now) == [s \in Sessions |-> IF live[s] > now THEN live[s] ELSE NoEntry]

Install(c) ==
    /\ conn[c].place # "none" /\ conn[c].at = "install"
    /\ \/ /\ conn[c].seen = generation
          /\ \E kept \in {live, Swept(conn[c].now)} :
                live' = [kept EXCEPT ![conn[c].session] = conn[c].expires]
       \/ conn[c].seen # generation /\ UNCHANGED live
    /\ conn' = [conn EXCEPT ![c] = Answer(@, "admitted")]
    /\ UNCHANGED <<clock, device, rows, generation, registry, renewal, revocation>>

-----------------------------------------------------------------------------
(* A request, or the life of a connection.                                 *)

ConnOnly == UNCHANGED <<clock, device, rows, live, generation, registry, renewal, revocation>>

\* A credential that verifies is presented, by a request, a ticket, a call on
\* an open connection, or an upgrade.  A teardown that still has to run holds
\* on to its own connection.
Present(c, s) ==
    /\ conn[c].place = "none" /\ \A r \in Revocations : c \notin revocation[r].closing
    /\ Ask(c, s, "upgrade") /\ ConnOnly

Answered(c) == conn[c].at \in {"admitted", "refused", "unavailable"}

\* ... and answered; or the upgrade goes no further.
Leave(c) ==
    /\ conn[c].place = "upgrade" /\ Answered(c)
    /\ conn' = [conn EXCEPT ![c] = NoRequest(@.session)] /\ ConnOnly

\* Its call of Live is over.
Settled(c, place) == [NoRequest(conn[c].session) EXCEPT !.place = place, !.closed = conn[c].closed]

\* Mutant: the upgrade's own answer is good enough for a connection.
Attach_Streams(c) ==
    /\ c \in Conns /\ conn[c].place = "upgrade" /\ conn[c].at = "admitted"
    /\ registry' = registry \union {c}
    /\ conn' = [conn EXCEPT ![c] = Settled(c, "stream")]
    /\ UNCHANGED <<clock, device, rows, live, generation, renewal, revocation>>

Attach(c) ==
    /\ c \in Conns /\ conn[c].place = "upgrade" /\ conn[c].at = "admitted"
    /\ registry' = registry \union {c}
    /\ conn' = [conn EXCEPT ![c] = Settled(c, "attached")]
    /\ UNCHANGED <<clock, device, rows, live, generation, renewal, revocation>>

\* Once more, now that a revocation would find the connection.
Recheck(c) ==
    conn[c].place = "attached" /\ Ask(c, conn[c].session, "check") /\ ConnOnly

\* The pump and the watch start, or the watch goes on to its next tick.
Stream(c) ==
    /\ conn[c].place \in {"check", "watch"} /\ conn[c].at = "admitted"
    /\ conn' = [conn EXCEPT ![c] = Settled(c, "stream")] /\ ConnOnly

Watch(c) ==
    /\ conn[c].place = "stream" /\ ~conn[c].closed
    /\ Ask(c, conn[c].session, "watch") /\ ConnOnly

\* closeWithCause, endSession: the refusal ends what this connection is sent.
End(c) ==
    /\ conn[c].place \in {"check", "watch"} /\ conn[c].at \in {"refused", "unavailable"}
    /\ conn' = [conn EXCEPT ![c] = [Settled(c, "stream") EXCEPT !.closed = TRUE]] /\ ConnOnly

\* RunCleanups: the reader returned, because the connection was closed or the
\* client left.
Detach(c) ==
    /\ conn[c].place = "stream"
    /\ registry' = registry \ {c}
    /\ conn' = [conn EXCEPT ![c] = NoRequest(@.session)]
    /\ UNCHANGED <<clock, device, rows, live, generation, renewal, revocation>>

-----------------------------------------------------------------------------
(* Refresh, whose secrets SessionRenewal models.                           *)

Capture(n, s) ==
    /\ renewal[n].at = "idle"
    /\ renewal' = [renewal EXCEPT ![n] = [at |-> "rotate", session |-> s, seen |-> generation,
                                          expires |-> clock + Window]]
    /\ UNCHANGED <<clock, device, rows, live, generation, conn, registry, revocation>>

\* RotateRefreshSecret extends the row it returns, unless that is dead.
Rotate(n) ==
    LET s == renewal[n].session IN
    /\ renewal[n].at = "rotate"
    /\ \/ /\ rows[s].state = "confirmed" /\ device = "admitted"
          /\ LET longer == IF rows[s].expires < renewal[n].expires
                           THEN renewal[n].expires ELSE rows[s].expires IN
             /\ rows' = [rows EXCEPT ![s].expires = longer]
             /\ renewal' = [renewal EXCEPT ![n].at = "remember", ![n].expires = longer]
       \/ renewal' = [renewal EXCEPT ![n] = NoRenewal(s)] /\ UNCHANGED rows
    /\ UNCHANGED <<clock, device, live, generation, conn, registry, revocation>>

\* rememberAt.
Remember(n) ==
    /\ renewal[n].at = "remember"
    /\ renewal' = [renewal EXCEPT ![n] = NoRenewal(@.session)]
    /\ live' = IF renewal[n].expires > clock /\ renewal[n].seen = generation
               THEN [live EXCEPT ![renewal[n].session] = renewal[n].expires] ELSE live
    /\ UNCHANGED <<clock, device, rows, generation, conn, registry, revocation>>

-----------------------------------------------------------------------------
(* RevokeSession, RevokeDevice: the rows, the fast path, the connections.  *)

Ends(r, ending, standing) ==
    /\ revocation[r].at = "ready" /\ \A q \in 1 .. r - 1 : revocation[q].at # "ready"
    /\ revocation' = [revocation EXCEPT ![r].at = "forget", ![r].ending = ending]
    /\ rows' = [s \in Sessions |-> IF s \in ending /\ rows[s].state \in Unrevoked
                                   THEN [rows[s] EXCEPT !.state = "revoked"] ELSE rows[s]]
    /\ device' = standing /\ Recall(rows', device', clock)
    /\ UNCHANGED <<clock, live, generation, registry, renewal>>

\* A session that is revoked already is forgotten and closed once more.
RevokeSession(r, s) == rows[s].state # "unborn" /\ Ends(r, {s}, device)

\* The sweep returns the sessions it moved.
RevokeDevice(r) ==
    Ends(r, {s \in Sessions : rows[s].state \in Unrevoked},
         IF device = "admitted" THEN "revoked" ELSE device)

\* Mutant: the generation stays.
Forget_Quietly(r) ==
    /\ revocation[r].at = "forget"
    /\ revocation' = [revocation EXCEPT ![r].at = "close", ![r].left = revocation[r].ending]
    /\ live' = [s \in Sessions |-> IF s \in revocation[r].ending THEN NoEntry ELSE live[s]]
    /\ UNCHANGED <<clock, device, rows, generation, conn, registry, renewal>>

\* forget, forgetAll.
Forget(r) ==
    /\ revocation[r].at = "forget"
    /\ revocation' = [revocation EXCEPT ![r].at = "close", ![r].left = revocation[r].ending]
    /\ live' = [s \in Sessions |-> IF s \in revocation[r].ending THEN NoEntry ELSE live[s]]
    /\ generation' = generation + 1
    /\ UNCHANGED <<clock, device, rows, conn, registry, renewal>>

\* CloseSession takes the callbacks and the entry, under the lock ...
Take(r, s) ==
    /\ revocation[r].at = "close" /\ s \in revocation[r].left /\ revocation[r].closing = {}
    /\ revocation' = [revocation EXCEPT
          ![r].left = @ \ {s}, ![r].closing = {c \in registry : conn[c].session = s}]
    /\ registry' = {c \in registry : conn[c].session # s}
    /\ UNCHANGED <<clock, device, rows, live, generation, conn, renewal>>

\* ... and calls them outside it.
Close(r, c) ==
    /\ c \in revocation[r].closing
    /\ revocation' = [revocation EXCEPT ![r].closing = @ \ {c}]
    /\ conn' = [conn EXCEPT ![c].closed = conn[c].place # "none"]
    /\ UNCHANGED <<clock, device, rows, live, generation, registry, renewal>>

-----------------------------------------------------------------------------
(* The owner's other operations, and time.                                 *)

Only(table) ==
    rows' = table /\ UNCHANGED <<clock, live, generation, registry, renewal, revocation>>

\* The device gate is in the statement that inserts.
Mint(s) ==
    /\ rows[s].state = "unborn" /\ device = "admitted"
    /\ \E state \in Unrevoked :
          Only([rows EXCEPT ![s] = [state |-> state, expires |-> clock + Window]])
    /\ UNCHANGED <<device, conn>>

ActivateSession(s) ==
    /\ rows[s].state = "pending" /\ rows[s].expires > clock /\ device = "admitted"
    /\ Only([rows EXCEPT ![s] = [state |-> "confirmed", expires |-> clock + Window]])
    /\ UNCHANGED <<device, conn>>

RestoreDevice ==
    /\ device = "revoked" /\ device' = "admitted"
    /\ Only(rows) /\ UNCHANGED conn

\* The sessions' rows cascade.
ForgetDevice ==
    /\ device = "revoked" /\ device' = "forgotten"
    /\ Only([s \in Sessions |-> IF rows[s].state = "unborn" THEN rows[s]
                                ELSE [rows[s] EXCEPT !.state = "deleted"]])
    /\ UNCHANGED conn

\* DeleteSessionsExpiredBefore, once no secret can renew the session.
Prune(s) ==
    /\ rows[s].state \notin {"unborn", "deleted"} /\ rows[s].expires < clock
    /\ Only([rows EXCEPT ![s].state = "deleted"]) /\ UNCHANGED <<device, conn>>

Tick ==
    /\ clock < MaxClock /\ clock' = clock + 1
    /\ Recall(rows, device, clock')
    /\ UNCHANGED <<device, rows, live, generation, registry, renewal, revocation>>

-----------------------------------------------------------------------------

Serve(c) ==
    \/ Drop(c) \/ Read(c) \/ Install(c)
    \/ Recheck(c) \/ Stream(c) \/ End(c) \/ Watch(c)

Arrive(c) == (\E s \in Sessions : Present(c, s)) \/ Attach(c) \/ Leave(c) \/ Detach(c)

Renew(n) == (\E s \in Sessions : Capture(n, s)) \/ Rotate(n) \/ Remember(n)

Revoke(r) ==
    \/ \E s \in Sessions : RevokeSession(r, s)
    \/ RevokeDevice(r)

Proceed(r) ==
    \/ Forget(r)
    \/ \E s \in Sessions : Take(r, s)
    \/ \E c \in Conns : Close(r, c)

Own ==
    \/ \E s \in Sessions : Mint(s) \/ ActivateSession(s) \/ Prune(s)
    \/ RestoreDevice \/ ForgetDevice

Next ==
    \/ \E c \in Clients : Serve(c) \/ Arrive(c)
    \/ \E n \in Renewals : Renew(n)
    \/ \E r \in Revocations : Revoke(r) \/ Proceed(r)
    \/ Own \/ Tick

Spec == Init /\ [][Next]_vars

\* Goroutines run, and the watch's timer fires; nobody must call or revoke.
FairSpec ==
    /\ Spec
    /\ \A c \in Clients : WF_vars(Serve(c))
    /\ \A r \in Revocations : WF_vars(Proceed(r))

-----------------------------------------------------------------------------

\* A call that began after a revocation dropped its session is not admitted,
\* whatever reads and renewals were under way; and one whose session stayed
\* live while it ran is not refused, whatever the fast path held.
CallsAnswerTruly ==
    \A c \in Clients : conn[c].place # "none" =>
        /\ conn[c].late => conn[c].at # "admitted"
        /\ conn[c].unbroken => conn[c].at # "refused"

Streaming(c) == conn[c].place \in {"stream", "watch"} /\ ~conn[c].closed

\* When a revocation has returned, no connection streams under its sessions,
\* not even one that was upgrading meanwhile, except one whose callback a
\* concurrent revocation of the same session took and has not called yet.
RevokedIsSilent ==
    \A r \in Revocations, c \in Conns :
        Returned(r) /\ conn[c].session \in revocation[r].ending /\ Streaming(c) =>
            \E other \in Revocations : c \in revocation[other].closing

\* A connection whose session is dead, for whatever reason, comes to an end
\* unless the session is live again first.
DeadIsDisconnected ==
    \A c \in Conns, s \in Sessions :
        (Streaming(c) /\ conn[c].session = s /\ ~RowLive(s))
            ~> (~Streaming(c) \/ conn[c].session # s \/ RowLive(s))

=============================================================================
