--------------------------- MODULE SessionRenewal ---------------------------
(***************************************************************************)
(* The renewal of a paired device's session.  Client processes of one      *)
(* installation share a profile file (deviceclient); the backend rotates   *)
(* the session's refresh secret (identity.Refresh, RotateRefreshSecret).   *)
(* A recoverable renewal names the successor its client has saved; a       *)
(* legacy one leaves the choice to the backend, and cannot be repeated.    *)
(*                                                                         *)
(* Secrets are numbered as they are drawn: 32 random bytes never repeat.   *)
(* 0 is the absence of a secret, a session or a profile.                   *)
(***************************************************************************)
EXTENDS Naturals, FiniteSets

CONSTANTS
    Processes,     \* client processes over one profile directory
    Nobody,        \* holds a lock nobody holds
    Builds,        \* the backend's builds: TRUE knows recoverable renewals
    Inherited,     \* what an older client may have noted of them
    MaxPairings,   \* bound: how often the device is paired
    MaxSecrets,    \* bound: how many secrets are drawn
    MaxLate        \* bound: renewals served after their sender gave up

ASSUME ProcessesAssumption == IsFiniteSet(Processes) /\ Nobody \notin Processes
ASSUME BuildsAssumption ==
    /\ Builds \subseteq BOOLEAN /\ Builds # {}
    /\ Inherited \subseteq {"unknown", "no", "yes"} /\ Inherited # {}
ASSUME BoundsAssumption ==
    /\ MaxPairings \in Nat \ {0} /\ MaxSecrets \in Nat \ {0} /\ MaxLate \in Nat

VARIABLES
    modern,      \* the backend's build knows recoverable renewals
    rows,        \* refresh_secrets, by secret
    revoked,     \* sessions that are revoked
    drawn,       \* how many secrets were drawn
    paired,      \* how many sessions were paired
    profile,     \* the session file
    client,      \* each process's Client and where its rotation is
    legacyLock,  \* who holds the lock file of legacy renewals
    requests,    \* renewals on the wire or in a handler of the backend
    reused,      \* history: sessions revoked for reuse
    lapsed,      \* history: sessions whose unspent secret expired
    legacy       \* history: sessions some legacy renewal was sent for

history == <<reused, lapsed, legacy>>
backend == <<modern, rows, revoked, paired>>
vars == <<backend, drawn, profile, client, legacyLock, requests, history>>

Secrets == 1 .. MaxSecrets
Sessions == 1 .. MaxPairings

NoRow == [session |-> 0, spent |-> FALSE, next |-> 0, expired |-> FALSE]
Unspent(session) == [NoRow EXCEPT !.session = session]
NoProfile == [session |-> 0, secret |-> 0, pending |-> 0, recovery |-> "unknown"]

Rows == [session : 0 .. MaxPairings, spent : BOOLEAN, next : 0 .. MaxSecrets,
         expired : BOOLEAN]
Profiles == [session : 0 .. MaxPairings, secret : 0 .. MaxSecrets,
             pending : 0 .. MaxSecrets, recovery : {"unknown", "no", "yes"}]
Clients == [pc : {"idle", "probe", "lock", "save", "wait", "retired"},
            mine : Profiles, held : Profiles, support : BOOLEAN]
Requests == [from : Processes, late : BOOLEAN, session : Sessions,
             secret : Secrets, next : 0 .. MaxSecrets,
             stage : {"sent", "checked", "spending", "revoking", "answered"},
             answer : {"none", "granted", "ended", "kept"},
             issued : 0 .. MaxSecrets, modern : BOOLEAN]

TypeOK ==
    /\ modern \in BOOLEAN
    /\ rows \in [Secrets -> Rows]
    /\ revoked \subseteq Sessions
    /\ drawn \in 0 .. MaxSecrets /\ paired \in Sessions
    /\ profile \in Profiles
    /\ client \in [Processes -> Clients]
    /\ legacyLock \in Processes \union {Nobody}
    /\ requests \subseteq Requests
    /\ reused \subseteq Sessions /\ lapsed \subseteq Sessions
    /\ legacy \subseteq Sessions

\* What a rotation uses of the session its client keeps in memory.
Memory(session) == [session EXCEPT !.pending = 0, !.recovery = "unknown"]
Idle(mine) == [pc |-> "idle", mine |-> Memory(mine), held |-> NoProfile, support |-> FALSE]
Retired == [Idle(NoProfile) EXCEPT !.pc = "retired"]

\* The device is paired, and every process has opened the profile; an older
\* build may have left it without a word about the backend's capability.
Init ==
    /\ modern \in Builds
    /\ rows = [s \in Secrets |-> IF s = 1 THEN Unspent(1) ELSE NoRow]
    /\ revoked = {} /\ drawn = 1 /\ paired = 1
    /\ \E recovery \in Inherited :
          /\ recovery = "yes" => modern
          /\ profile = [session |-> 1, secret |-> 1, pending |-> 0, recovery |-> recovery]
    /\ client = [p \in Processes |-> Idle(profile)]
    /\ legacyLock = Nobody /\ requests = {}
    /\ reused = {} /\ lapsed = {} /\ legacy = {}

-----------------------------------------------------------------------------
(* The client.  Between two steps of a process lies the network or a lock; *)
(* a profile transaction is one step, under the lock of the file.          *)

\* sessionTransaction: the file must still name the pairing the client owns.
Owns(p) == profile.session # 0 /\ profile.session = client[p].mine.session

Unlocked(p) == IF legacyLock = p THEN Nobody ELSE legacyLock

\* The rotation ends; the client remembers `mine` as its session.
EndsWith(p, state) ==
    /\ client' = [client EXCEPT ![p] = state]
    /\ legacyLock' = Unlocked(p)

Answered(p) == {r \in requests : r.from = p /\ ~r.late /\ r.stage = "answered"}

\* The first transaction of a rotation.
Begin(p) ==
    /\ client[p].pc = "idle" /\ Owns(p) /\ profile.secret = client[p].mine.secret
    /\ client' = [client EXCEPT ![p] =
          [pc |-> CASE profile.recovery = "yes"     -> "save"
                    [] profile.recovery = "no"      -> "lock"
                    [] profile.recovery = "unknown" -> "probe",
           mine |-> Memory(profile), held |-> profile, support |-> profile.recovery = "yes"]]
    /\ UNCHANGED <<backend, drawn, profile, legacyLock, requests, history>>

\* A transaction finds the file gone or naming another pairing.
Disowned(p) ==
    /\ client[p].pc \in {"idle", "save"} \/ Answered(p) # {}
    /\ ~Owns(p)
    /\ EndsWith(p, Retired)
    /\ requests' = requests \ Answered(p)
    /\ UNCHANGED <<backend, drawn, profile, history>>

\* A transaction before the exchange finds that somebody else has renewed.
Overtaken(p) ==
    /\ Owns(p)
    /\ \/ client[p].pc = "idle" /\ profile.secret # client[p].mine.secret
       \/ client[p].pc = "save" /\ profile.secret # client[p].held.secret
    /\ EndsWith(p, Idle(profile))
    /\ UNCHANGED <<backend, drawn, profile, requests, history>>

\* GET /healthz, without credentials.
Probe(p) ==
    /\ client[p].pc = "probe"
    /\ client' = [client EXCEPT ![p].support = modern,
                                ![p].pc = IF modern THEN "save" ELSE "lock"]
    /\ UNCHANGED <<backend, drawn, profile, legacyLock, requests, history>>

TakeLegacyLock(p) ==
    /\ client[p].pc = "lock" /\ legacyLock = Nobody
    /\ legacyLock' = p
    /\ client' = [client EXCEPT ![p].pc = "save"]
    /\ UNCHANGED <<backend, drawn, profile, requests, history>>

\* The wait for it is shorter than the exchange its holder may be in.
LockTimesOut(p) ==
    /\ client[p].pc = "lock" /\ legacyLock # Nobody
    /\ EndsWith(p, Idle(client[p].mine))
    /\ UNCHANGED <<backend, drawn, profile, requests, history>>

\* The probe fails, or a transaction does: the lock of the file, or the write.
Fails(p) ==
    /\ client[p].pc \in {"probe", "save"}
    /\ EndsWith(p, Idle(client[p].mine))
    /\ UNCHANGED <<backend, drawn, profile, requests, history>>

Request(p, session, secret, next) ==
    [from |-> p, late |-> FALSE, session |-> session, secret |-> secret, next |-> next,
     stage |-> "sent", answer |-> "none", issued |-> 0, modern |-> FALSE]

\* Whether the backend supports recovery, by the file if it says, else by the probe.
Support(p) == IF profile.recovery = "unknown" THEN client[p].support
              ELSE profile.recovery = "yes"

\* Mutant: every attempt chooses its own successor.
Saved_Fresh(p) == [profile EXCEPT !.recovery = IF Support(p) THEN "yes" ELSE "no",
                                  !.pending = IF Support(p) THEN drawn + 1 ELSE @]

Saved(p) == [profile EXCEPT !.recovery = IF Support(p) THEN "yes" ELSE "no",
                            !.pending = IF Support(p) /\ @ = 0 THEN drawn + 1 ELSE @]

\* Mutant: a renewal that is pending is not repeated.
Save_Once(p) ==
    /\ client[p].pc = "save" /\ Owns(p) /\ profile.secret = client[p].held.secret
    /\ profile.pending = 0
    /\ drawn' = IF Saved(p).pending # profile.pending THEN drawn + 1 ELSE drawn
    /\ drawn' <= MaxSecrets
    /\ profile' = Saved(p)
    /\ client' = [client EXCEPT ![p] = [pc |-> "wait", mine |-> Memory(Saved(p)), held |-> Saved(p),
                                        support |-> Support(p)]]
    /\ requests' = requests \union
          {Request(p, profile.session, profile.secret, Saved(p).pending)}
    /\ legacy' = IF Support(p) THEN legacy ELSE legacy \union {profile.session}
    /\ UNCHANGED <<backend, legacyLock, reused, lapsed>>

\* The second transaction saves the successor, and the request leaves.  A crash
\* between the two is a crash that loses the request.
Save(p) ==
    /\ client[p].pc = "save" /\ Owns(p) /\ profile.secret = client[p].held.secret
    /\ profile.pending # 0 => Support(p)
    /\ drawn' = IF Saved(p).pending # profile.pending THEN drawn + 1 ELSE drawn
    /\ drawn' <= MaxSecrets
    /\ profile' = Saved(p)
    /\ client' = [client EXCEPT ![p] = [pc |-> "wait", mine |-> Memory(Saved(p)), held |-> Saved(p),
                                        support |-> Support(p)]]
    /\ requests' = requests \union
          {Request(p, profile.session, profile.secret, Saved(p).pending)}
    /\ legacy' = IF Support(p) THEN legacy ELSE legacy \union {profile.session}
    /\ UNCHANGED <<backend, legacyLock, reused, lapsed>>

\* The exchange fails: the connection, or its time.  The request may be served yet.
Abandon(p) ==
    \E r \in requests :
       /\ r.from = p /\ ~r.late /\ r.answer \in {"none", "granted", "ended"}
       /\ requests' \in
            {(requests \ {r}) \union {[r EXCEPT !.stage = "answered", !.answer = "kept", !.issued = 0]}
                              \union late :
             late \in {{}} \union (IF r.stage = "answered" \/
                                      Cardinality({q \in requests : q.late}) = MaxLate
                                   THEN {} ELSE {{[r EXCEPT !.late = TRUE]}})}
    /\ UNCHANGED <<backend, drawn, profile, client, legacyLock, history>>

\* Mutant: an answer applies to whatever the session has become.
SameRenewal_Session(a, b) == a.session = b.session

SameRenewal(a, b) ==
    a.session = b.session /\ a.secret = b.secret /\ a.pending = b.pending

\* The last transaction: a newer generation stands, whatever the answer.
Late(p) ==
    \E r \in Answered(p) :
       /\ Owns(p) /\ ~SameRenewal(profile, client[p].held)
       /\ EndsWith(p, Idle(profile))
       /\ requests' = requests \ {r}
    /\ UNCHANGED <<backend, drawn, profile, history>>

\* ... an answer that is no verdict leaves everything for the next attempt ...
Keep(p) ==
    \E r \in Answered(p) :
       /\ r.answer = "kept" /\ Owns(p) /\ SameRenewal(profile, client[p].held)
       /\ EndsWith(p, Idle(client[p].mine))
       /\ requests' = requests \ {r}
    /\ UNCHANGED <<backend, drawn, profile, history>>

\* ... a verdict removes the profile ...
Remove(p) ==
    \E r \in Answered(p) :
       /\ r.answer = "ended" /\ Owns(p) /\ SameRenewal(profile, client[p].held)
       /\ profile' = NoProfile
       /\ EndsWith(p, Retired)
       /\ requests' = requests \ {r}
    /\ UNCHANGED <<backend, drawn, history>>

\* ... and a grant of the renewal that was asked for replaces it.
Apply(p) ==
    \E r \in Answered(p) :
       /\ r.answer = "granted" /\ Owns(p) /\ SameRenewal(profile, client[p].held)
       /\ r.next # 0 => r.issued = r.next
       /\ profile' = [profile EXCEPT !.secret = r.issued, !.pending = 0,
                                     !.recovery = IF r.modern THEN "yes" ELSE @]
       /\ EndsWith(p, Idle(profile'))
       /\ requests' = requests \ {r}
    /\ UNCHANGED <<backend, drawn, history>>

\* A ticket's answer tells the client what its backend supports.
Ticket(p) ==
    /\ client[p].pc # "retired" /\ profile.recovery # "yes" /\ Owns(p)
    /\ modern /\ profile.session \notin revoked
    /\ profile' = [profile EXCEPT !.recovery = "yes"]
    /\ client' = [client EXCEPT ![p].mine = Memory(profile')]
    /\ UNCHANGED <<backend, drawn, legacyLock, requests, history>>

\* The user removes the computer.
Forget(p) ==
    /\ client[p].pc = "idle" /\ Owns(p)
    /\ profile' = NoProfile
    /\ EndsWith(p, Retired)
    /\ UNCHANGED <<backend, drawn, requests, history>>

\* ... or pairs with it, again or after having been refused.
Pair(p) ==
    /\ client[p].pc \in {"idle", "retired"}
    /\ paired < MaxPairings /\ drawn < MaxSecrets
    /\ paired' = paired + 1 /\ drawn' = drawn + 1
    /\ rows' = [rows EXCEPT ![drawn + 1] = Unspent(paired + 1)]
    /\ profile' = [session |-> paired + 1, secret |-> drawn + 1, pending |-> 0,
                   recovery |-> IF modern THEN "yes" ELSE "no"]
    /\ client' = [client EXCEPT ![p] = Idle(profile')]
    /\ UNCHANGED <<modern, revoked, legacyLock, requests, history>>

\* The process ends; its locks with it, but not its request.
Crash(p) ==
    /\ client[p].pc # "retired"
    /\ EndsWith(p, Retired)
    /\ \E late \in SUBSET {r \in requests : r.from = p /\ ~r.late /\ r.stage # "answered"} :
          LET own == {r \in requests : r.from = p /\ ~r.late}
          IN  /\ Cardinality(late) + Cardinality({r \in requests : r.late}) <= MaxLate
              /\ requests' = (requests \ own) \union {[r EXCEPT !.late = TRUE] : r \in late}
    /\ UNCHANGED <<backend, drawn, profile, history>>

\* A process, new or retired, opens the profile.
Open(p) ==
    /\ client[p].pc = "retired" /\ profile.session # 0
    /\ client' = [client EXCEPT ![p] = Idle(profile)]
    /\ UNCHANGED <<backend, drawn, profile, legacyLock, requests, history>>

-----------------------------------------------------------------------------
(* The backend.  Its handlers of one session run beside each other.        *)

Known(secret) == rows[secret].session # 0

At(r, stage) == requests' = (requests \ {r}) \union {[r EXCEPT !.stage = stage]}

\* The answer travels to a sender that still waits.
Answer(r, answer, issued) ==
    requests' = (requests \ {r}) \union
        (IF r.late THEN {}
         ELSE {[r EXCEPT !.stage = "answered", !.answer = answer, !.issued = issued,
                         !.modern = modern /\ answer = "granted"]})

\* What the handler finds before the transaction.
Verdict(r) ==
    IF r.next # 0 /\ ~modern THEN "kept"
    ELSE IF ~Known(r.secret) \/ r.session \in revoked THEN "ended"
    ELSE IF r.next = 0 /\ rows[r.secret].spent THEN "reuse"
    ELSE IF r.next = 0 /\ rows[r.secret].expired THEN "ended" ELSE "checked"

Receive(r) ==
    /\ r.stage = "sent"
    /\ CASE Verdict(r) = "checked" -> At(r, "checked")
         [] Verdict(r) = "reuse"   -> At(r, "spending")
         [] OTHER                  -> Answer(r, Verdict(r), 0)
    /\ UNCHANGED <<backend, drawn, profile, client, legacyLock, history>>

\* Mutant: the transaction trusts the check that came before it.
Outcome_Trusting(r) ==
    LET old == rows[r.secret]
        recorded == rows[r.next]
    IN  IF old.session # r.session THEN "ended"
        ELSE IF ~old.spent /\ ~old.expired
        THEN IF r.next # 0 /\ Known(r.next) THEN "ended" ELSE "rotated"
        ELSE IF ~old.spent THEN "ended"
        ELSE IF r.next = 0 \/ old.next # r.next THEN "reuse"
        ELSE IF recorded.session # r.session THEN "ended"
        ELSE IF recorded.spent THEN "kept"
        ELSE IF recorded.expired THEN "ended" ELSE "replayed"

\* Mutant: every repetition is reuse.
Outcome_Strict(r) ==
    LET old == rows[r.secret]
        recorded == rows[r.next]
    IN  IF r.session \in revoked \/ old.session # r.session THEN "ended"
        ELSE IF ~old.spent /\ ~old.expired
        THEN IF r.next # 0 /\ Known(r.next) THEN "ended" ELSE "rotated"
        ELSE IF ~old.spent THEN "ended"
        ELSE IF TRUE THEN "reuse"
        ELSE IF recorded.session # r.session THEN "ended"
        ELSE IF recorded.spent THEN "kept"
        ELSE IF recorded.expired THEN "ended" ELSE "replayed"

\* What RotateRefreshSecret decides, within its transaction. A proposed successor
\* that is a secret already is refused as a malformed proof, which ends the
\* session for the client like the other verdicts do (renewalRefusalEndsSession).
Outcome(r) ==
    LET old == rows[r.secret]
        recorded == rows[r.next]
    IN  IF r.session \in revoked \/ old.session # r.session THEN "ended"
        ELSE IF ~old.spent /\ ~old.expired
        THEN IF r.next # 0 /\ Known(r.next) THEN "ended" ELSE "rotated"
        ELSE IF ~old.spent THEN "ended"
        ELSE IF r.next = 0 \/ old.next # r.next THEN "reuse"
        ELSE IF recorded.session # r.session THEN "ended"
        ELSE IF recorded.spent THEN "kept"
        ELSE IF recorded.expired THEN "ended" ELSE "replayed"

\* Mutant: the predecessor is not spent.
Rotate_Unspent(r) ==
    LET successor == IF r.next # 0 THEN r.next ELSE drawn + 1
    IN  /\ r.stage = "checked" /\ Outcome(r) = "rotated"
        /\ drawn' = IF r.next # 0 THEN drawn ELSE drawn + 1
        /\ drawn' <= MaxSecrets
        /\ rows' = [rows EXCEPT ![r.secret].next = r.next,
                                ![successor] = Unspent(r.session)]
        /\ Answer(r, "granted", successor)
        /\ UNCHANGED <<modern, revoked, paired, profile, client, legacyLock, history>>

\* The rotation commits: the predecessor is spent and its successor, if the
\* client named it, recorded.
Rotate(r) ==
    LET successor == IF r.next # 0 THEN r.next ELSE drawn + 1
    IN  /\ r.stage = "checked" /\ Outcome(r) = "rotated"
        /\ drawn' = IF r.next # 0 THEN drawn ELSE drawn + 1
        /\ drawn' <= MaxSecrets
        /\ rows' = [rows EXCEPT ![r.secret].spent = TRUE, ![r.secret].next = r.next,
                                ![successor] = Unspent(r.session)]
        /\ Answer(r, "granted", successor)
        /\ UNCHANGED <<modern, revoked, paired, profile, client, legacyLock, history>>

\* It does not: a recovered answer, a refusal, or evidence of reuse.
Decline(r) ==
    /\ r.stage = "checked"
    /\ \/ Outcome(r) = "replayed" /\ Answer(r, "granted", r.next)
       \/ Outcome(r) \in {"ended", "kept"} /\ Answer(r, Outcome(r), 0)
       \/ Outcome(r) = "reuse" /\ At(r, "spending")
    /\ UNCHANGED <<backend, drawn, profile, client, legacyLock, history>>

\* revokeFamilyForReuse spends every secret of the family, ...
SpendFamily(r) ==
    /\ r.stage = "spending" /\ At(r, "revoking")
    /\ rows' = [s \in Secrets |-> [rows[s] EXCEPT !.spent = @ \/ rows[s].session = r.session]]
    /\ UNCHANGED <<modern, revoked, paired, drawn, profile, client, legacyLock, history>>

\* ... and revokes the session.
RevokeFamily(r) ==
    /\ r.stage = "revoking" /\ Answer(r, "ended", 0)
    /\ revoked' = revoked \union {r.session} /\ reused' = reused \union {r.session}
    /\ UNCHANGED <<modern, rows, paired, drawn, profile, client, legacyLock,
                   lapsed, legacy>>

\* Either write may fail, and the handler goes on; a read or a commit that fails
\* leaves everything as it is, and the client with no verdict.
StoreFails(r) ==
    /\ \/ r.stage \in {"sent", "checked"} /\ Answer(r, "kept", 0)
       \/ r.stage = "spending" /\ At(r, "revoking")
       \/ r.stage = "revoking" /\ Answer(r, "ended", 0)
    /\ UNCHANGED <<backend, drawn, profile, client, legacyLock, history>>

\* The owner revokes the session or its device.
Revoke(session) ==
    /\ session <= paired /\ revoked' = revoked \union {session}
    /\ UNCHANGED <<modern, rows, paired, drawn, profile, client, legacyLock, requests, history>>

\* A secret's window closes, after those of the secrets before it.
Expire(s) ==
    /\ Known(s) /\ ~rows[s].expired
    /\ ~rows[s].spent => \A t \in Secrets :
           rows[t].session = rows[s].session /\ rows[t].spent => rows[t].expired
    /\ rows' = [rows EXCEPT ![s].expired = TRUE]
    /\ lapsed' = IF rows[s].spent THEN lapsed ELSE lapsed \union {rows[s].session}
    /\ UNCHANGED <<modern, revoked, paired, drawn, profile, client, legacyLock, requests,
                   reused, legacy>>

\* Mutant: receipts go with their window.
Prune_Receipts(s) ==
    /\ Known(s) /\ rows[s].expired
    /\ rows' = [rows EXCEPT ![s] = NoRow]
    /\ UNCHANGED <<modern, revoked, paired, drawn, profile, client, legacyLock, requests, history>>

\* DeleteRefreshSecretsExpiredBefore keeps the receipt of an unspent successor.
Prune(s) ==
    /\ Known(s) /\ rows[s].expired
    /\ rows[s].next # 0 => ~(Known(rows[s].next) /\ ~rows[rows[s].next].spent)
    /\ rows' = [rows EXCEPT ![s] = NoRow]
    /\ UNCHANGED <<modern, revoked, paired, drawn, profile, client, legacyLock, requests, history>>

\* The backend stops in the middle of its handlers; this build comes back, or another.
Restart(build) ==
    /\ build \in Builds /\ modern' = build
    /\ requests' = {r \in requests : r.stage = "answered"} \union
          {[r EXCEPT !.stage = "answered", !.answer = "kept"] :
              r \in {q \in requests : q.stage # "answered" /\ ~q.late}}
    /\ UNCHANGED <<rows, revoked, paired, drawn, profile, client, legacyLock, history>>

\* The owner updates it.
Update == ~modern /\ Restart(TRUE)

-----------------------------------------------------------------------------

ClientNext(p) ==
    \/ Begin(p) \/ Disowned(p) \/ Overtaken(p) \/ Probe(p) \/ TakeLegacyLock(p)
    \/ LockTimesOut(p) \/ Save(p) \/ Late(p) \/ Keep(p) \/ Remove(p) \/ Apply(p) \/ Open(p)

BackendNext ==
    \E r \in requests :
        Receive(r) \/ Rotate(r) \/ Decline(r) \/ SpendFamily(r) \/ RevokeFamily(r)

UserNext ==
    \/ \E p \in Processes : Ticket(p) \/ Forget(p) \/ Pair(p)
    \/ \E session \in Sessions : Revoke(session)
    \/ \E s \in Secrets : Expire(s) \/ Prune(s)

FaultNext ==
    \/ \E p \in Processes : Fails(p) \/ Abandon(p) \/ Crash(p)
    \/ \E r \in requests : StoreFails(r)
    \/ \E build \in Builds : Restart(build)

CalmNext == (\E p \in Processes : ClientNext(p)) \/ BackendNext \/ UserNext \/ Update

Next == CalmNext \/ FaultNext

Spec == Init /\ [][Next]_vars

\* KeepRenewed begins again until a rotation lands; the handlers and the update
\* are carried through; faults end.
FairSpec ==
    /\ Spec
    /\ \A p \in Processes : WF_vars(ClientNext(p))
    /\ WF_vars(BackendNext) /\ WF_vars(Update)
    /\ <>[][CalmNext]_vars

-----------------------------------------------------------------------------
(* Properties.                                                             *)

\* A session has one unspent secret at most: rotations that race, repeat or
\* arrive late never open a second line of renewal.
OneHead ==
    \A s, t \in Secrets :
        /\ Known(s) /\ ~rows[s].spent
        /\ Known(t) /\ ~rows[t].spent
        /\ rows[s].session = rows[t].session
        => s = t

\* Whatever was lost, repeated or cut short, the saved profile of a session
\* that ended for no reason of its own can be renewed: its secret is unspent,
\* or the backend holds the receipt that leads from it to the saved successor.
AlwaysRenewable ==
    LET i == profile.session
        old == rows[profile.secret]
        new == rows[profile.pending]
    IN  i \in Sessions \ (revoked \union lapsed \union legacy) =>
            /\ old.session = i
            /\ IF old.spent
               THEN /\ profile.pending # 0 /\ old.next = profile.pending
                    /\ new.session = i /\ ~new.spent
               ELSE profile.pending # 0 => ~Known(profile.pending)

\* No interleaving of recoverable renewals is taken for reuse.
NoFalseReuse == reused \subseteq legacy

\* A session that was revoked is never extended: neither by a rotation that had
\* been checked before, nor by the recovery of one.
RevokedIsFinal ==
    [][/\ \A s \in Secrets : ~Known(s) /\ Known(s)' => rows'[s].session \notin revoked
       /\ \A r \in requests' \ requests : r.answer = "granted" => r.session \notin revoked]_vars

\* The profile only goes forward: no late answer brings back a secret it has
\* replaced, or the pairing before this one.
Forward ==
    [][profile.session # 0 /\ profile'.session # 0 =>
          \/ profile'.session > profile.session
          \/ profile'.session = profile.session /\ profile'.secret >= profile.secret]_vars

\* A profile goes away because the user removed it or because its own session is
\* over, never for what was said of an earlier generation or pairing.
EndsForCause ==
    [][profile.session # 0 /\ profile'.session = 0 =>
          \/ \E p \in Processes : Forget(p)
          \/ profile.session \in revoked \union lapsed \union legacy]_vars

\* Callers that renew at once observe one exchange: no two of them present a
\* secret for different successors, which the backend reads as reuse.
OneExchange ==
    \A r, q \in {x \in requests : ~x.late /\ x.answer # "kept"} :
        r.from # q.from /\ r.secret = q.secret => r.next = q.next /\ r.next # 0

\* A renewal whose outcome is uncertain is settled.
PendingSettles ==
    profile.pending # 0 ~> profile.pending = 0

=============================================================================
