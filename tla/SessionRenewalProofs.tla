------------------------- MODULE SessionRenewalProofs -------------------------
(***************************************************************************)
(* Proofs about SessionRenewal for any processes, builds, pairings,        *)
(* secrets and late requests: its types, its inductive invariant, and the  *)
(* safety properties that follow from it.                                  *)
(***************************************************************************)
EXTENDS SessionRenewal, TLAPS

-----------------------------------------------------------------------------
(* The inductive invariant.                                                *)

\* Nothing is numbered that was not drawn or paired; a grant carries a secret.
Numbered ==
    /\ \A s \in Secrets : Known(s) => s <= drawn /\ rows[s].session <= paired
    /\ profile.session <= paired /\ profile.secret <= drawn /\ profile.pending <= drawn
    /\ profile.session # 0 => profile.secret # 0
    /\ \A session \in revoked : session <= paired
    /\ \A r \in requests :
          /\ r.session <= paired /\ r.secret <= drawn /\ r.next <= drawn
          /\ r.answer = "granted" => r.issued # 0 /\ r.issued <= drawn /\ r.stage = "answered"

\* The request a process waits for is the one it sent, and it sent one.
Waits ==
    /\ \A r \in requests : ~r.late =>
          /\ client[r.from].pc = "wait"
          /\ r.session = client[r.from].held.session
          /\ r.secret = client[r.from].held.secret
          /\ r.next = client[r.from].held.pending
    /\ \A r, q \in requests : ~r.late /\ ~q.late /\ r.from = q.from => r = q

\* A successor is proposed for one session only.
Alone ==
    /\ \A r, q \in requests : r.next # 0 /\ r.next = q.next => r.session = q.session
    /\ \A r \in requests : r.next # 0 /\ r.next = profile.pending => r.session = profile.session

\* All that was ever asked with one secret of the session names one successor,
\* the one the backend recorded; nothing of it is taken for reuse.
Agreed(session) ==
    /\ \A r \in requests : r.session = session =>
          /\ r.next # 0 /\ r.stage \notin {"spending", "revoking"}
          /\ rows[r.secret].session = session /\ rows[r.secret].spent
                => rows[r.secret].next = r.next
    /\ \A r, q \in requests :
          r.session = session /\ q.session = session /\ r.secret = q.secret => r.next = q.next

\* The profile has the newest secret that was asked with or spent, and the
\* successor that was asked for or recorded.
Current(session) ==
    profile.session = session =>
        /\ profile.pending = 0 \/ profile.pending > profile.secret
        /\ \A r \in requests : r.session = session =>
              r.secret <= profile.secret /\ (r.secret = profile.secret => r.next = profile.pending)
        /\ \A s \in Secrets : rows[s].session = session /\ rows[s].spent =>
              /\ rows[s].next # 0 /\ s <= profile.secret
              /\ s = profile.secret => rows[s].next = profile.pending

Agree == \A session \in Sessions \ legacy : Agreed(session) /\ Current(session)

\* An unspent secret expires with its session.
Lapse == \A s \in Secrets : Known(s) /\ rows[s].expired /\ ~rows[s].spent => rows[s].session \in lapsed

\* What was granted was spent for.
Granted ==
    \A r \in requests :
        /\ r.answer = "granted" /\ r.session = profile.session /\ r.secret = profile.secret
        /\ profile.session \notin revoked \union lapsed \union legacy
        => rows[r.secret].spent

Chain ==
    /\ Numbered /\ OneHead /\ Alone /\ Agree /\ NoFalseReuse
    /\ Lapse /\ Granted /\ AlwaysRenewable

IInv == TypeOK /\ Waits /\ Chain

-----------------------------------------------------------------------------
(* Types.                                                                  *)

\* The bounds are numbers, and there is a first of everything.
LEMMA Bounds == /\ MaxPairings \in Nat /\ MaxSecrets \in Nat
                /\ 1 \in Secrets /\ 1 \in Sessions
                /\ {0, 1} \subseteq 0 .. MaxSecrets /\ {0, 1} \subseteq 0 .. MaxPairings
BY BoundsAssumption DEF Secrets, Sessions

\* A profile with another successor, or another word on recovery, is one.
LEMMA FieldType ==
  \A session \in Profiles :
    /\ \A s \in 0 .. MaxSecrets : [session EXCEPT !.pending = s] \in Profiles
    /\ \A word \in {"unknown", "no", "yes"} : [session EXCEPT !.recovery = word] \in Profiles
BY Bounds DEF Profiles

\* So is a profile as a client remembers it.
LEMMA MemoryType == \A session \in Profiles : Memory(session) \in Profiles
<1> TAKE session \in Profiles
<1> DEFINE settled == [session EXCEPT !.pending = 0]
<1>1. settled \in Profiles
  BY FieldType, Bounds, Zenon
<1> HIDE DEF settled
<1>2. [settled EXCEPT !.recovery = "unknown"] \in Profiles
  BY <1>1, FieldType
<1> QED BY <1>2 DEF Memory, settled

\* A secret's row has its type when there is none and when it was just issued.
LEMMA RowType == NoRow \in Rows /\ \A session \in 0 .. MaxPairings : Unspent(session) \in Rows
BY Bounds DEF NoRow, Unspent, Rows

\* The blank values have their types.
LEMMA BlankType == /\ NoProfile \in Profiles
                   /\ Retired \in Clients
                   /\ \A mine \in Profiles : Idle(mine) \in Clients
<1>1. NoProfile \in Profiles
  BY Bounds DEF NoProfile, Profiles
<1>2. \A mine \in Profiles : Idle(mine) \in Clients
  BY <1>1, MemoryType DEF Idle, Clients
<1>3. Retired \in Clients
  BY <1>1, <1>2 DEF Retired, Clients
<1> QED BY <1>1, <1>2, <1>3

\* The end of a rotation keeps the types.
LEMMA EndsType ==
  ASSUME TypeOK, NEW p \in Processes, NEW state \in Clients, EndsWith(p, state)
  PROVE  client' \in [Processes -> Clients] /\ legacyLock' \in Processes \union {Nobody}
BY DEF EndsWith, Unlocked, TypeOK

\* So does each step of a handler.
LEMMA AtType ==
  ASSUME TypeOK, NEW r \in requests, At(r, "checked") \/ At(r, "spending") \/ At(r, "revoking")
  PROVE  requests' \subseteq Requests
BY DEF At, TypeOK, Requests

\* So does its answer.
LEMMA AnswerType ==
  ASSUME TypeOK, NEW r \in requests, NEW answer \in {"granted", "ended", "kept"},
         NEW issued \in 0 .. MaxSecrets, Answer(r, answer, issued)
  PROVE  requests' \subseteq Requests
<1>1. r \in Requests /\ modern \in BOOLEAN /\ requests \subseteq Requests
  BY DEF TypeOK
<1>2. [r EXCEPT !.stage = "answered", !.answer = answer, !.issued = issued,
                !.modern = (modern /\ answer = "granted")] \in Requests
  BY <1>1 DEF Requests
<1> QED BY <1>1, <1>2 DEF Answer

\* The initial state has its type.
LEMMA InitType == Init => TypeOK
<1> SUFFICES ASSUME Init PROVE TypeOK
  OBVIOUS
<1> USE Bounds
<1>1. profile \in Profiles
  BY BuildsAssumption DEF Init, Profiles
<1>2. client \in [Processes -> Clients]
  BY <1>1, BlankType DEF Init
<1>3. modern \in BOOLEAN
  BY BuildsAssumption DEF Init
<1>4. rows \in [Secrets -> Rows]
  BY RowType DEF Init
<1> QED BY <1>1, <1>2, <1>3, <1>4 DEF Init, TypeOK, Secrets, Sessions

\* A rotation that saves its successor sends a well-typed request.
LEMMA SaveType ==
  ASSUME TypeOK, Numbered, NEW p \in Processes, Save(p)
  PROVE  TypeOK'
<1>1. /\ profile \in Profiles /\ client[p] \in Clients /\ drawn \in 0 .. MaxSecrets
      /\ legacy \subseteq Sessions /\ requests \subseteq Requests
      /\ client \in [Processes -> Clients]
  BY DEF TypeOK
<1>2. drawn' \in 0 .. MaxSecrets
  BY <1>1, Bounds DEF Save
<1>3. Support(p) \in BOOLEAN
  BY <1>1 DEF Support, Clients, Profiles
<1>4. Saved(p) \in Profiles
  <2>1. CASE Support(p) /\ profile.pending = 0
    <3>1. Saved(p).pending = drawn + 1 /\ drawn' = drawn + 1
      BY <1>1, <2>1 DEF Saved, Save, Profiles
    <3>2. drawn + 1 \in 0 .. MaxSecrets
      BY <3>1, <1>2
    <3> QED BY <1>1, <2>1, <3>2 DEF Saved, Profiles
  <2>2. CASE ~(Support(p) /\ profile.pending = 0)
    BY <1>1, <2>2, <1>3 DEF Saved, Profiles
  <2> QED BY <2>1, <2>2
<1>5. client' \in [Processes -> Clients]
  <2>1. Memory(Saved(p)) \in Profiles
    BY <1>4, MemoryType
  <2> QED BY <1>1, <1>3, <1>4, <2>1 DEF Save, Clients
<1>6. profile.session \in Sessions /\ profile.secret \in Secrets
  BY <1>1 DEF Save, Owns, Numbered, Profiles, Sessions, Secrets
<1>7. requests' \subseteq Requests
  <2>1. Saved(p).pending \in 0 .. MaxSecrets
    BY <1>4 DEF Profiles
  <2>2. Request(p, profile.session, profile.secret, Saved(p).pending) \in Requests
    BY <1>6, <2>1, Bounds DEF Request, Requests
  <2> QED BY <1>1, <2>2 DEF Save
<1>8. profile' \in Profiles /\ legacy' \subseteq Sessions
  BY <1>1, <1>4, <1>6 DEF Save
<1> QED BY <1>2, <1>5, <1>7, <1>8 DEF Save, backend, TypeOK

\* A grant that is applied leaves a well-typed profile.
LEMMA ApplyType ==
  ASSUME TypeOK, Numbered, NEW p \in Processes, Apply(p)
  PROVE  TypeOK' /\ \E r \in Answered(p) :
            profile' = [session |-> profile.session, secret |-> r.issued, pending |-> 0,
                        recovery |-> IF r.modern THEN "yes" ELSE profile.recovery]
<1>1. PICK r \in Answered(p) :
        /\ profile' = [profile EXCEPT !.secret = r.issued, !.pending = 0,
                                      !.recovery = IF r.modern THEN "yes" ELSE @]
        /\ EndsWith(p, Idle(profile')) /\ requests' = requests \ {r}
  BY DEF Apply
<1>2. profile \in Profiles /\ r \in Requests
  BY DEF TypeOK, Answered
<1>3. profile' = [session |-> profile.session, secret |-> r.issued, pending |-> 0,
                  recovery |-> IF r.modern THEN "yes" ELSE profile.recovery]
  BY <1>1, <1>2 DEF Profiles
<1>4. profile' \in Profiles
  BY <1>2, <1>3, Bounds DEF Profiles, Requests
<1>5. TypeOK'
  BY <1>1, <1>4, EndsType, BlankType DEF Apply, TypeOK, backend, history
<1> QED BY <1>1, <1>3, <1>5

\* A restart answers every handler's request with no verdict.
LEMMA RestartType ==
  ASSUME TypeOK, NEW build \in BOOLEAN, Restart(build)
  PROVE  TypeOK'
<1>1. \A r \in Requests : [r EXCEPT !.stage = "answered", !.answer = "kept"] \in Requests
  BY DEF Requests
<1>2. requests' \subseteq Requests
  BY <1>1 DEF Restart, TypeOK
<1> QED BY <1>2 DEF Restart, TypeOK, history

\* Every step of a client keeps the types, ...
LEMMA ClientType ==
  ASSUME TypeOK, Numbered, NEW p \in Processes, ClientNext(p)
  PROVE  TypeOK'
<1> USE BlankType
<1>1. CASE Begin(p)
  <2>1. Memory(profile) \in Profiles /\ profile \in Profiles
    BY MemoryType DEF TypeOK
  <2>2. client'[p] \in Clients
    BY <1>1, <2>1 DEF Begin, TypeOK, Clients, Profiles
  <2>3. client' \in [Processes -> Clients]
    BY <1>1, <2>2 DEF Begin, TypeOK
  <2> QED BY <1>1, <2>3 DEF Begin, TypeOK, backend, history
<1>2. CASE Disowned(p)
  BY <1>2, EndsType DEF Disowned, TypeOK, backend, history
<1>3. CASE Overtaken(p)
  BY <1>3, EndsType DEF Overtaken, TypeOK, backend, history
<1>4. CASE Probe(p)
  <2>1. client'[p] = [pc |-> IF modern THEN "save" ELSE "lock", mine |-> client[p].mine,
                      held |-> client[p].held, support |-> modern]
    BY <1>4 DEF Probe, TypeOK, Clients
  <2>2. client'[p] \in Clients
    BY <2>1 DEF TypeOK, Clients
  <2>3. client' \in [Processes -> Clients]
    BY <1>4, <2>2 DEF Probe, TypeOK
  <2> QED BY <1>4, <2>3 DEF Probe, TypeOK, backend, history
<1>5. CASE TakeLegacyLock(p)
  BY <1>5 DEF TakeLegacyLock, TypeOK, Clients, backend, history
<1>6. CASE LockTimesOut(p)
  BY <1>6, EndsType DEF LockTimesOut, TypeOK, Clients, backend, history
<1>7. CASE Save(p)
  BY <1>7, SaveType
<1>8. CASE Late(p)
  BY <1>8, EndsType DEF Late, TypeOK, backend, history
<1>9. CASE Keep(p)
  BY <1>9, EndsType DEF Keep, TypeOK, Clients, backend, history
<1>10. CASE Remove(p)
  BY <1>10, EndsType DEF Remove, TypeOK, backend, history
<1>11. CASE Apply(p)
  BY <1>11, ApplyType
<1>12. CASE Open(p)
  BY <1>12 DEF Open, TypeOK, backend, history
<1> QED BY <1>1, <1>2, <1>3, <1>4, <1>5, <1>6, <1>7, <1>8, <1>9, <1>10, <1>11, <1>12 DEF ClientNext

\* ... and of a handler, ...
LEMMA BackendType ==
  ASSUME TypeOK, Numbered, NEW r \in requests,
         Receive(r) \/ Rotate(r) \/ Decline(r) \/ SpendFamily(r) \/ RevokeFamily(r)
  PROVE  TypeOK'
<1> USE Bounds
<1>1. r \in Requests
  BY DEF TypeOK
<1>2. CASE Receive(r)
  <2>1. requests' \subseteq Requests
    BY <1>2, AtType, AnswerType DEF Receive, Verdict
  <2> QED BY <1>2, <2>1 DEF Receive, TypeOK, backend, history
<1>3. CASE Rotate(r)
  <2>1. drawn' \in 0 .. MaxSecrets
    BY <1>3 DEF Rotate, TypeOK
  <2> DEFINE successor == IF r.next # 0 THEN r.next ELSE drawn + 1
  <2>2. successor \in Secrets
    BY <1>1, <1>3, <2>1 DEF Rotate, TypeOK, Requests, Secrets
  <2>3. requests' \subseteq Requests
    BY <1>3, <2>2, AnswerType DEF Rotate, Secrets
  <2>4. rows' \in [Secrets -> Rows]
    <3> DEFINE spent == [rows EXCEPT ![r.secret].spent = TRUE]
    <3>1. r.secret \in Secrets /\ r.next \in 0 .. MaxSecrets /\ r.session \in 0 .. MaxPairings
      BY <1>1 DEF Requests, Sessions
    <3>2. spent \in [Secrets -> Rows]
      BY <3>1 DEF TypeOK, Rows
    <3> HIDE DEF spent
    <3>3. [spent EXCEPT ![r.secret].next = r.next] \in [Secrets -> Rows]
      BY <3>1, <3>2 DEF Rows
    <3>4. rows' = [[spent EXCEPT ![r.secret].next = r.next] EXCEPT ![successor] = Unspent(r.session)]
      BY <1>3 DEF Rotate, spent
    <3>5. Unspent(r.session) \in Rows
      BY <3>1, RowType
    <3> HIDE DEF successor
    <3> QED BY <2>2, <3>3, <3>4, <3>5
  <2> QED BY <1>3, <2>1, <2>3, <2>4 DEF Rotate, TypeOK, history
<1>4. CASE Decline(r)
  <2>1. requests' \subseteq Requests
    BY <1>1, <1>4, AtType, AnswerType DEF Decline, Requests
  <2> QED BY <1>4, <2>1 DEF Decline, TypeOK, backend, history
<1>5. CASE SpendFamily(r)
  <2>1. requests' \subseteq Requests
    BY <1>5, AtType DEF SpendFamily
  <2>2. rows' \in [Secrets -> Rows]
    BY <1>5 DEF SpendFamily, TypeOK, Rows
  <2> QED BY <1>5, <2>1, <2>2 DEF SpendFamily, TypeOK, history
<1>6. CASE RevokeFamily(r)
  <2>1. requests' \subseteq Requests
    BY <1>6, AnswerType DEF RevokeFamily
  <2> QED BY <1>1, <1>6, <2>1 DEF RevokeFamily, TypeOK, Requests
<1> QED BY <1>2, <1>3, <1>4, <1>5, <1>6

\* ... every step of the owner or of time, ...
LEMMA UserType ==
  ASSUME TypeOK, Numbered, UserNext
  PROVE  TypeOK'
<1> USE Bounds
<1>1. ASSUME NEW p \in Processes, Ticket(p) PROVE TypeOK'
  <2>1. profile' \in Profiles
    BY <1>1, FieldType DEF Ticket, TypeOK
  <2>2. client' \in [Processes -> Clients]
    BY <1>1, <2>1, MemoryType DEF Ticket, TypeOK, Clients
  <2> QED BY <1>1, <2>1, <2>2 DEF Ticket, TypeOK, backend, history
<1>2. ASSUME NEW p \in Processes, Forget(p) PROVE TypeOK'
  BY <1>2, EndsType, BlankType DEF Forget, TypeOK, backend, history
<1>3. ASSUME NEW p \in Processes, Pair(p) PROVE TypeOK'
  <2>1. drawn' \in Secrets /\ paired' \in Sessions /\ drawn' = drawn + 1 /\ paired' = paired + 1
    BY <1>3 DEF Pair, TypeOK, Secrets, Sessions
  <2>2. profile' \in Profiles
    BY <1>3, <2>1 DEF Pair, Profiles, Secrets, Sessions
  <2>3. Unspent(paired') \in Rows
    BY <2>1, RowType DEF Sessions
  <2> QED BY <1>3, <2>1, <2>2, <2>3, BlankType DEF Pair, TypeOK, history, Secrets
<1>4. ASSUME NEW session \in Sessions, Revoke(session) PROVE TypeOK'
  BY <1>4 DEF Revoke, TypeOK, history
<1>5. ASSUME NEW s \in Secrets, Expire(s) PROVE TypeOK'
  <2>1. rows[s].session \in Sessions
    BY <1>5 DEF Expire, Known, TypeOK, Rows, Sessions
  <2> QED BY <1>5, <2>1 DEF Expire, TypeOK, Rows
<1>6. ASSUME NEW s \in Secrets, Prune(s) PROVE TypeOK'
  BY <1>6, RowType DEF Prune, TypeOK, history
<1> QED BY <1>1, <1>2, <1>3, <1>4, <1>5, <1>6 DEF UserNext

\* ... and every fault.
LEMMA FaultType ==
  ASSUME TypeOK, Numbered, FaultNext
  PROVE  TypeOK'
<1> USE Bounds
<1>1. ASSUME NEW p \in Processes, Fails(p) PROVE TypeOK'
  BY <1>1, EndsType, BlankType DEF Fails, TypeOK, Clients, backend, history
<1>2. ASSUME NEW p \in Processes, Abandon(p) PROVE TypeOK'
  <2>1. PICK r \in requests :
          /\ r.from = p /\ ~r.late
          /\ \E late \in {{}, {[r EXCEPT !.late = TRUE]}} : requests' =
               (requests \ {r}) \union
               {[r EXCEPT !.stage = "answered", !.answer = "kept", !.issued = 0]} \union late
    BY <1>2 DEF Abandon
  <2>2. r \in Requests
    BY DEF TypeOK
  <2>3. [r EXCEPT !.late = TRUE] \in Requests
    BY <2>2 DEF Requests
  <2>4. [r EXCEPT !.stage = "answered", !.answer = "kept", !.issued = 0] \in Requests
    BY <2>2 DEF Requests
  <2> QED BY <1>2, <2>1, <2>3, <2>4 DEF Abandon, TypeOK, backend, history
<1>3. ASSUME NEW p \in Processes, Crash(p) PROVE TypeOK'
  <2>1. PICK late \in SUBSET {r \in requests : r.from = p /\ ~r.late /\ r.stage # "answered"} :
          requests' = (requests \ {r \in requests : r.from = p /\ ~r.late})
                      \union {[r EXCEPT !.late = TRUE] : r \in late}
    BY <1>3 DEF Crash
  <2>2. \A r \in Requests : [r EXCEPT !.late = TRUE] \in Requests
    BY DEF Requests
  <2>3. requests' \subseteq Requests
    BY <2>1, <2>2 DEF TypeOK
  <2> QED BY <1>3, <2>3, EndsType, BlankType DEF Crash, TypeOK, backend, history
<1>4. ASSUME NEW r \in requests, StoreFails(r) PROVE TypeOK'
  <2>1. requests' \subseteq Requests
    BY <1>4, AtType, AnswerType DEF StoreFails
  <2> QED BY <1>4, <2>1 DEF StoreFails, TypeOK, backend, history
<1>5. ASSUME NEW build \in Builds, Restart(build) PROVE TypeOK'
  BY <1>5, RestartType, BuildsAssumption
<1> QED BY <1>1, <1>2, <1>3, <1>4, <1>5 DEF FaultNext

-----------------------------------------------------------------------------
(* What the steps that send nothing new do to the requests.                *)

Accused(r) == r.stage \in {"spending", "revoking"}

\* The backend has reason to take the request for reuse.
Suspect(r) ==
    \/ r.next = 0
    \/ /\ rows[r.secret].session = r.session /\ rows[r.secret].spent
       /\ rows[r.secret].next # r.next

\* Request r is q at a later stage.
Continues(r, q) ==
    /\ r.session = q.session /\ r.secret = q.secret /\ r.next = q.next
    /\ Accused(r) => Accused(q) \/ Suspect(q)
    /\ r.answer = "granted" =>
          /\ r.stage = "answered"
          /\ \/ r = q
             \/ Outcome(q) = "replayed" /\ r.issued = q.next

Descends == \A r \in requests' : \E q \in requests : Continues(r, q)

\* Requests that only go away descend.
LEMMA ShrinkDescends ==
  ASSUME Numbered, requests' \subseteq requests
  PROVE  Descends
BY DEF Descends, Continues, Numbered

\* So do those a handler moves on ...
LEMMA AtDescends ==
  ASSUME TypeOK, Numbered, NEW r \in requests, NEW stage, At(r, stage), r.stage # "answered",
         stage \in {"spending", "revoking"} => Accused(r) \/ Suspect(r)
  PROVE  Descends
<1>1. r \in Requests /\ r.answer # "granted"
  BY DEF TypeOK, Numbered
<1>2. Continues([r EXCEPT !.stage = stage], r)
  BY <1>1 DEF Continues, Accused, Requests
<1>3. \A q \in requests : Continues(q, q)
  BY DEF Continues, Numbered
<1> QED BY <1>2, <1>3 DEF At, Descends

\* ... or answers, when it grants no more than it recovers.
LEMMA AnswerDescends ==
  ASSUME TypeOK, Numbered, NEW r \in requests, NEW answer, NEW issued, Answer(r, answer, issued),
         answer = "granted" => Outcome(r) = "replayed" /\ issued = r.next
  PROVE  Descends
<1>1. r \in Requests
  BY DEF TypeOK
<1>2. ASSUME ~r.late
      PROVE  Continues([r EXCEPT !.stage = "answered", !.answer = answer, !.issued = issued,
                                 !.modern = modern /\ answer = "granted"], r)
  BY <1>1, <1>2 DEF Continues, Accused, Requests
<1>3. \A q \in requests : Continues(q, q)
  BY DEF Continues, Numbered
<1> QED BY <1>2, <1>3 DEF Answer, Descends

\* The steps of the handlers that do not rotate.
LEMMA BackendDescends ==
  ASSUME TypeOK, Numbered, NEW r \in requests,
         Receive(r) \/ Decline(r) \/ SpendFamily(r) \/ RevokeFamily(r) \/ StoreFails(r)
  PROVE  Descends
<1>1. CASE Receive(r)
  BY <1>1, AtDescends, AnswerDescends DEF Receive, Verdict, Suspect
<1>2. CASE Decline(r)
  <2>1. Outcome(r) = "reuse" => Suspect(r)
    BY DEF Outcome, Suspect
  <2> QED BY <1>2, <2>1, AtDescends, AnswerDescends DEF Decline
<1>3. CASE SpendFamily(r)
  BY <1>3, AtDescends DEF SpendFamily, Accused
<1>4. CASE RevokeFamily(r)
  BY <1>4, AnswerDescends DEF RevokeFamily
<1>5. CASE StoreFails(r)
  BY <1>5, AtDescends, AnswerDescends DEF StoreFails, Accused
<1> QED BY <1>1, <1>2, <1>3, <1>4, <1>5

\* An exchange that fails.
LEMMA AbandonDescends ==
  ASSUME TypeOK, Numbered, NEW p \in Processes, Abandon(p)
  PROVE  Descends
<1>1. PICK r \in requests :
        /\ r.from = p /\ ~r.late
        /\ \E late \in {{}} \union (IF r.stage = "answered" THEN {} ELSE {{[r EXCEPT !.late = TRUE]}}) :
             requests' = (requests \ {r}) \union
               {[r EXCEPT !.stage = "answered", !.answer = "kept", !.issued = 0]} \union late
  BY DEF Abandon
<1>2. r \in Requests
  BY DEF TypeOK
<1>3. Continues([r EXCEPT !.stage = "answered", !.answer = "kept", !.issued = 0], r)
  BY <1>2 DEF Continues, Accused, Requests
<1>4. r.stage # "answered" => Continues([r EXCEPT !.late = TRUE], r)
  BY <1>2 DEF Continues, Accused, Requests, Numbered
<1>5. \A q \in requests : Continues(q, q)
  BY DEF Continues, Numbered
<1> QED BY <1>1, <1>3, <1>4, <1>5 DEF Descends

\* A process that ends.
LEMMA CrashDescends ==
  ASSUME TypeOK, Numbered, NEW p \in Processes, Crash(p)
  PROVE  Descends
<1>1. PICK late \in SUBSET {r \in requests : r.from = p /\ ~r.late /\ r.stage # "answered"} :
        requests' = (requests \ {r \in requests : r.from = p /\ ~r.late})
                    \union {[r EXCEPT !.late = TRUE] : r \in late}
  BY DEF Crash
<1>2. \A r \in late : Continues([r EXCEPT !.late = TRUE], r)
  <2> TAKE r \in late
  <2>1. r \in Requests /\ r \in requests /\ r.stage # "answered"
    BY <1>1 DEF TypeOK
  <2> QED BY <2>1 DEF Continues, Accused, Requests, Numbered
<1>3. \A q \in requests : Continues(q, q)
  BY DEF Continues, Numbered
<1> QED BY <1>1, <1>2, <1>3 DEF Descends

\* The backend that stops.
LEMMA RestartDescends ==
  ASSUME TypeOK, Numbered, NEW build, Restart(build)
  PROVE  Descends
<1>1. \A r \in requests : Continues([r EXCEPT !.stage = "answered", !.answer = "kept"], r)
  BY DEF Continues, Accused, TypeOK, Requests
<1>2. \A q \in requests : Continues(q, q)
  BY DEF Continues, Numbered
<1> QED BY <1>1, <1>2 DEF Restart, Descends

-----------------------------------------------------------------------------
(* A process waits for the request it sent.                                *)

\* Requests that go away, and clients that change while nothing is under way.
LEMMA WaitsAlone ==
  ASSUME TypeOK, Waits, NEW p \in Processes, NEW state,
         client' = [client EXCEPT ![p] = state],
         requests' \subseteq requests, \A r \in requests' : r.from = p => r.late
  PROVE  Waits'
BY DEF Waits, TypeOK, Requests

\* A process that does not wait has sent nothing it would be told about.
LEMMA Idles ==
  ASSUME Waits, NEW p \in Processes, client[p].pc # "wait"
  PROVE  \A r \in requests : r.from = p => r.late
BY DEF Waits

\* A request that is answered was the only one of its process.
LEMMA OnlyAnswer ==
  ASSUME Waits, NEW p \in Processes, NEW r \in Answered(p)
  PROVE  \A q \in requests \ {r} : q.from = p => q.late
BY DEF Waits, Answered

\* A rotation that ends with its answer.
LEMMA WaitsNoMore ==
  ASSUME TypeOK, Waits, NEW p \in Processes, NEW r \in Answered(p), NEW state,
         EndsWith(p, state), requests' = requests \ {r}
  PROVE  Waits'
<1>1. \A q \in requests' : q.from = p => q.late
  BY OnlyAnswer
<1>2. client' = [client EXCEPT ![p] = state] /\ requests' \subseteq requests
  BY DEF EndsWith
<1> QED BY <1>1, <1>2, WaitsAlone

\* Every step of a client, ...
LEMMA ClientWaits ==
  ASSUME TypeOK, Waits, NEW p \in Processes, ClientNext(p)
  PROVE  Waits'
<1>1. CASE Begin(p)
  BY <1>1, Idles, WaitsAlone DEF Begin
<1>2. CASE Disowned(p)
  <2>1. \A r \in requests' : r.from = p => r.late
    <3>1. CASE Answered(p) # {}
      <4>1. PICK r \in Answered(p) : TRUE
        BY <3>1
      <4> QED BY <1>2, <4>1, OnlyAnswer DEF Disowned
    <3>2. CASE Answered(p) = {}
      BY <1>2, <3>2, Idles DEF Disowned
    <3> QED BY <3>1, <3>2
  <2> QED BY <1>2, <2>1, WaitsAlone DEF Disowned, EndsWith
<1>3. CASE Overtaken(p)
  BY <1>3, Idles, WaitsAlone DEF Overtaken, EndsWith
<1>4. CASE Probe(p)
  BY <1>4 DEF Probe, Waits, TypeOK, Clients, Requests
<1>5. CASE TakeLegacyLock(p)
  BY <1>5 DEF TakeLegacyLock, Waits, TypeOK, Clients, Requests
<1>6. CASE LockTimesOut(p)
  BY <1>6, Idles, WaitsAlone DEF LockTimesOut, EndsWith
<1>7. CASE Save(p)
  <2> DEFINE sent == Request(p, profile.session, profile.secret, Saved(p).pending)
  <2>1. /\ sent.from = p /\ sent.session = profile.session
        /\ sent.secret = profile.secret /\ sent.next = Saved(p).pending
    BY DEF Request
  <2>2. /\ client'[p].pc = "wait" /\ client'[p].held = Saved(p)
        /\ \A q \in Processes \ {p} : client'[q] = client[q]
    BY <1>7 DEF Save, TypeOK
  <2>3. /\ Saved(p).session = profile.session /\ Saved(p).secret = profile.secret
    BY DEF Saved, TypeOK, Profiles
  <2>4. \A r \in requests : r.from = p => r.late
    BY <1>7, Idles DEF Save
  <2>5. requests' = requests \union {sent}
    BY <1>7 DEF Save
  <2> HIDE DEF sent
  <2> QED BY <2>1, <2>2, <2>3, <2>4, <2>5 DEF Waits, TypeOK, Requests
<1>8. CASE Late(p)
  BY <1>8, WaitsNoMore DEF Late
<1>9. CASE Keep(p)
  BY <1>9, WaitsNoMore DEF Keep
<1>10. CASE Remove(p)
  BY <1>10, WaitsNoMore DEF Remove
<1>11. CASE Apply(p)
  BY <1>11, WaitsNoMore DEF Apply
<1>12. CASE Open(p)
  BY <1>12, Idles, WaitsAlone DEF Open
<1> QED BY <1>1, <1>2, <1>3, <1>4, <1>5, <1>6, <1>7, <1>8, <1>9, <1>10, <1>11, <1>12 DEF ClientNext

\* ... every step of a handler, ...
LEMMA BackendWaits ==
  ASSUME TypeOK, Waits, NEW r \in requests,
         Receive(r) \/ Rotate(r) \/ Decline(r) \/ SpendFamily(r) \/ RevokeFamily(r) \/ StoreFails(r)
  PROVE  Waits'
<1>1. client' = client
  BY DEF Receive, Rotate, Decline, SpendFamily, RevokeFamily, StoreFails
<1>2. r \in Requests
  BY DEF TypeOK
<1>3. ASSUME NEW stage, At(r, stage) PROVE Waits'
  BY <1>1, <1>2, <1>3 DEF At, Waits, Requests
<1>4. ASSUME NEW answer, NEW issued, Answer(r, answer, issued) PROVE Waits'
  <2> DEFINE told == [r EXCEPT !.stage = "answered", !.answer = answer, !.issued = issued,
                               !.modern = modern /\ answer = "granted"]
  <2>1. /\ told.from = r.from /\ told.late = r.late /\ told.session = r.session
        /\ told.secret = r.secret /\ told.next = r.next
    BY <1>2 DEF Requests
  <2>2. requests' \subseteq (requests \ {r}) \union {told}
    BY <1>4 DEF Answer
  <2> HIDE DEF told
  <2> QED BY <1>1, <2>1, <2>2 DEF Waits
<1> QED BY <1>3, <1>4 DEF Receive, Rotate, Decline, SpendFamily, RevokeFamily, StoreFails

\* ... of the owner, and every fault.
LEMMA OtherWaits ==
  ASSUME TypeOK, Waits, UserNext \/ FaultNext \/ Update
  PROVE  Waits'
<1>1. ASSUME NEW p \in Processes, Ticket(p) PROVE Waits'
  BY <1>1 DEF Ticket, Waits, TypeOK, Clients, Requests
<1>2. ASSUME NEW p \in Processes, Forget(p) PROVE Waits'
  BY <1>2, Idles, WaitsAlone DEF Forget, EndsWith
<1>3. ASSUME NEW p \in Processes, Pair(p) PROVE Waits'
  BY <1>3, Idles, WaitsAlone DEF Pair
<1>4. ASSUME \/ \E session \in Sessions : Revoke(session)
             \/ \E s \in Secrets : Expire(s) \/ Prune(s)
      PROVE  Waits'
  BY <1>4 DEF Revoke, Expire, Prune, Waits
<1>5. ASSUME NEW p \in Processes, Fails(p) PROVE Waits'
  BY <1>5, Idles, WaitsAlone DEF Fails, EndsWith
<1>6. ASSUME NEW p \in Processes, Abandon(p) PROVE Waits'
  <2>1. PICK r \in requests :
          /\ r.from = p /\ ~r.late
          /\ \E late \in {{}, {[r EXCEPT !.late = TRUE]}} : requests' =
               (requests \ {r}) \union
               {[r EXCEPT !.stage = "answered", !.answer = "kept", !.issued = 0]} \union late
    BY <1>6 DEF Abandon
  <2>2. r \in Requests
    BY DEF TypeOK
  <2> DEFINE told == [r EXCEPT !.stage = "answered", !.answer = "kept", !.issued = 0]
             lost == [r EXCEPT !.late = TRUE]
  <2>3. /\ told.from = r.from /\ told.late = r.late /\ told.session = r.session
        /\ told.secret = r.secret /\ told.next = r.next
        /\ lost.late
    BY <2>2 DEF Requests
  <2>4. requests' \subseteq (requests \ {r}) \union {told, lost} /\ client' = client
    BY <1>6, <2>1 DEF Abandon
  <2> HIDE DEF told, lost
  <2> QED BY <2>1, <2>3, <2>4 DEF Waits
<1>7. ASSUME NEW p \in Processes, Crash(p) PROVE Waits'
  <2>1. PICK late \in SUBSET {r \in requests : r.from = p /\ ~r.late /\ r.stage # "answered"} :
          requests' = (requests \ {r \in requests : r.from = p /\ ~r.late})
                      \union {[r EXCEPT !.late = TRUE] : r \in late}
    BY <1>7 DEF Crash
  <2>2. \A r \in requests' : ~r.late => r \in requests /\ r.from # p
    BY <2>1 DEF TypeOK, Requests
  <2>3. \A q \in Processes \ {p} : client'[q] = client[q]
    BY <1>7 DEF Crash, EndsWith, TypeOK
  <2> QED BY <2>2, <2>3 DEF Waits, TypeOK, Requests
<1>8. ASSUME NEW r \in requests, StoreFails(r) PROVE Waits'
  BY <1>8, BackendWaits
<1>9. ASSUME NEW build, Restart(build) PROVE Waits'
  <2>1. client' = client
    BY <1>9 DEF Restart
  <2> DEFINE Told(q) == IF q.stage = "answered" THEN q
                        ELSE [q EXCEPT !.stage = "answered", !.answer = "kept"]
  <2>2. \A r \in requests' : \E q \in requests : r = Told(q)
    BY <1>9 DEF Restart
  <2>3. \A q \in requests :
          /\ Told(q).from = q.from /\ Told(q).late = q.late /\ Told(q).session = q.session
          /\ Told(q).secret = q.secret /\ Told(q).next = q.next
    BY DEF TypeOK, Requests
  <2> HIDE DEF Told
  <2>4. ASSUME NEW r \in requests', ~r.late
        PROVE  /\ client'[r.from].pc = "wait"
               /\ r.session = client'[r.from].held.session
               /\ r.secret = client'[r.from].held.secret
               /\ r.next = client'[r.from].held.pending
    BY <2>1, <2>2, <2>3, <2>4 DEF Waits
  <2>5. ASSUME NEW r \in requests', NEW q \in requests', ~r.late, ~q.late, r.from = q.from
        PROVE  r = q
    BY <2>2, <2>3, <2>5 DEF Waits
  <2> QED BY <2>4, <2>5 DEF Waits
<1> QED BY <1>1, <1>2, <1>3, <1>4, <1>5, <1>6, <1>7, <1>8, <1>9 DEF UserNext, FaultNext, Update

-----------------------------------------------------------------------------
(* The chain of secrets.                                                   *)

\* Steps that neither send a request nor touch the secrets.
Quiet ==
    /\ Descends
    /\ UNCHANGED <<rows, drawn, paired, lapsed, legacy>>
    /\ profile'.session = profile.session /\ profile'.secret = profile.secret
    /\ profile'.pending = profile.pending
    /\ revoked \subseteq revoked' /\ reused' \subseteq legacy
    /\ \A session \in revoked' : session <= paired

\* They leave the chain as it is.
LEMMA QuietChain ==
  ASSUME TypeOK, Chain, Quiet
  PROVE  Chain'
<1>1. Numbered'
  BY DEF Chain, Numbered, Quiet, Descends, Continues, Outcome, Known
<1>2. OneHead'
  BY DEF Chain, OneHead, Quiet, Known
<1>3. Alone'
  BY DEF Chain, Alone, Quiet, Descends, Continues
<1>4. Agree'
  <2> SUFFICES ASSUME NEW session \in Sessions \ legacy
               PROVE  Agreed(session)' /\ Current(session)'
    BY DEF Agree, Quiet
  <2>1. Agreed(session) /\ Current(session)
    BY DEF Chain, Agree
  <2>2. Agreed(session)'
    BY <2>1 DEF Agreed, Quiet, Descends, Continues, Accused, Suspect
  <2>3. Current(session)'
    BY <2>1 DEF Current, Quiet, Descends, Continues
  <2> QED BY <2>2, <2>3
<1>5. NoFalseReuse'
  BY DEF Quiet, NoFalseReuse
<1>6. Lapse'
  BY DEF Chain, Lapse, Quiet, Known
<1>7. Granted'
  BY DEF Chain, Granted, Quiet, Descends, Continues, Outcome
<1>8. AlwaysRenewable'
  BY DEF Chain, AlwaysRenewable, Quiet, Known
<1> QED BY <1>1, <1>2, <1>3, <1>4, <1>5, <1>6, <1>7, <1>8 DEF Chain

\* A profile that goes away leaves nothing to be renewed.
LEMMA GoneChain ==
  ASSUME TypeOK, Chain, profile' = NoProfile, requests' \subseteq requests,
         UNCHANGED <<backend, drawn, history>>
  PROVE  Chain'
<1> USE DEF backend, history
<1>1. Numbered'
  <2>1. 0 <= drawn /\ 0 <= paired
    BY Bounds DEF TypeOK, Sessions
  <2> QED BY <2>1 DEF Chain, Numbered, Known, NoProfile
<1>2. OneHead'
  BY DEF Chain, OneHead, Known
<1>3. Alone'
  BY DEF Chain, Alone, NoProfile
<1>4. Agree'
  BY DEF Chain, Agree, Agreed, Current, NoProfile, Sessions
<1>5. NoFalseReuse' /\ Lapse'
  BY DEF Chain, Lapse, NoFalseReuse, Known
<1>6. Granted'
  BY DEF Granted, NoProfile, TypeOK, Requests, Sessions
<1>7. AlwaysRenewable'
  BY DEF AlwaysRenewable, NoProfile, Sessions
<1> QED BY <1>1, <1>2, <1>3, <1>4, <1>5, <1>6, <1>7 DEF Chain

\* A request that is sent names the successor all others named, or a new one.
LEMMA SaveChain ==
  ASSUME TypeOK, Chain, NEW p \in Processes, Save(p)
  PROVE  Chain'
<1> DEFINE i == profile.session
           sent == Request(p, i, profile.secret, Saved(p).pending)
<1>1. /\ profile \in Profiles /\ requests \subseteq Requests
      /\ drawn \in 0 .. MaxSecrets /\ paired \in Sessions
  BY DEF TypeOK
<1>2. /\ drawn \in Nat /\ paired \in Nat /\ i \in Sessions /\ profile.secret \in Secrets
      /\ profile.pending \in Nat
  BY <1>1, Bounds DEF Save, Owns, Chain, Numbered, Profiles, Sessions, Secrets
<1>3. /\ sent.session = i /\ sent.secret = profile.secret /\ sent.next = profile'.pending
      /\ sent.stage = "sent" /\ sent.answer = "none"
  BY DEF Request, Save
<1>4. profile'.session = i /\ profile'.secret = profile.secret
  BY <1>1 DEF Save, Saved, Profiles
<1>5. UNCHANGED <<rows, revoked, paired, reused, lapsed>> /\ requests' = requests \union {sent}
  BY DEF Save, backend
<1>6. \/ /\ profile.pending = 0 /\ profile'.pending = drawn + 1
         /\ drawn' = drawn + 1 /\ drawn + 1 \in Secrets /\ legacy' = legacy
      \/ /\ profile.pending # 0 /\ profile'.pending = profile.pending
         /\ drawn' = drawn /\ legacy' = legacy
      \/ /\ profile.pending = 0 /\ profile'.pending = 0
         /\ drawn' = drawn /\ legacy' = legacy \union {i}
  BY <1>1, <1>2, Bounds DEF Save, Saved, Profiles, Secrets
<1> HIDE DEF sent
<1>7. Numbered'
  <2>1. drawn' \in Nat /\ drawn <= drawn' /\ profile'.pending <= drawn'
    BY <1>2, <1>6 DEF Chain, Numbered
  <2>2. \A s \in Secrets : s \in Nat
    BY Bounds DEF Secrets
  <2>3. \A r \in requests : r.secret \in Nat /\ r.next \in Nat /\ r.issued \in Nat
    BY <1>1, <2>2, Bounds DEF Requests
  <2>4. \A s \in Secrets : Known(s) => s <= drawn' /\ rows[s].session <= paired
    BY <1>2, <2>1, <2>2 DEF Chain, Numbered
  <2>5. \A r \in requests :
          /\ r.session <= paired /\ r.secret <= drawn' /\ r.next <= drawn'
          /\ r.answer = "granted" => r.issued # 0 /\ r.issued <= drawn' /\ r.stage = "answered"
    BY <1>2, <2>1, <2>3 DEF Chain, Numbered
  <2>6. profile.secret <= drawn' /\ i <= paired /\ profile.secret # 0
    BY <1>2, <2>1, <2>2, Bounds DEF Chain, Numbered, Secrets
  <2> QED BY <1>3, <1>4, <1>5, <2>1, <2>4, <2>5, <2>6 DEF Chain, Numbered, Known
<1>8. OneHead'
  BY <1>5 DEF Chain, OneHead, Known
<1>9. Alone'
  <2>1. \A r \in requests : r.next \in Nat /\ r.next <= drawn
    BY <1>1, Bounds DEF Requests, Chain, Numbered
  <2> QED BY <1>2, <1>3, <1>4, <1>5, <1>6, <2>1 DEF Chain, Alone
<1>10. Agree'
  <2> SUFFICES ASSUME NEW session \in Sessions \ legacy'
               PROVE  Agreed(session)' /\ Current(session)'
    BY DEF Agree
  <2>1. Agreed(session) /\ Current(session)
    BY <1>6 DEF Chain, Agree
  <2>2. CASE session # i
    BY <1>3, <1>4, <1>5, <2>1, <2>2 DEF Agreed, Current
  <2>3. CASE session = i
    <3>1. profile'.pending # 0 /\ (profile.pending # 0 => profile'.pending = profile.pending)
      BY <1>2, <1>6, <2>3
    <3>2. \A r \in requests : r.session = i /\ r.secret = profile.secret => r.next = profile'.pending
      BY <2>1, <2>3, <3>1 DEF Agreed, Current
    <3>3. rows[profile.secret].session = i /\ rows[profile.secret].spent
             => rows[profile.secret].next = profile'.pending
      BY <1>2, <2>1, <2>3, <3>1 DEF Current
    <3>4. Agreed(session)'
      BY <1>3, <1>5, <2>1, <2>3, <3>1, <3>2, <3>3 DEF Agreed
    <3>5. profile'.pending > profile.secret
      <4>1. profile.secret \in Nat /\ profile.secret <= drawn
        BY <1>2, Bounds DEF Secrets, Chain, Numbered
      <4> QED BY <1>2, <1>6, <2>1, <2>3, <3>1, <4>1 DEF Current
    <3>6. \A r \in requests' : r.session = session =>
              r.secret <= profile.secret /\ (r.secret = profile.secret => r.next = profile'.pending)
      <4>1. profile.secret <= profile.secret
        BY <1>2 DEF Secrets
      <4> QED BY <1>3, <1>5, <2>1, <2>3, <3>2, <4>1 DEF Current
    <3>7. \A s \in Secrets : rows[s].session = session /\ rows[s].spent =>
              /\ rows[s].next # 0 /\ s <= profile.secret
              /\ s = profile.secret => rows[s].next = profile'.pending
      BY <2>1, <2>3, <3>3 DEF Current
    <3>8. Current(session)'
      BY <1>4, <1>5, <3>5, <3>6, <3>7 DEF Current
    <3> QED BY <3>4, <3>8
  <2> QED BY <2>2, <2>3
<1>11. NoFalseReuse' /\ Lapse'
  BY <1>5, <1>6 DEF Chain, NoFalseReuse, Lapse, Known
<1>12. Granted'
  BY <1>3, <1>4, <1>5, <1>6 DEF Chain, Granted
<1>13. AlwaysRenewable'
  <2> SUFFICES ASSUME i \in Sessions \ (revoked \union lapsed \union legacy)
               PROVE  AlwaysRenewable'
    BY <1>4, <1>5, <1>6 DEF AlwaysRenewable
  <2>1. CASE profile'.pending = profile.pending
    BY <1>4, <1>5, <2>1 DEF Chain, AlwaysRenewable, Known
  <2>2. CASE profile.pending = 0 /\ profile'.pending = drawn + 1 /\ drawn + 1 \in Secrets
    <3>1. ~Known(drawn + 1)
      BY <1>2, <2>2 DEF Chain, Numbered
    <3> QED BY <1>4, <1>5, <2>2, <3>1 DEF Chain, AlwaysRenewable, Known
  <2> QED BY <1>6, <2>1, <2>2
<1> QED BY <1>7, <1>8, <1>9, <1>10, <1>11, <1>12, <1>13 DEF Chain

\* A grant that is applied moves the profile to the successor it saved.
LEMMA ApplyChain ==
  ASSUME TypeOK, Waits, Chain, NEW p \in Processes, Apply(p)
  PROVE  Chain'
<1> DEFINE i == profile.session
<1>1. PICK r \in Answered(p) :
        /\ r.answer = "granted" /\ Owns(p) /\ SameRenewal(profile, client[p].held)
        /\ r.next # 0 => r.issued = r.next
        /\ profile' = [profile EXCEPT !.secret = r.issued, !.pending = 0,
                                      !.recovery = IF r.modern THEN "yes" ELSE @]
        /\ requests' = requests \ {r}
  BY DEF Apply
<1>2. /\ profile \in Profiles /\ requests \subseteq Requests /\ r \in requests
  BY DEF TypeOK, Answered
<1>3. profile'.session = i /\ profile'.secret = r.issued /\ profile'.pending = 0
  BY <1>1, <1>2 DEF Profiles
<1>4. UNCHANGED <<rows, drawn, paired, revoked, reused, lapsed, legacy>>
  BY DEF Apply, backend, history
<1>5. r.session = i /\ r.secret = profile.secret /\ r.next = profile.pending
  BY <1>1 DEF Waits, Answered, SameRenewal
<1>6. i \in Sessions \ legacy =>
        /\ r.issued = profile.pending /\ profile.pending # 0 /\ profile.pending > profile.secret
  BY <1>1, <1>2, <1>5 DEF Chain, Agree, Agreed, Current
<1>7. Numbered'
  <2>1. 0 <= drawn
    BY Bounds DEF TypeOK
  <2> QED BY <1>1, <1>2, <1>3, <1>4, <2>1 DEF Chain, Numbered, Known
<1>8. OneHead' /\ NoFalseReuse' /\ Lapse'
  BY <1>4 DEF Chain, OneHead, NoFalseReuse, Lapse, Known
<1>9. Alone'
  BY <1>1, <1>3 DEF Chain, Alone
<1>10. Agree'
  <2> SUFFICES ASSUME NEW session \in Sessions \ legacy
               PROVE  Agreed(session)' /\ Current(session)'
    BY <1>4 DEF Agree
  <2>1. Agreed(session) /\ Current(session)
    BY DEF Chain, Agree
  <2>2. Agreed(session)'
    BY <1>1, <1>4, <2>1 DEF Agreed
  <2>3. CASE session = i
    <3>1. /\ \A q \in requests : q.secret \in Nat
          /\ \A s \in Secrets : s \in Nat
          /\ profile.pending \in Nat /\ profile.secret \in Nat
      BY <1>2, Bounds DEF Requests, Secrets, Profiles
    <3>2. \A q \in requests' : q.session = session => q.secret < r.issued
      BY <1>1, <1>6, <2>1, <2>3, <3>1 DEF Current
    <3>3. \A s \in Secrets : rows[s].session = session /\ rows[s].spent =>
            rows[s].next # 0 /\ s < r.issued
      BY <1>6, <2>1, <2>3, <3>1 DEF Current
    <3>4. r.issued \in Nat
      BY <1>6, <2>3, <3>1
    <3> QED BY <1>1, <1>3, <1>4, <2>2, <3>1, <3>2, <3>3, <3>4 DEF Current
  <2>4. CASE session # i
    BY <1>3, <2>2, <2>4 DEF Current
  <2> QED BY <2>3, <2>4
<1>11. Granted'
  <2> SUFFICES ASSUME NEW q \in requests', q.session = i, q.secret = r.issued,
                      i \in Sessions \ legacy
               PROVE  FALSE
    BY <1>1, <1>2, <1>3, <1>4 DEF Granted, Requests
  <2>1. q.secret <= profile.secret
    BY <1>1 DEF Chain, Agree, Current
  <2>2. q.secret \in Nat /\ profile.secret \in Nat
    BY <1>1, <1>2, Bounds DEF Requests, Secrets, Profiles
  <2> QED BY <1>6, <2>1, <2>2
<1>12. AlwaysRenewable'
  <2> SUFFICES ASSUME i \in Sessions \ (revoked \union lapsed \union legacy)
               PROVE  rows[r.issued].session = i /\ ~rows[r.issued].spent
    BY <1>3, <1>4 DEF AlwaysRenewable
  <2>1. rows[profile.secret].spent
    BY <1>1, <1>2, <1>5 DEF Chain, Granted
  <2> QED BY <1>6, <2>1 DEF Chain, AlwaysRenewable
<1> QED BY <1>7, <1>8, <1>9, <1>10, <1>11, <1>12 DEF Chain

\* A new pairing begins a chain of its own.
LEMMA PairChain ==
  ASSUME TypeOK, Chain, NEW p \in Processes, Pair(p)
  PROVE  Chain'
<1> DEFINE n == drawn + 1
           i == paired + 1
<1>1. /\ drawn \in Nat /\ paired \in Nat /\ n \in Secrets /\ i \in Sessions /\ n # 0
      /\ requests \subseteq Requests /\ rows \in [Secrets -> Rows]
  BY Bounds DEF Pair, TypeOK, Secrets, Sessions
<1>2. /\ profile'.session = i /\ profile'.secret = n /\ profile'.pending = 0
      /\ drawn' = n /\ paired' = i
      /\ UNCHANGED <<revoked, requests, reused, lapsed, legacy>>
  BY DEF Pair, history
<1>3. rows'[n] = Unspent(i) /\ \A s \in Secrets \ {n} : rows'[s] = rows[s]
  BY <1>1 DEF Pair
<1>4. /\ \A s \in Secrets : Known(s) => s # n /\ s <= n /\ rows[s].session <= i /\ rows[s].session # i
      /\ \A r \in requests :
           /\ r.session # i /\ r.session <= i /\ r.secret # n /\ r.secret <= n /\ r.next <= n
           /\ r.answer = "granted" => r.issued <= n
      /\ \A session \in revoked : session <= i /\ session # i
  <2>1. /\ \A s \in Secrets : s \in Nat /\ rows[s].session \in Nat
        /\ \A r \in requests : /\ r.session \in Nat /\ r.secret \in Nat /\ r.next \in Nat
                               /\ r.issued \in Nat
        /\ \A session \in revoked : session \in Nat
    BY <1>1, Bounds DEF Secrets, Sessions, Rows, Requests, TypeOK
  <2> QED BY <1>1, <2>1 DEF Chain, Numbered
<1>5. /\ Unspent(i).session = i /\ ~Unspent(i).spent /\ ~Unspent(i).expired
  BY DEF Unspent, NoRow
<1> HIDE DEF n, i
<1>6. i <= i /\ n <= n /\ 0 <= n /\ i # 0
  BY <1>1, <1>2, Bounds DEF n, i
<1>7. Numbered'
  BY <1>1, <1>2, <1>3, <1>4, <1>5, <1>6 DEF Chain, Numbered, Known
<1>8. OneHead'
  BY <1>3, <1>4, <1>5 DEF Chain, OneHead, Known
<1>9. Alone'
  BY <1>2 DEF Chain, Alone
<1>10. Agree'
  <2> SUFFICES ASSUME NEW session \in Sessions \ legacy
               PROVE  Agreed(session)' /\ Current(session)'
    BY <1>2 DEF Agree
  <2>1. Agreed(session) /\ Current(session)
    BY DEF Chain, Agree
  <2>2. Agreed(session)'
    <3>1. \A r \in requests : r.secret \in Secrets \ {n}
      BY <1>1, <1>4 DEF Requests
    <3> QED BY <1>2, <1>3, <2>1, <3>1 DEF Agreed
  <2>3. Current(session)'
    <3>1. \A s \in Secrets : rows'[s].session = i /\ rows'[s].spent => FALSE
      BY <1>3, <1>4, <1>5, <1>6 DEF Known
    <3> QED BY <1>2, <1>4, <3>1 DEF Current
  <2> QED BY <2>2, <2>3
<1>11. NoFalseReuse' /\ Lapse'
  BY <1>2, <1>3, <1>5 DEF Chain, NoFalseReuse, Lapse, Known
<1>12. Granted'
  BY <1>2, <1>4 DEF Granted
<1>13. AlwaysRenewable'
  BY <1>2, <1>3, <1>5 DEF AlwaysRenewable
<1> QED BY <1>7, <1>8, <1>9, <1>10, <1>11, <1>12, <1>13 DEF Chain

\* The family that is spent is one whose renewals were not all recoverable.
LEMMA SpendChain ==
  ASSUME TypeOK, Chain, NEW r \in requests, SpendFamily(r)
  PROVE  Chain'
<1> DEFINE i == r.session
<1>1. Descends
  BY BackendDescends DEF Chain
<1>2. i \in legacy
  BY DEF Chain, Agree, Agreed, SpendFamily, TypeOK, Requests
<1>3. UNCHANGED <<drawn, paired, profile, revoked, reused, lapsed, legacy>>
  BY DEF SpendFamily, history
<1>4. \A s \in Secrets :
        /\ rows'[s].session = rows[s].session /\ rows'[s].next = rows[s].next
        /\ rows'[s].expired = rows[s].expired
        /\ rows'[s].spent <=> rows[s].spent \/ rows[s].session = i
  BY DEF SpendFamily, TypeOK, Rows
<1>5. Numbered'
  BY <1>1, <1>3, <1>4 DEF Chain, Numbered, Known, Descends, Continues, Outcome
<1>6. OneHead'
  BY <1>4 DEF Chain, OneHead, Known
<1>7. Alone'
  BY <1>1, <1>3 DEF Chain, Alone, Descends, Continues
<1>8. Agree'
  <2> SUFFICES ASSUME NEW session \in Sessions \ legacy
               PROVE  Agreed(session)' /\ Current(session)'
    BY <1>3 DEF Agree
  <2>1. Agreed(session) /\ Current(session)
    BY DEF Chain, Agree
  <2>2. \A q \in requests : q.secret \in Secrets
    BY DEF TypeOK, Requests
  <2>3. Agreed(session)'
    BY <1>1, <1>2, <1>4, <2>1, <2>2 DEF Agreed, Descends, Continues, Accused, Suspect
  <2>4. Current(session)'
    BY <1>1, <1>2, <1>3, <1>4, <2>1 DEF Current, Descends, Continues
  <2> QED BY <2>3, <2>4
<1>9. NoFalseReuse' /\ Lapse'
  BY <1>3, <1>4 DEF Chain, NoFalseReuse, Lapse, Known
<1>10. Granted'
  <2>1. \A q \in requests : q.secret \in Secrets
    BY DEF TypeOK, Requests
  <2> QED BY <1>1, <1>3, <1>4, <2>1 DEF Chain, Granted, Descends, Continues, Outcome
<1>11. AlwaysRenewable'
  <2> SUFFICES ASSUME profile.session \in Sessions \ (revoked \union lapsed \union legacy)
               PROVE  AlwaysRenewable'
    BY <1>3 DEF AlwaysRenewable
  <2>1. profile.secret \in Secrets /\ (profile.pending # 0 => profile.pending \in Secrets)
    BY Bounds DEF Chain, Numbered, TypeOK, Profiles, Secrets, Sessions
  <2> QED BY <1>2, <1>3, <1>4, <2>1 DEF Chain, AlwaysRenewable, Known
<1> QED BY <1>5, <1>6, <1>7, <1>8, <1>9, <1>10, <1>11 DEF Chain

\* A secret that expires unspent takes its session with it.
LEMMA ExpireChain ==
  ASSUME TypeOK, Chain, NEW t \in Secrets, Expire(t)
  PROVE  Chain'
<1>1. /\ UNCHANGED <<drawn, paired, profile, requests, revoked, reused, legacy>>
      /\ lapsed \subseteq lapsed'
  BY DEF Expire
<1>2. \A s \in Secrets :
        /\ rows'[s].session = rows[s].session /\ rows'[s].next = rows[s].next
        /\ rows'[s].spent = rows[s].spent
        /\ s # t => rows'[s].expired = rows[s].expired
  BY DEF Expire, TypeOK, Rows
<1>3. rows[t].spent \/ rows[t].session \in lapsed'
  BY DEF Expire
<1>4. \A q \in requests : q.secret \in Secrets
  BY DEF TypeOK, Requests
<1>5. Numbered' /\ OneHead'
  BY <1>1, <1>2 DEF Chain, Numbered, OneHead, Known
<1>6. Alone' /\ NoFalseReuse'
  BY <1>1 DEF Chain, Alone, NoFalseReuse
<1>7. Agree'
  BY <1>1, <1>2, <1>4 DEF Chain, Agree, Agreed, Current
<1>8. Lapse'
  BY <1>1, <1>2, <1>3 DEF Chain, Lapse, Known
<1>9. Granted'
  BY <1>1, <1>2, <1>4 DEF Chain, Granted
<1>10. AlwaysRenewable'
  <2> SUFFICES ASSUME profile.session \in Sessions \ (revoked \union lapsed \union legacy)
               PROVE  AlwaysRenewable'
    BY <1>1 DEF AlwaysRenewable
  <2>1. profile.secret \in Secrets /\ (profile.pending # 0 => profile.pending \in Secrets)
    BY Bounds DEF Chain, Numbered, TypeOK, Profiles, Secrets, Sessions
  <2> QED BY <1>1, <1>2, <2>1 DEF Chain, AlwaysRenewable, Known
<1> QED BY <1>5, <1>6, <1>7, <1>8, <1>9, <1>10 DEF Chain

\* The pruner takes nothing the profile needs.
LEMMA PruneChain ==
  ASSUME TypeOK, Chain, NEW t \in Secrets, Prune(t)
  PROVE  Chain'
<1>1. UNCHANGED <<drawn, paired, profile, requests, revoked, reused, lapsed, legacy>>
  BY DEF Prune, history
<1>2. /\ rows'[t].session = 0 /\ ~rows'[t].spent
      /\ \A s \in Secrets \ {t} : rows'[s] = rows[s]
  BY DEF Prune, TypeOK, NoRow
<1>3. \A q \in requests : q.secret \in Secrets /\ q.session \in Sessions
  BY DEF TypeOK, Requests
<1>4. profile.session \in Sessions \ (revoked \union lapsed \union legacy)
        => t # profile.secret /\ (Known(profile.pending) => t # profile.pending)
  <2> SUFFICES ASSUME profile.session \in Sessions \ (revoked \union lapsed \union legacy)
               PROVE  t # profile.secret /\ (Known(profile.pending) => t # profile.pending)
    OBVIOUS
  <2>1. Known(t) /\ rows[t].expired
    BY DEF Prune
  <2>2. rows[t].spent \/ rows[t].session \in lapsed
    BY <2>1 DEF Chain, Lapse
  <2>3. ASSUME t = profile.secret PROVE FALSE
    <3>1. rows[t].session = profile.session
      BY <2>3 DEF Chain, AlwaysRenewable
    <3>2. rows[t].spent
      BY <2>2, <3>1
    <3>3. /\ profile.pending # 0 /\ rows[t].next = profile.pending
          /\ rows[profile.pending].session = profile.session /\ ~rows[profile.pending].spent
      BY <2>3, <3>2 DEF Chain, AlwaysRenewable
    <3> QED BY <3>3 DEF Prune, Known, Sessions
  <2>4. ASSUME t = profile.pending, Known(profile.pending) PROVE FALSE
    <3>1. profile.pending # 0
      BY <2>4 DEF Secrets
    <3>2. rows[t].session = profile.session /\ ~rows[t].spent
      BY <2>4, <3>1 DEF Chain, AlwaysRenewable
    <3> QED BY <2>2, <3>2
  <2> QED BY <2>3, <2>4
<1>5. Numbered' /\ OneHead' /\ Lapse'
  BY <1>1, <1>2 DEF Chain, Numbered, OneHead, Lapse, Known
<1>6. Alone' /\ NoFalseReuse'
  BY <1>1 DEF Chain, Alone, NoFalseReuse
<1>7. Agree'
  <2> SUFFICES ASSUME NEW session \in Sessions \ legacy
               PROVE  Agreed(session)' /\ Current(session)'
    BY <1>1 DEF Agree
  <2>1. Agreed(session) /\ Current(session)
    BY DEF Chain, Agree
  <2> QED BY <1>1, <1>2, <1>3, <2>1 DEF Agreed, Current
<1>8. Granted'
  BY <1>1, <1>2, <1>3, <1>4 DEF Chain, Granted
<1>9. AlwaysRenewable'
  <2> SUFFICES ASSUME profile.session \in Sessions \ (revoked \union lapsed \union legacy)
               PROVE  AlwaysRenewable'
    BY <1>1 DEF AlwaysRenewable
  <2>1. profile.secret \in Secrets /\ (profile.pending # 0 => profile.pending \in Secrets)
    BY Bounds DEF Chain, Numbered, TypeOK, Profiles, Secrets, Sessions
  <2>2. profile.session # 0
    BY DEF Sessions
  <2> QED BY <1>1, <1>2, <1>4, <2>1, <2>2 DEF Chain, AlwaysRenewable, Known
<1> QED BY <1>5, <1>6, <1>7, <1>8, <1>9 DEF Chain

\* A rotation moves the head of its chain to the successor that was asked for.
LEMMA RotateChain ==
  ASSUME TypeOK, Chain, NEW r \in requests, Rotate(r)
  PROVE  Chain'
<1> DEFINE i == r.session
           n == IF r.next # 0 THEN r.next ELSE drawn + 1
           told == [r EXCEPT !.stage = "answered", !.answer = "granted", !.issued = n,
                             !.modern = modern /\ "granted" = "granted"]
<1>1. /\ requests \subseteq Requests /\ r \in Requests /\ rows \in [Secrets -> Rows]
      /\ drawn \in Nat /\ profile \in Profiles
  BY Bounds DEF TypeOK
<1>2. /\ i \in Sessions /\ i # 0 /\ r.secret \in Secrets /\ r.next \in Nat /\ r.stage = "checked"
  BY <1>1, Bounds DEF Rotate, Requests, Sessions
<1>3. /\ i \notin revoked /\ rows[r.secret].session = i
      /\ ~rows[r.secret].spent /\ ~rows[r.secret].expired
      /\ r.next # 0 => ~Known(r.next)
  BY DEF Rotate, Outcome
<1>4. /\ drawn' \in Nat /\ drawn <= drawn' /\ n <= drawn' /\ n # 0 /\ n \in Secrets
      /\ r.next = 0 => n = drawn + 1
      /\ r.next # 0 => n = r.next
  BY <1>1, <1>2, Bounds DEF Rotate, Chain, Numbered, Secrets, Requests
<1>5. ~Known(n) /\ n # r.secret
  <2>1. ~Known(n)
    BY <1>1, <1>3, <1>4 DEF Chain, Numbered
  <2> QED BY <1>2, <1>3, <2>1 DEF Known
<1>6. /\ UNCHANGED <<revoked, paired, profile, reused, lapsed, legacy>>
      /\ requests' \subseteq (requests \ {r}) \union {told}
  BY DEF Rotate, Answer, history
<1>7. /\ told.session = i /\ told.secret = r.secret /\ told.next = r.next
      /\ told.stage = "answered" /\ told.issued = n
  BY <1>1 DEF Requests
<1>8. /\ rows'[r.secret].session = i /\ rows'[r.secret].spent /\ rows'[r.secret].next = r.next
      /\ rows'[n] = Unspent(i)
      /\ \A s \in Secrets \ {r.secret, n} : rows'[s] = rows[s]
  <2> DEFINE spent == [rows EXCEPT ![r.secret].spent = TRUE]
             moved == [spent EXCEPT ![r.secret].next = r.next]
  <2>1. spent \in [Secrets -> Rows] /\ spent[r.secret].spent /\ spent[r.secret].session = i
        /\ \A s \in Secrets \ {r.secret} : spent[s] = rows[s]
    BY <1>1, <1>2, <1>3 DEF Rows
  <2>2. rows' = [moved EXCEPT ![n] = Unspent(i)]
    BY DEF Rotate
  <2> HIDE DEF spent, n
  <2>3. /\ moved \in [Secrets -> Rows] /\ moved[r.secret].spent /\ moved[r.secret].session = i
        /\ moved[r.secret].next = r.next
        /\ \A s \in Secrets \ {r.secret} : moved[s] = rows[s]
    BY <1>1, <1>2, <2>1 DEF Rows, Requests
  <2> HIDE DEF moved
  <2> QED BY <1>2, <1>4, <1>5, <2>2, <2>3
<1>9. Unspent(i).session = i /\ ~Unspent(i).spent /\ ~Unspent(i).expired
  BY DEF Unspent, NoRow
<1>10. \A q \in requests : /\ q.secret \in Secrets /\ q.session \in Sessions /\ q.secret \in Nat
                          /\ q.next \in Nat /\ q.issued \in Nat
  BY <1>1, Bounds DEF Requests, Secrets
<1> HIDE DEF n, told
<1>11. Numbered'
  <2>1. \A s \in Secrets : s \in Nat
    BY Bounds DEF Secrets
  <2>2. /\ profile.secret \in Nat /\ profile.pending \in Nat
    BY <1>1, Bounds DEF Profiles
  <2>3. \A s \in Secrets : Known(s)' => s <= drawn' /\ rows'[s].session <= paired
    BY <1>1, <1>2, <1>3, <1>4, <1>8, <1>9, <2>1 DEF Chain, Numbered, Known
  <2>4. \A q \in requests' :
          /\ q.session <= paired /\ q.secret <= drawn' /\ q.next <= drawn'
          /\ q.answer = "granted" => q.issued # 0 /\ q.issued <= drawn' /\ q.stage = "answered"
    BY <1>1, <1>4, <1>6, <1>7, <1>10 DEF Chain, Numbered
  <2>5. profile.session <= paired /\ profile.secret <= drawn' /\ profile.pending <= drawn'
    BY <1>1, <1>4, <2>2 DEF Chain, Numbered
  <2> QED BY <1>6, <2>3, <2>4, <2>5 DEF Chain, Numbered
<1>12. OneHead'
  <2>1. ASSUME NEW s \in Secrets, Known(s)', ~rows'[s].spent, rows'[s].session = i
        PROVE  s = n
    BY <1>2, <1>3, <1>8, <2>1 DEF Chain, OneHead, Known
  <2>2. ASSUME NEW s \in Secrets, rows'[s].session # i
        PROVE  rows'[s] = rows[s]
    BY <1>8, <1>9, <2>2
  <2> QED BY <2>1, <2>2 DEF Chain, OneHead, Known
<1>13. Alone'
  BY <1>6, <1>7 DEF Chain, Alone
<1>14. Agree'
  <2> SUFFICES ASSUME NEW session \in Sessions \ legacy
               PROVE  Agreed(session)' /\ Current(session)'
    BY <1>6 DEF Agree
  <2>1. Agreed(session) /\ Current(session)
    BY DEF Chain, Agree
  <2>2. \A q \in requests' : \E x \in requests :
          /\ q.session = x.session /\ q.secret = x.secret /\ q.next = x.next
          /\ Accused(q) => Accused(x)
    BY <1>6, <1>7 DEF Accused
  <2>3. \A s \in Secrets : rows'[s].session = session /\ rows'[s].spent =>
          \/ s = r.secret /\ i = session
          \/ rows'[s] = rows[s]
    BY <1>8, <1>9
  <2>4. Agreed(session)'
    <3>1. ASSUME NEW x \in requests, x.session = session,
                 rows'[x.secret].session = session, rows'[x.secret].spent
          PROVE  rows'[x.secret].next = x.next
      BY <1>8, <1>10, <2>1, <2>3, <3>1 DEF Agreed
    <3> QED BY <2>1, <2>2, <3>1 DEF Agreed, Accused
  <2>5. Current(session)'
    <3>1. CASE profile.session = session
      <4>1. ASSUME NEW s \in Secrets, rows'[s].session = session, rows'[s].spent
            PROVE  /\ rows'[s].next # 0 /\ s <= profile.secret
                   /\ s = profile.secret => rows'[s].next = profile.pending
        BY <1>8, <2>1, <2>3, <3>1, <4>1 DEF Agreed, Current
      <4> QED BY <1>6, <2>1, <2>2, <3>1, <4>1 DEF Current
    <3>2. CASE profile.session # session
      BY <1>6, <3>2 DEF Current
    <3> QED BY <3>1, <3>2
  <2> QED BY <2>4, <2>5
<1>15. NoFalseReuse' /\ Lapse'
  BY <1>6, <1>8, <1>9 DEF Chain, NoFalseReuse, Lapse, Known
<1>16. Granted'
  <2> SUFFICES ASSUME NEW q \in requests', q.answer = "granted", q.session = profile.session,
                      q.secret = profile.secret,
                      profile.session \in Sessions \ (revoked \union lapsed \union legacy)
               PROVE  rows'[q.secret].spent
    BY <1>2, <1>6, <1>7, <1>10 DEF Granted
  <2>1. Known(profile.secret)
    BY DEF Chain, AlwaysRenewable, Known, Sessions
  <2>2. profile.secret # n
    BY <1>5, <2>1
  <2> QED BY <1>6, <1>7, <1>8, <1>10, <2>2 DEF Chain, Granted
<1>17. AlwaysRenewable'
  <2> DEFINE j == profile.session
  <2> SUFFICES ASSUME j \in Sessions \ (revoked \union lapsed \union legacy)
               PROVE  AlwaysRenewable'
    BY <1>6 DEF AlwaysRenewable
  <2>1. profile.secret \in Secrets /\ (profile.pending # 0 => profile.pending \in Secrets) /\ j # 0
    BY <1>1, Bounds DEF Chain, Numbered, Profiles, Secrets, Sessions
  <2>2. Agreed(j) /\ Current(j)
    BY DEF Chain, Agree
  <2>3. rows[profile.secret].session = j /\ profile.secret # n
    BY <1>5, <2>1 DEF Chain, AlwaysRenewable, Known
  <2>4. CASE profile.secret = r.secret
    <3>1. i = j /\ r.next = profile.pending /\ r.next # 0
      BY <1>3, <2>2, <2>3, <2>4 DEF Agreed, Current
    <3> QED BY <1>4, <1>6, <1>8, <1>9, <2>4, <3>1 DEF AlwaysRenewable
  <2>5. CASE profile.secret # r.secret /\ rows[profile.secret].spent
    <3>1. /\ profile.pending # 0 /\ rows[profile.secret].next = profile.pending
          /\ rows[profile.pending].session = j /\ ~rows[profile.pending].spent
      BY <2>5 DEF Chain, AlwaysRenewable
    <3>2. profile.pending # n
      BY <1>5, <2>1, <3>1 DEF Known
    <3>3. profile.pending # r.secret
      <4>1. profile.secret \in Nat /\ profile.pending \in Nat
        BY <1>1, Bounds DEF Profiles
      <4> QED BY <1>3, <2>2, <3>1, <4>1 DEF Current
    <3> QED BY <1>6, <1>8, <2>1, <2>3, <2>5, <3>1, <3>2, <3>3 DEF AlwaysRenewable
  <2>6. CASE profile.secret # r.secret /\ ~rows[profile.secret].spent
    <3>1. profile.pending # 0 => ~Known(profile.pending)
      BY <2>6 DEF Chain, AlwaysRenewable
    <3>2. profile.pending # 0 => profile.pending # n
      <4>1. CASE r.next = 0
        BY <1>1, <1>4, <4>1, Bounds DEF Chain, Numbered, Profiles
      <4>2. ASSUME r.next # 0, profile.pending = r.next PROVE FALSE
        <5>1. i = j
          BY <4>2 DEF Chain, Alone
        <5> QED BY <1>2, <1>3, <2>1, <2>3, <2>6, <5>1 DEF Chain, OneHead, Known
      <4> QED BY <1>4, <4>1, <4>2
    <3>3. profile.pending # 0 => profile.pending # r.secret
      BY <1>2, <1>3, <3>1 DEF Known
    <3> QED BY <1>6, <1>8, <2>1, <2>3, <2>6, <3>1, <3>2, <3>3 DEF AlwaysRenewable, Known
  <2> QED BY <2>4, <2>5, <2>6
<1> QED BY <1>11, <1>12, <1>13, <1>14, <1>15, <1>16, <1>17 DEF Chain

-----------------------------------------------------------------------------
(* Every step.                                                             *)

\* A step of a client keeps the chain, ...
LEMMA ClientChain ==
  ASSUME IInv, NEW p \in Processes, ClientNext(p)
  PROVE  Chain'
<1>1. TypeOK /\ Waits /\ Chain /\ Numbered
  BY DEF IInv, Chain
<1>2. CASE Save(p)
  BY <1>1, <1>2, SaveChain
<1>3. CASE Apply(p)
  BY <1>1, <1>3, ApplyChain
<1>4. CASE Remove(p)
  <2>1. profile' = NoProfile /\ requests' \subseteq requests /\ UNCHANGED <<backend, drawn, history>>
    BY <1>4 DEF Remove
  <2> QED BY <1>1, <2>1, GoneChain
<1>5. CASE Begin(p) \/ Disowned(p) \/ Overtaken(p) \/ Probe(p) \/ TakeLegacyLock(p)
           \/ LockTimesOut(p) \/ Late(p) \/ Keep(p) \/ Open(p)
  <2>1. requests' \subseteq requests /\ UNCHANGED <<backend, drawn, profile, history>>
    BY <1>5 DEF Begin, Disowned, Overtaken, Probe, TakeLegacyLock, LockTimesOut, Late, Keep, Open
  <2>2. Descends
    BY <1>1, <2>1, ShrinkDescends
  <2>3. Quiet
    BY <1>1, <2>1, <2>2 DEF Quiet, backend, history, Chain, Numbered, NoFalseReuse
  <2> QED BY <1>1, <2>3, QuietChain
<1> QED BY <1>2, <1>3, <1>4, <1>5 DEF ClientNext

\* ... and so does one of a handler, ...
LEMMA BackendChain ==
  ASSUME IInv, NEW r \in requests,
         Receive(r) \/ Rotate(r) \/ Decline(r) \/ SpendFamily(r) \/ RevokeFamily(r) \/ StoreFails(r)
  PROVE  Chain'
<1>1. TypeOK /\ Chain /\ Numbered
  BY DEF IInv, Chain
<1>2. CASE Rotate(r)
  BY <1>1, <1>2, RotateChain
<1>3. CASE SpendFamily(r)
  BY <1>1, <1>3, SpendChain
<1>4. CASE RevokeFamily(r)
  <2>1. r.session \in legacy /\ r.session <= paired
    BY <1>1, <1>4 DEF RevokeFamily, Chain, Agree, Agreed, Numbered, TypeOK, Requests
  <2>2. Descends
    BY <1>1, <1>4, BackendDescends
  <2>3. Quiet
    BY <1>1, <1>4, <2>1, <2>2 DEF Quiet, RevokeFamily, Chain, Numbered, NoFalseReuse
  <2> QED BY <1>1, <2>3, QuietChain
<1>5. CASE Receive(r) \/ Decline(r) \/ StoreFails(r)
  <2>1. UNCHANGED <<backend, drawn, profile, history>>
    BY <1>5 DEF Receive, Decline, StoreFails
  <2>2. Descends
    BY <1>1, <1>5, BackendDescends
  <2>3. Quiet
    BY <1>1, <2>1, <2>2 DEF Quiet, backend, history, Chain, Numbered, NoFalseReuse
  <2> QED BY <1>1, <2>3, QuietChain
<1> QED BY <1>2, <1>3, <1>4, <1>5

\* ... one of the owner or of time, and every fault.
LEMMA OtherChain ==
  ASSUME IInv, UserNext \/ FaultNext \/ Update
  PROVE  Chain'
<1>1. TypeOK /\ Waits /\ Chain /\ Numbered
  BY DEF IInv, Chain
<1>2. ASSUME Descends, UNCHANGED <<rows, revoked, paired, drawn, profile, history>>
      PROVE  Chain'
  <2>1. Quiet
    BY <1>1, <1>2 DEF Quiet, history, Chain, Numbered, NoFalseReuse
  <2> QED BY <1>1, <2>1, QuietChain
<1>3. ASSUME requests' \subseteq requests PROVE Descends
  BY <1>1, <1>3, ShrinkDescends
<1>4. ASSUME NEW p \in Processes, Ticket(p) PROVE Chain'
  <2>1. /\ profile'.session = profile.session /\ profile'.secret = profile.secret
        /\ profile'.pending = profile.pending
    BY <1>1, <1>4 DEF Ticket, TypeOK, Profiles
  <2>2. Descends
    BY <1>3, <1>4 DEF Ticket
  <2>3. Quiet
    BY <1>1, <1>4, <2>1, <2>2
    DEF Quiet, Ticket, backend, history, Chain, Numbered, NoFalseReuse
  <2> QED BY <1>1, <2>3, QuietChain
<1>5. ASSUME NEW p \in Processes, Forget(p) PROVE Chain'
  <2>1. profile' = NoProfile /\ requests' \subseteq requests /\ UNCHANGED <<backend, drawn, history>>
    BY <1>5 DEF Forget
  <2> QED BY <1>1, <2>1, GoneChain
<1>6. ASSUME NEW p \in Processes, Pair(p) PROVE Chain'
  BY <1>1, <1>6, PairChain
<1>7. ASSUME NEW session \in Sessions, Revoke(session) PROVE Chain'
  <2>1. Descends
    BY <1>3, <1>7 DEF Revoke
  <2>2. Quiet
    BY <1>1, <1>7, <2>1 DEF Quiet, Revoke, history, Chain, Numbered, NoFalseReuse
  <2> QED BY <1>1, <2>2, QuietChain
<1>8. ASSUME NEW s \in Secrets, Expire(s) PROVE Chain'
  BY <1>1, <1>8, ExpireChain
<1>9. ASSUME NEW s \in Secrets, Prune(s) PROVE Chain'
  BY <1>1, <1>9, PruneChain
<1>10. ASSUME NEW p \in Processes, Fails(p) PROVE Chain'
  BY <1>2, <1>3, <1>10 DEF Fails, backend
<1>11. ASSUME NEW p \in Processes, Abandon(p) PROVE Chain'
  BY <1>1, <1>2, <1>11, AbandonDescends DEF Abandon, backend
<1>12. ASSUME NEW p \in Processes, Crash(p) PROVE Chain'
  BY <1>1, <1>2, <1>12, CrashDescends DEF Crash, backend
<1>13. ASSUME NEW r \in requests, StoreFails(r) PROVE Chain'
  BY <1>13, BackendChain
<1>14. ASSUME NEW build, Restart(build) PROVE Chain'
  BY <1>1, <1>2, <1>14, RestartDescends DEF Restart
<1> QED BY <1>4, <1>5, <1>6, <1>7, <1>8, <1>9, <1>10, <1>11, <1>12, <1>13, <1>14
        DEF UserNext, FaultNext, Update

\* The initial state satisfies the invariant.
LEMMA InitIInv == Init => IInv
<1> SUFFICES ASSUME Init PROVE IInv
  OBVIOUS
<1>1. TypeOK
  BY InitType
<1>2. /\ requests = {} /\ revoked = {} /\ reused = {} /\ drawn = 1 /\ paired = 1
      /\ profile.session = 1 /\ profile.secret = 1 /\ profile.pending = 0
  BY DEF Init
<1>3. /\ rows[1].session = 1 /\ ~rows[1].spent /\ ~rows[1].expired
      /\ \A s \in Secrets \ {1} : rows[s].session = 0 /\ ~rows[s].spent
  BY Bounds DEF Init, Unspent, NoRow
<1>4. Numbered
  BY <1>2, <1>3 DEF Numbered, Known
<1>5. OneHead
  BY <1>3 DEF OneHead, Known
<1>6. Waits /\ Alone /\ NoFalseReuse /\ Granted
  BY <1>2 DEF Waits, Alone, NoFalseReuse, Granted
<1>7. Agree
  BY <1>2, <1>3 DEF Agree, Agreed, Current
<1>8. Lapse
  BY <1>3 DEF Lapse, Known
<1>9. AlwaysRenewable
  BY <1>2, <1>3 DEF AlwaysRenewable
<1> QED BY <1>1, <1>4, <1>5, <1>6, <1>7, <1>8, <1>9 DEF IInv, Chain

\* Every step preserves it.
LEMMA NextIInv == IInv /\ [Next]_vars => IInv'
<1> SUFFICES ASSUME IInv, [Next]_vars PROVE IInv'
  OBVIOUS
<1>1. TypeOK /\ Waits /\ Chain /\ Numbered
  BY DEF IInv, Chain
<1>2. ASSUME NEW p \in Processes, ClientNext(p) PROVE IInv'
  BY <1>1, <1>2, ClientType, ClientWaits, ClientChain DEF IInv
<1>3. CASE BackendNext
  BY <1>1, <1>3, BackendType, BackendWaits, BackendChain DEF BackendNext, IInv
<1>4. CASE UserNext
  BY <1>1, <1>4, UserType, OtherWaits, OtherChain DEF IInv
<1>5. CASE FaultNext
  BY <1>1, <1>5, FaultType, OtherWaits, OtherChain DEF IInv
<1>6. CASE Update
  <2>1. TypeOK'
    BY <1>1, <1>6, RestartType DEF Update
  <2> QED BY <1>1, <1>6, <2>1, OtherWaits, OtherChain DEF IInv
<1>7. CASE UNCHANGED vars
  <2> USE <1>7 DEF vars, backend, history
  <2>1. TypeOK' /\ Waits'
    BY <1>1 DEF TypeOK, Waits
  <2>2. Descends
    BY <1>1, ShrinkDescends
  <2>3. Quiet
    BY <1>1, <2>2 DEF Quiet, Chain, Numbered, NoFalseReuse
  <2>4. Chain'
    BY <1>1, <2>3, QuietChain
  <2> QED BY <2>1, <2>4 DEF IInv
<1> QED BY <1>2, <1>3, <1>4, <1>5, <1>6, <1>7 DEF Next, CalmNext

-----------------------------------------------------------------------------
(* The theorems.                                                           *)

\* The invariant holds: what a profile, the requests on their way and the
\* backend's rows say of a chain of secrets agrees at every moment.
THEOREM Inductive == Spec => []IInv
BY InitIInv, NextIInv, PTL DEF Spec

\* Every reachable state is well typed.
THEOREM TypeCorrect == Spec => []TypeOK
<1>1. IInv => TypeOK
  BY DEF IInv
<1> QED BY <1>1, Inductive, PTL

\* A session has one unspent secret at most (RotateRefreshSecret).
THEOREM SingleHead == Spec => []OneHead
<1>1. IInv => OneHead
  BY DEF IInv, Chain
<1> QED BY <1>1, Inductive, PTL

\* No interleaving of recoverable renewals, repeated, lost, late or begun by
\* several processes, ends a session for reuse (revokeFamilyForReuse).
THEOREM NoReuse == Spec => []NoFalseReuse
<1>1. IInv => NoFalseReuse
  BY DEF IInv, Chain
<1> QED BY <1>1, Inductive, PTL

\* The saved profile of a session that is neither revoked nor expired can be
\* renewed, if all its renewals were recoverable: its secret is unspent, or
\* the receipt for the successor it saved is there.
THEOREM Renewable == Spec => []AlwaysRenewable
<1>1. IInv => AlwaysRenewable
  BY DEF IInv, Chain
<1> QED BY <1>1, Inductive, PTL

\* No step issues a secret, or grants a renewal, for a session that is revoked.
LEMMA NoExtension ==
  IInv /\ [Next]_vars =>
    [/\ \A s \in Secrets : ~Known(s) /\ Known(s)' => rows'[s].session \notin revoked
     /\ \A r \in requests' \ requests : r.answer = "granted" => r.session \notin revoked]_vars
<1> SUFFICES ASSUME IInv, Next
             PROVE  /\ \A s \in Secrets : ~Known(s) /\ Known(s)' => rows'[s].session \notin revoked
                    /\ \A r \in requests' \ requests : r.answer = "granted" => r.session \notin revoked
  OBVIOUS
<1>1. TypeOK /\ Numbered
  BY DEF IInv, Chain
<1>2. ASSUME Descends
      PROVE  \A r \in requests' \ requests : r.answer = "granted" => r.session \notin revoked
  BY <1>2 DEF Descends, Continues, Outcome
<1>3. ASSUME NEW p \in Processes, Save(p)
      PROVE  /\ rows' = rows
             /\ \A r \in requests' \ requests : r.answer = "granted" => r.session \notin revoked
  BY <1>3 DEF Save, Request, backend
<1>4. ASSUME NEW p \in Processes, ClientNext(p), ~Save(p)
      PROVE  rows' = rows /\ requests' \subseteq requests
  BY <1>4 DEF ClientNext, Begin, Disowned, Overtaken, Probe, TakeLegacyLock, LockTimesOut,
              Late, Keep, Remove, Apply, Open, backend
<1>5. ASSUME NEW r \in requests, Rotate(r)
      PROVE  /\ \A s \in Secrets : ~Known(s) /\ Known(s)' => rows'[s].session \notin revoked
             /\ \A q \in requests' \ requests : q.answer = "granted" => q.session \notin revoked
  <2> DEFINE n == IF r.next # 0 THEN r.next ELSE drawn + 1
  <2>1. r.session \notin revoked
    BY <1>5 DEF Rotate, Outcome
  <2>2. r \in Requests /\ rows \in [Secrets -> Rows]
    BY <1>1 DEF TypeOK
  <2>3. \A q \in requests' \ requests : q.session = r.session
    BY <1>5, <2>2 DEF Rotate, Answer, Requests
  <2>4. \A s \in Secrets : s # n => rows'[s].session = rows[s].session
    BY <1>5, <2>2 DEF Rotate, Requests, Rows
  <2>5. n \in Secrets => rows'[n].session = r.session
    BY <1>5, <2>2 DEF Rotate, Unspent, NoRow
  <2> QED BY <2>1, <2>3, <2>4, <2>5 DEF Known
<1>6. ASSUME NEW r \in requests,
             Receive(r) \/ Decline(r) \/ SpendFamily(r) \/ RevokeFamily(r) \/ StoreFails(r)
      PROVE  Descends /\ \A s \in Secrets : rows'[s].session = rows[s].session
  <2>1. Descends
    BY <1>1, <1>6, BackendDescends
  <2> QED BY <1>1, <1>6, <2>1
          DEF Receive, Decline, SpendFamily, RevokeFamily, StoreFails, backend, TypeOK, Rows
<1>7. ASSUME NEW p \in Processes, Ticket(p) \/ Forget(p) \/ Fails(p)
      PROVE  rows' = rows /\ requests' \subseteq requests
  BY <1>7 DEF Ticket, Forget, Fails, backend
<1>8. ASSUME NEW p \in Processes, Pair(p)
      PROVE  /\ requests' = requests
             /\ \A s \in Secrets : ~Known(s) /\ Known(s)' => rows'[s].session \notin revoked
  <2>1. paired + 1 \notin revoked
    <3>1. paired \in Nat /\ \A session \in revoked : session \in Nat
      BY <1>1, Bounds DEF TypeOK, Sessions
    <3> QED BY <1>1, <3>1 DEF Numbered
  <2>2. \A s \in Secrets : s # drawn + 1 => rows'[s] = rows[s]
    BY <1>1, <1>8 DEF Pair, TypeOK
  <2>3. drawn + 1 \in Secrets => rows'[drawn + 1].session = paired + 1
    BY <1>1, <1>8 DEF Pair, TypeOK, Unspent, NoRow
  <2> QED BY <1>8, <2>1, <2>2, <2>3 DEF Pair, Known
<1>9. ASSUME NEW p \in Processes, Abandon(p) \/ Crash(p)
      PROVE  Descends /\ rows' = rows
  BY <1>1, <1>9, AbandonDescends, CrashDescends DEF Abandon, Crash, backend
<1>10. ASSUME NEW build, Restart(build)
       PROVE  Descends /\ rows' = rows
  BY <1>1, <1>10, RestartDescends DEF Restart
<1>11. ASSUME \/ \E session \in Sessions : Revoke(session)
              \/ \E s \in Secrets : Expire(s) \/ Prune(s)
       PROVE  /\ requests' = requests
              /\ \A s \in Secrets : ~Known(s) => ~Known(s)'
  BY <1>1, <1>11 DEF Revoke, Expire, Prune, Known, NoRow, TypeOK, Rows
<1> QED BY <1>2, <1>3, <1>4, <1>5, <1>6, <1>7, <1>8, <1>9, <1>10, <1>11
        DEF Next, CalmNext, BackendNext, UserNext, FaultNext, Update, Known

\* A session that was revoked is never extended, whatever had been checked
\* before it was (RotateRefreshSecret).
THEOREM RevokedStays == Spec => RevokedIsFinal
BY Inductive, NoExtension, PTL DEF Spec, RevokedIsFinal

=============================================================================
