------------------------ MODULE SessionProfileProofs ------------------------
(***************************************************************************)
(* What the chain of secrets means for the profile file of SessionRenewal: *)
(* it only goes forward, and it goes away for a cause.                     *)
(***************************************************************************)
EXTENDS SessionRenewalProofs

\* Successors are drawn after the secrets they replace, and an answer is the
\* last stage of a request.
Rising ==
    /\ profile.pending = 0 \/ profile.pending > profile.secret
    /\ \A r \in requests :
          /\ r.next = 0 \/ r.next > r.secret
          /\ r.answer = "granted" => r.issued > r.secret
          /\ r.stage # "answered" => r.answer = "none"

Over(session) == session \in revoked \union lapsed \union legacy

\* A verdict on the renewal the profile stands for means that its session is over.
Refused ==
    \A r \in requests :
        r.answer = "ended" /\ r.session = profile.session /\ r.secret = profile.secret
        => Over(profile.session)

\* What a step may add to the requests.
Honest ==
    \A r \in requests' : r \in requests \/
        /\ \E q \in requests : r.secret = q.secret /\ r.next = q.next
        /\ r.answer = "granted" => r.issued > r.secret
        /\ r.stage # "answered" => r.answer = "none"
        /\ r.answer = "ended" /\ r.session = profile.session /\ r.secret = profile.secret
           => Over(profile.session)'

-----------------------------------------------------------------------------

\* A handler's next stage is no answer.
LEMMA AtHonest ==
  ASSUME TypeOK, Rising, NEW r \in requests, NEW stage, At(r, stage), r.stage # "answered"
  PROVE  Honest
<1>1. r \in Requests /\ r.answer = "none"
  BY DEF TypeOK, Rising
<1> DEFINE told == [r EXCEPT !.stage = stage]
<1>2. told.secret = r.secret /\ told.next = r.next /\ told.answer = "none"
  BY <1>1 DEF Requests
<1>3. requests' \subseteq requests \union {told}
  BY DEF At
<1> HIDE DEF told
<1> QED BY <1>2, <1>3 DEF Honest

\* An answer is honest if the grant is new and the verdict has a cause.
LEMMA AnswerHonest ==
  ASSUME TypeOK, NEW r \in requests, NEW answer, NEW issued, Answer(r, answer, issued),
         answer = "granted" => issued > r.secret,
         answer = "ended" /\ r.session = profile.session /\ r.secret = profile.secret
            => Over(profile.session)'
  PROVE  Honest
<1>1. r \in Requests
  BY DEF TypeOK
<1> DEFINE told == [r EXCEPT !.stage = "answered", !.answer = answer, !.issued = issued,
                             !.modern = modern /\ answer = "granted"]
<1>2. /\ told.secret = r.secret /\ told.next = r.next /\ told.session = r.session
      /\ told.answer = answer /\ told.stage = "answered" /\ told.issued = issued
  BY <1>1 DEF Requests
<1>3. requests' \subseteq requests \union {told}
  BY DEF Answer
<1> HIDE DEF told
<1> QED BY <1>2, <1>3 DEF Honest

\* The backend refuses the profile's own renewal only when the session is over.
LEMMA RefusalCause ==
  ASSUME IInv, NEW r \in requests, r.session = profile.session, r.secret = profile.secret,
         Verdict(r) = "ended" \/ Outcome(r) = "ended"
  PROVE  Over(profile.session)
<1> SUFFICES ASSUME ~Over(profile.session) PROVE FALSE
  OBVIOUS
<1>1. TypeOK /\ Chain
  BY DEF IInv
<1>2. r.session \in Sessions /\ r.secret \in Secrets /\ r.next \in 0 .. MaxSecrets /\ r.session # 0
  BY <1>1 DEF TypeOK, Requests, Sessions
<1>3. r.next # 0 /\ r.next = profile.pending /\ r.session \notin revoked \union lapsed
  BY <1>1, <1>2 DEF Chain, Agree, Agreed, Current, Over
<1>4. /\ rows[r.secret].session = r.session
      /\ IF rows[r.secret].spent
         THEN /\ rows[r.secret].next = r.next
              /\ rows[r.next].session = r.session /\ ~rows[r.next].spent
         ELSE ~Known(r.next)
  BY <1>1, <1>2, <1>3 DEF Chain, AlwaysRenewable, Over
<1>5. \A s \in Secrets : rows[s].session = r.session /\ ~rows[s].spent => ~rows[s].expired
  BY <1>1, <1>2, <1>3 DEF Chain, Lapse, Known
<1>6. r.next \in Secrets
  BY <1>2, <1>3, Bounds DEF Secrets
<1>7. Verdict(r) # "ended"
  BY <1>2, <1>3, <1>4 DEF Verdict, Known
<1>8. Outcome(r) # "ended"
  BY <1>2, <1>3, <1>4, <1>5, <1>6 DEF Outcome, Known
<1> QED BY <1>7, <1>8

\* The handlers are honest.
LEMMA BackendHonest ==
  ASSUME IInv, Rising, NEW r \in requests,
         Receive(r) \/ Rotate(r) \/ Decline(r) \/ SpendFamily(r) \/ RevokeFamily(r) \/ StoreFails(r)
  PROVE  Honest
<1>1. TypeOK /\ Chain /\ r \in Requests
  BY DEF IInv, TypeOK
<1>2. CASE Receive(r)
  <2>1. UNCHANGED <<profile, revoked, lapsed, legacy>>
    BY <1>2 DEF Receive, backend, history
  <2>2. Verdict(r) \in {"kept", "ended", "reuse", "checked"} /\ r.stage = "sent"
    BY <1>2 DEF Receive, Verdict
  <2>3. Verdict(r) = "ended" /\ r.session = profile.session /\ r.secret = profile.secret
          => Over(profile.session)'
    BY <2>1, RefusalCause DEF Over
  <2> QED BY <1>1, <1>2, <2>2, <2>3, AtHonest, AnswerHonest DEF Receive
<1>3. CASE Rotate(r)
  <2> DEFINE n == IF r.next # 0 THEN r.next ELSE drawn + 1
  <2>1. n > r.secret
    BY <1>1, Bounds DEF Rising, Chain, Numbered, TypeOK, Requests, Secrets
  <2>2. Answer(r, "granted", n)
    BY <1>3 DEF Rotate
  <2> HIDE DEF n
  <2> QED BY <1>1, <2>1, <2>2, AnswerHonest
<1>4. CASE Decline(r)
  <2>1. UNCHANGED <<profile, revoked, lapsed, legacy>>
    BY <1>4 DEF Decline, backend, history
  <2>2. Outcome(r) = "ended" /\ r.session = profile.session /\ r.secret = profile.secret
          => Over(profile.session)'
    BY <2>1, RefusalCause DEF Over
  <2>3. Outcome(r) = "replayed" => r.next > r.secret
    BY DEF Outcome, Rising
  <2> QED BY <1>1, <1>4, <2>2, <2>3, AtHonest, AnswerHonest DEF Decline
<1>5. CASE SpendFamily(r)
  BY <1>1, <1>5, AtHonest DEF SpendFamily
<1>6. CASE RevokeFamily(r)
  BY <1>1, <1>6, AnswerHonest DEF RevokeFamily, Over
<1>7. CASE StoreFails(r)
  <2>1. UNCHANGED <<profile, revoked, lapsed, legacy>>
    BY <1>7 DEF StoreFails, backend, history
  <2>2. r.stage = "revoking" => r.session \in legacy
    BY <1>1 DEF Chain, Agree, Agreed, Requests
  <2> QED BY <1>1, <1>7, <2>1, <2>2, AtHonest, AnswerHonest DEF StoreFails, Over
<1> QED BY <1>2, <1>3, <1>4, <1>5, <1>6, <1>7

\* So are the faults that change requests.
LEMMA FaultHonest ==
  ASSUME IInv, Rising, \/ \E p \in Processes : Abandon(p) \/ Crash(p)
                       \/ \E build : Restart(build)
  PROVE  Honest
<1>1. TypeOK
  BY DEF IInv
<1>2. ASSUME NEW p \in Processes, Abandon(p) PROVE Honest
  <2>1. PICK r \in requests :
          \E late \in {{}} \union (IF r.stage = "answered" THEN {} ELSE {{[r EXCEPT !.late = TRUE]}}) :
             requests' = (requests \ {r}) \union
               {[r EXCEPT !.stage = "answered", !.answer = "kept", !.issued = 0]} \union late
    BY <1>2 DEF Abandon
  <2> DEFINE told == [r EXCEPT !.stage = "answered", !.answer = "kept", !.issued = 0]
             lost == [r EXCEPT !.late = TRUE]
  <2>2. r \in Requests
    BY <1>1 DEF TypeOK
  <2>3. /\ told.secret = r.secret /\ told.next = r.next /\ told.answer = "kept"
        /\ told.stage = "answered"
        /\ lost.secret = r.secret /\ lost.next = r.next /\ lost.answer = r.answer
    BY <2>2 DEF Requests
  <2>4. requests' \subseteq requests \union {told} \union (IF r.stage = "answered" THEN {} ELSE {lost})
    BY <2>1
  <2> HIDE DEF told, lost
  <2> QED BY <2>3, <2>4 DEF Honest, Rising
<1>3. ASSUME NEW p \in Processes, Crash(p) PROVE Honest
  <2>1. PICK late \in SUBSET {r \in requests : r.from = p /\ ~r.late /\ r.stage # "answered"} :
          requests' = (requests \ {r \in requests : r.from = p /\ ~r.late})
                      \union {[r EXCEPT !.late = TRUE] : r \in late}
    BY <1>3 DEF Crash
  <2>2. \A x \in requests' : x \in requests \/ \E r \in requests :
          /\ r.stage # "answered" /\ x.secret = r.secret /\ x.next = r.next /\ x.answer = r.answer
    BY <1>1, <2>1 DEF TypeOK, Requests
  <2> QED BY <2>2 DEF Honest, Rising
<1>4. ASSUME NEW build, Restart(build) PROVE Honest
  <2>1. \A x \in requests' : x \in requests \/ \E r \in requests :
          /\ x.secret = r.secret /\ x.next = r.next /\ x.answer = "kept" /\ x.stage = "answered"
    BY <1>1, <1>4 DEF Restart, TypeOK, Requests
  <2> QED BY <2>1 DEF Honest
<1> QED BY <1>2, <1>3, <1>4

\* Honest steps that leave the profile's secrets keep the invariant.
LEMMA HonestStep ==
  ASSUME Rising, Refused, Honest,
         profile'.session = profile.session, profile'.secret = profile.secret,
         profile'.pending = profile.pending,
         revoked \subseteq revoked', lapsed \subseteq lapsed', legacy \subseteq legacy'
  PROVE  Rising' /\ Refused'
<1>1. Rising'
  BY DEF Rising, Honest
<1>2. Refused'
  BY DEF Refused, Honest, Over
<1> QED BY <1>1, <1>2

\* So do those that leave a profile with nothing pending.
LEMMA SettledStep ==
  ASSUME IInv', Rising, requests' \subseteq requests, profile'.pending = 0
  PROVE  Rising' /\ Refused'
<1>1. Rising'
  BY DEF Rising
<1>2. Refused'
  <2> SUFFICES ASSUME NEW r \in requests', r.session = profile'.session,
                      r.secret = profile'.secret, ~Over(profile.session)'
               PROVE  FALSE
    BY DEF Refused
  <2>1. r.session \in Sessions \ legacy'
    BY DEF IInv, TypeOK, Requests, Over
  <2>2. r.next # 0 /\ r.next = 0
    BY <2>1 DEF IInv, Chain, Agree, Agreed, Current
  <2> QED BY <2>2
<1> QED BY <1>1, <1>2

\* Every step keeps the invariant of the profile.
LEMMA ProfileStep == IInv /\ Rising /\ Refused /\ [Next]_vars => Rising' /\ Refused'
<1> SUFFICES ASSUME IInv, Rising, Refused, [Next]_vars PROVE Rising' /\ Refused'
  OBVIOUS
<1>1. IInv'
  BY NextIInv
<1>2. TypeOK /\ Chain
  BY DEF IInv
<1>3. ASSUME Honest, UNCHANGED <<profile, lapsed, legacy>>, revoked \subseteq revoked'
      PROVE  Rising' /\ Refused'
  BY <1>3, HonestStep
<1>4. ASSUME requests' \subseteq requests PROVE Honest
  BY <1>4 DEF Honest
<1>5. ASSUME NEW p \in Processes, Save(p) PROVE Rising' /\ Refused'
  <2> DEFINE sent == Request(p, profile.session, profile.secret, Saved(p).pending)
  <2>1. /\ sent.secret = profile.secret /\ sent.next = profile'.pending
        /\ sent.answer = "none" /\ requests' = requests \union {sent}
    BY <1>5 DEF Save, Request
  <2>2. /\ profile'.session = profile.session /\ profile'.secret = profile.secret
        /\ profile'.pending = profile.pending \/ profile'.pending = drawn + 1
    BY <1>2, <1>5 DEF Save, Saved, TypeOK, Profiles
  <2>3. profile'.pending = 0 \/ profile'.pending > profile.secret
    <3>1. profile.secret \in Nat /\ drawn \in Nat
      BY <1>2, Bounds DEF TypeOK, Profiles
    <3> QED BY <1>2, <2>2, <3>1 DEF Rising, Chain, Numbered
  <2>4. legacy \subseteq legacy' /\ UNCHANGED <<revoked, lapsed>>
    BY <1>5 DEF Save, backend
  <2> HIDE DEF sent
  <2>5. Rising'
    BY <2>1, <2>2, <2>3 DEF Rising
  <2>6. Refused'
    BY <2>1, <2>2, <2>4 DEF Refused, Over
  <2> QED BY <2>5, <2>6
<1>6. ASSUME NEW p \in Processes, Apply(p) PROVE Rising' /\ Refused'
  <2>1. profile'.pending = 0 /\ requests' \subseteq requests
    <3>1. TypeOK /\ Numbered
      BY <1>2 DEF Chain
    <3> QED BY <1>6, <3>1, ApplyType DEF Apply
  <2> QED BY <1>1, <2>1, SettledStep
<1>7. ASSUME NEW p \in Processes, Remove(p) \/ Forget(p) \/ Pair(p) PROVE Rising' /\ Refused'
  <2>1. profile'.pending = 0 /\ requests' \subseteq requests
    BY <1>7 DEF Remove, Forget, Pair, NoProfile
  <2> QED BY <1>1, <2>1, SettledStep
<1>8. ASSUME NEW p \in Processes, ClientNext(p), ~Save(p), ~Apply(p), ~Remove(p)
      PROVE  Rising' /\ Refused'
  <2>1. requests' \subseteq requests /\ UNCHANGED <<backend, profile, history>>
    BY <1>8 DEF ClientNext, Begin, Disowned, Overtaken, Probe, TakeLegacyLock, LockTimesOut,
                Late, Keep, Open
  <2> QED BY <1>3, <1>4, <2>1 DEF backend, history
<1>9. ASSUME NEW p \in Processes, Ticket(p) PROVE Rising' /\ Refused'
  <2>1. /\ profile'.session = profile.session /\ profile'.secret = profile.secret
        /\ profile'.pending = profile.pending
    BY <1>2, <1>9 DEF Ticket, TypeOK, Profiles
  <2>2. Honest
    BY <1>4, <1>9 DEF Ticket
  <2> QED BY <1>9, <2>1, <2>2, HonestStep DEF Ticket, backend, history
<1>10. ASSUME NEW r \in requests,
              Receive(r) \/ Rotate(r) \/ Decline(r) \/ SpendFamily(r) \/ RevokeFamily(r) \/ StoreFails(r)
       PROVE  Rising' /\ Refused'
  <2>1. UNCHANGED <<profile, lapsed, legacy>> /\ revoked \subseteq revoked'
    BY <1>10 DEF Receive, Rotate, Decline, SpendFamily, RevokeFamily, StoreFails, backend, history
  <2> QED BY <1>3, <1>10, <2>1, BackendHonest
<1>11. ASSUME \/ \E session \in Sessions : Revoke(session)
              \/ \E s \in Secrets : Expire(s) \/ Prune(s)
              \/ \E p \in Processes : Fails(p)
       PROVE  Rising' /\ Refused'
  <2>1. requests' = requests /\ profile' = profile
        /\ revoked \subseteq revoked' /\ lapsed \subseteq lapsed' /\ legacy' = legacy
    BY <1>11 DEF Revoke, Expire, Prune, Fails, backend, history
  <2> QED BY <1>4, <2>1, HonestStep
<1>12. ASSUME NEW p \in Processes, Abandon(p) \/ Crash(p) PROVE Rising' /\ Refused'
  BY <1>3, <1>12, FaultHonest DEF Abandon, Crash, backend, history
<1>13. ASSUME NEW build, Restart(build) PROVE Rising' /\ Refused'
  BY <1>3, <1>13, FaultHonest DEF Restart, history
<1>14. CASE UNCHANGED vars
  BY <1>3, <1>4, <1>14 DEF vars, backend, history
<1> QED BY <1>5, <1>6, <1>7, <1>8, <1>9, <1>10, <1>11, <1>12, <1>13, <1>14
        DEF Next, CalmNext, BackendNext, UserNext, FaultNext, Update

\* The invariant of the profile holds.
LEMMA ProfileInv == Spec => [](Rising /\ Refused)
<1>1. Init => Rising /\ Refused
  BY DEF Init, Rising, Refused
<1> QED BY <1>1, Inductive, ProfileStep, PTL DEF Spec

-----------------------------------------------------------------------------

\* No step takes the profile back to an earlier secret or pairing.
LEMMA ForwardStep ==
  IInv /\ Rising /\ [Next]_vars =>
    [profile.session # 0 /\ profile'.session # 0 =>
          \/ profile'.session > profile.session
          \/ profile'.session = profile.session /\ profile'.secret >= profile.secret]_vars
<1> SUFFICES ASSUME IInv, Rising, Next
             PROVE  profile.session # 0 /\ profile'.session # 0 =>
                      \/ profile'.session > profile.session
                      \/ profile'.session = profile.session /\ profile'.secret >= profile.secret
  OBVIOUS
<1>1. TypeOK /\ Chain /\ Numbered
  BY DEF IInv, Chain
<1>2. /\ profile \in Profiles /\ profile.secret \in Nat /\ profile.session \in Nat /\ paired \in Nat
      /\ profile.secret >= profile.secret
  BY <1>1, Bounds DEF TypeOK, Profiles, Sessions
<1>3. ASSUME NEW p \in Processes, Save(p) \/ Ticket(p)
      PROVE  profile'.session = profile.session /\ profile'.secret = profile.secret
  BY <1>2, <1>3 DEF Save, Saved, Ticket, Profiles
<1>4. ASSUME NEW p \in Processes, Apply(p)
      PROVE  profile'.session = profile.session /\ profile'.secret >= profile.secret
  <2>1. PICK r \in Answered(p) :
          /\ r.answer = "granted" /\ SameRenewal(profile, client[p].held)
          /\ profile' = [profile EXCEPT !.secret = r.issued, !.pending = 0,
                                        !.recovery = IF r.modern THEN "yes" ELSE @]
    BY <1>4 DEF Apply
  <2>2. r \in Requests /\ r.secret = profile.secret
    BY <1>1, <2>1 DEF IInv, Waits, Answered, SameRenewal, TypeOK
  <2>3. r.issued > profile.secret /\ r.issued \in Nat
    BY <2>1, <2>2, Bounds DEF Rising, Answered, Requests
  <2>4. profile'.session = profile.session /\ profile'.secret = r.issued
    BY <1>2, <2>1 DEF Profiles
  <2> QED BY <1>2, <2>3, <2>4
<1>5. ASSUME NEW p \in Processes, Pair(p) PROVE profile'.session > profile.session
  BY <1>1, <1>2, <1>5 DEF Pair, Numbered
<1>6. ASSUME NEW p \in Processes, Remove(p) \/ Forget(p) PROVE profile'.session = 0
  BY <1>6 DEF Remove, Forget, NoProfile
<1>7. ASSUME NEW p \in Processes,
             Begin(p) \/ Disowned(p) \/ Overtaken(p) \/ Probe(p) \/ TakeLegacyLock(p) \/ LockTimesOut(p)
             \/ Late(p) \/ Keep(p) \/ Open(p) \/ Fails(p) \/ Abandon(p) \/ Crash(p)
      PROVE  profile' = profile
  BY <1>7 DEF Begin, Disowned, Overtaken, Probe, TakeLegacyLock, LockTimesOut, Late, Keep, Open,
              Fails, Abandon, Crash
<1>8. ASSUME \/ \E r \in requests : Receive(r) \/ Rotate(r) \/ Decline(r) \/ SpendFamily(r)
                                     \/ RevokeFamily(r) \/ StoreFails(r)
             \/ \E session \in Sessions : Revoke(session)
             \/ \E s \in Secrets : Expire(s) \/ Prune(s)
             \/ \E build : Restart(build)
      PROVE  profile' = profile
  BY <1>8 DEF Receive, Rotate, Decline, SpendFamily, RevokeFamily, StoreFails, Revoke, Expire, Prune,
              Restart
<1> QED BY <1>2, <1>3, <1>4, <1>5, <1>6, <1>7, <1>8
        DEF Next, CalmNext, ClientNext, BackendNext, UserNext, FaultNext, Update

\* The profile only goes forward (rotate's last transaction).
THEOREM GoesForward == Spec => Forward
BY Inductive, ProfileInv, ForwardStep, PTL DEF Spec, Forward

\* A step that removes the profile is the user's, or its session is over.
LEMMA CauseStep ==
  IInv /\ Refused /\ [Next]_vars =>
    [profile.session # 0 /\ profile'.session = 0 =>
          \/ \E p \in Processes : Forget(p)
          \/ profile.session \in revoked \union lapsed \union legacy]_vars
<1> SUFFICES ASSUME IInv, Refused, Next, profile.session # 0, profile'.session = 0,
                    ~ \E p \in Processes : Forget(p)
             PROVE  profile.session \in revoked \union lapsed \union legacy
  OBVIOUS
<1>1. TypeOK /\ Numbered
  BY DEF IInv, Chain
<1>2. profile \in Profiles /\ paired \in Nat
  BY <1>1, Bounds DEF TypeOK, Sessions
<1>3. ASSUME NEW p \in Processes, Remove(p) PROVE Over(profile.session)
  <2>1. PICK r \in Answered(p) : r.answer = "ended" /\ SameRenewal(profile, client[p].held)
    BY <1>3 DEF Remove
  <2>2. r.session = profile.session /\ r.secret = profile.secret /\ r \in requests
    BY <1>1, <2>1 DEF IInv, Waits, Answered, SameRenewal
  <2> QED BY <2>1, <2>2 DEF Refused
<1>4. ASSUME NEW p \in Processes, Save(p) \/ Ticket(p) \/ Apply(p)
      PROVE  profile'.session = profile.session
  BY <1>2, <1>4 DEF Save, Saved, Ticket, Apply, Profiles
<1>5. ASSUME NEW p \in Processes, Pair(p) PROVE profile'.session # 0
  BY <1>2, <1>5 DEF Pair
<1>6. ASSUME NEW p \in Processes,
             Begin(p) \/ Disowned(p) \/ Overtaken(p) \/ Probe(p) \/ TakeLegacyLock(p) \/ LockTimesOut(p)
             \/ Late(p) \/ Keep(p) \/ Open(p) \/ Fails(p) \/ Abandon(p) \/ Crash(p)
      PROVE  profile' = profile
  BY <1>6 DEF Begin, Disowned, Overtaken, Probe, TakeLegacyLock, LockTimesOut, Late, Keep, Open,
              Fails, Abandon, Crash
<1>7. ASSUME \/ \E r \in requests : Receive(r) \/ Rotate(r) \/ Decline(r) \/ SpendFamily(r)
                                     \/ RevokeFamily(r) \/ StoreFails(r)
             \/ \E session \in Sessions : Revoke(session)
             \/ \E s \in Secrets : Expire(s) \/ Prune(s)
             \/ \E build : Restart(build)
      PROVE  profile' = profile
  BY <1>7 DEF Receive, Rotate, Decline, SpendFamily, RevokeFamily, StoreFails, Revoke, Expire, Prune,
              Restart
<1> QED BY <1>3, <1>4, <1>5, <1>6, <1>7
        DEF Next, CalmNext, ClientNext, BackendNext, UserNext, FaultNext, Update, Over

\* A profile is removed by the user, or because its own session was revoked,
\* expired, or renewed in the legacy way (rotate's last transaction).
THEOREM EndsRightly == Spec => EndsForCause
BY Inductive, ProfileInv, CauseStep, PTL DEF Spec, EndsForCause

=============================================================================
