----------------------- MODULE SessionAdmissionProofs -----------------------
(***************************************************************************)
(* Proofs about SessionAdmission for any sessions, requests, connections,  *)
(* renewals and revocations: its types, its inductive invariant, and the   *)
(* safety properties that follow from it.                                  *)
(***************************************************************************)
EXTENDS SessionAdmission, TLAPS

-----------------------------------------------------------------------------
(* The inductive invariant.                                                *)

\* A call looked at the clock and the generation before now.
Timely(c) == conn[c].seen <= generation /\ conn[c].now <= clock

\* A row read before its session was forgotten was read in an older generation.
Fresh(c) == conn[c].at = "install" /\ Forgotten(conn[c].session) => conn[c].seen < generation

\* A late call never has a row in hand.
Late(c) == conn[c].late => Forgotten(conn[c].session) /\ conn[c].at \notin {"install", "admitted"}

Steady(c) == conn[c].unbroken => RowLive(conn[c].session) /\ conn[c].at # "refused"

Open(c) == conn[c].place \in {"attached", "check", "stream", "watch"} /\ ~conn[c].closed

Held(c) == \E r \in Revocations : c \in revocation[r].closing

\* A revocation that looks for an open connection finds it, or another has it.
Found(c) == Open(c) => c \in registry \/ Held(c)

\* Once a revocation has taken what carries a session, an open connection of it
\* is another's, or has its check before it, or in a call that is late.
Taken(c) ==
    \A r \in Revocations :
        /\ revocation[r].at = "close"
        /\ conn[c].session \in revocation[r].ending \ revocation[r].left
        /\ Open(c)
        => \/ Held(c) \/ conn[c].place = "attached"
           \/ conn[c].place = "check" /\ conn[c].late

Sound(c) == Timely(c) /\ Fresh(c) /\ Late(c) /\ Steady(c) /\ Found(c) /\ Taken(c)

\* A revocation's rows stay revoked.
Ended ==
    \A r \in Revocations : \A s \in revocation[r].ending :
        rows[s].state \in {"revoked", "deleted"}

\* A forgotten session has no entry, and no renewal that would install one.
Dropped ==
    \A s \in Sessions : Forgotten(s) =>
        /\ live[s] = NoEntry
        /\ \A n \in Renewals : renewal[n].at = "remember" /\ renewal[n].session = s =>
              renewal[n].seen < generation

Renewing == \A n \in Renewals : renewal[n].seen <= generation

IInv == TypeOK /\ Ended /\ Dropped /\ Renewing /\ \A c \in Clients : Sound(c)

-----------------------------------------------------------------------------
(* Types.                                                                  *)

LEMMA Numbers ==
  /\ 0 \in Times /\ 0 \in 0 .. MaxClock /\ NoEntry \in Times /\ 0 .. MaxClock \subseteq Nat
  /\ \A t \in 0 .. MaxClock : t + Window \in Times
  /\ \A t \in Times : t \in Nat
  BY WindowAssumption DEF Times, NoEntry

LEMMA NoRequestType ==
  ASSUME NEW s \in Sessions
  PROVE  NoRequest(s) \in Requests
  BY Numbers DEF NoRequest, Requests

LEMMA NoRenewalType ==
  ASSUME NEW s \in Sessions
  PROVE  NoRenewal(s) \in RenewalCalls
  BY Numbers DEF NoRenewal, RenewalCalls

LEMMA TypeInit == Init => TypeOK
<1> SUFFICES ASSUME Init PROVE TypeOK
  OBVIOUS
<1>1. rows \in [Sessions -> Rows]
  <2>1. 0 .. Window \subseteq Times
    BY WindowAssumption DEF Times
  <2> QED BY <2>1, Numbers DEF Init, Rows
<1>2. conn \in [Clients -> Requests]
  BY NoRequestType DEF Init
<1>3. renewal \in [Renewals -> RenewalCalls]
  BY NoRenewalType DEF Init
<1>4. revocation \in [Revocations -> RevocationCalls]
  BY DEF Init, RevocationCalls
<1> QED BY <1>1, <1>2, <1>3, <1>4, Numbers DEF Init, TypeOK

LEMMA AnswerType ==
  ASSUME NEW call \in Requests, NEW at \in {"admitted", "refused", "unavailable"}
  PROVE  Answer(call, at) \in Requests
  BY Numbers DEF Answer, Requests

\* Whatever Live asks is a request.
LEMMA AskType ==
  ASSUME TypeOK, NEW c \in Clients, NEW s \in Sessions,
         NEW place \in {"upgrade", "check", "watch"}, Ask(c, s, place)
  PROVE  conn' \in [Clients -> Requests]
<1> DEFINE call == [place |-> place, at |-> "read", session |-> s, now |-> clock,
                    seen |-> generation, expires |-> NoEntry,
                    late |-> Forgotten(s), unbroken |-> RowLive(s), closed |-> conn[c].closed]
<1>1. Forgotten(s) \in BOOLEAN /\ RowLive(s) \in BOOLEAN /\ conn[c].closed \in BOOLEAN
  BY DEF TypeOK, Requests, Forgotten, RowLive, LiveIn
<1>2. call \in Requests
  BY <1>1, Numbers DEF TypeOK, Requests
<1>3. [call EXCEPT !.at = "drop", !.expires = live[s]] \in Requests
  BY <1>1, Numbers DEF TypeOK, Requests
<1>4. Answer(call, "admitted") \in Requests
  BY <1>2, AnswerType
<1> HIDE DEF call
<1>5. conn' = [conn EXCEPT ![c] =
                  IF Hit(s) THEN Answer(call, "admitted")
                  ELSE IF live[s] # NoEntry THEN [call EXCEPT !.at = "drop", !.expires = live[s]]
                  ELSE call]
  BY DEF Ask, call
<1> QED BY <1>2, <1>3, <1>4, <1>5 DEF TypeOK

LEMMA RecallType ==
  ASSUME TypeOK, NEW table, NEW standing, NEW now, Recall(table, standing, now)
  PROVE  conn' \in [Clients -> Requests]
<1>1. ASSUME NEW c \in Clients, NEW still \in BOOLEAN
      PROVE  [conn[c] EXCEPT !.unbroken = still] \in Requests
  BY DEF TypeOK, Requests
<1>2. \A c \in Clients :
         (conn[c].unbroken /\ LiveIn(table, standing, now, conn[c].session)) \in BOOLEAN
  OBVIOUS
<1> QED BY <1>1, <1>2 DEF Recall

\* The replacement of one request, and what a call is replaced with.
LEMMA EditType ==
  ASSUME TypeOK, NEW c \in Clients
  PROVE  /\ conn[c] \in Requests /\ conn[c].session \in Sessions
         /\ conn[c].now \in 0 .. MaxClock /\ conn[c].expires \in Times
         /\ [conn[c] EXCEPT !.at = "read", !.expires = NoEntry] \in Requests
         /\ [conn[c] EXCEPT !.at = "install", !.expires = rows[conn[c].session].expires] \in Requests
         /\ \A closed \in BOOLEAN : [conn[c] EXCEPT !.closed = closed] \in Requests
         /\ NoRequest(conn[c].session) \in Requests
         /\ \A place \in {"attached", "stream"} : Settled(c, place) \in Requests
         /\ [Settled(c, "stream") EXCEPT !.closed = TRUE] \in Requests
<1>1. conn[c] \in Requests
  BY DEF TypeOK
<1>2. conn[c].session \in Sessions /\ conn[c].now \in 0 .. MaxClock /\ conn[c].expires \in Times
  BY <1>1 DEF Requests
<1>3. rows[conn[c].session].expires \in Times
  BY <1>2 DEF TypeOK, Rows
<1>4. [conn[c] EXCEPT !.at = "read", !.expires = NoEntry] \in Requests
  BY <1>1, Numbers DEF Requests
<1>5. [conn[c] EXCEPT !.at = "install", !.expires = rows[conn[c].session].expires] \in Requests
  BY <1>1, <1>3 DEF Requests
<1>6. \A closed \in BOOLEAN : [conn[c] EXCEPT !.closed = closed] \in Requests
  BY <1>1 DEF Requests
<1>7. NoRequest(conn[c].session) \in Requests
  BY <1>2, NoRequestType
<1>8. conn[c].closed \in BOOLEAN
  BY <1>1 DEF Requests
<1>9. \A place \in {"attached", "stream"} : Settled(c, place) \in Requests
  BY <1>2, <1>8, Numbers DEF Settled, NoRequest, Requests
<1>10. [Settled(c, "stream") EXCEPT !.closed = TRUE] \in Requests
  BY <1>2, <1>8, Numbers DEF Settled, NoRequest, Requests
<1> QED BY <1>1, <1>2, <1>4, <1>5, <1>6, <1>7, <1>9, <1>10

LEMMA TypeServe ==
  ASSUME TypeOK, NEW c \in Clients, Serve(c)
  PROVE  TypeOK'
<1>1. CASE Drop(c)
  BY <1>1, EditType, Numbers DEF TypeOK, Drop
<1>2. CASE Read(c)
  <2>1. /\ Answer(conn[c], "refused") \in Requests
        /\ Answer(conn[c], "unavailable") \in Requests
    BY EditType, AnswerType
  <2>2. conn' \in [Clients -> Requests]
    <3>1. \/ conn' = [conn EXCEPT ![c].at = "install",
                                  ![c].expires = rows[conn[c].session].expires]
          \/ conn' = [conn EXCEPT ![c] = Answer(@, "refused")]
          \/ conn' = [conn EXCEPT ![c] = Answer(@, "unavailable")]
      BY <1>2 DEF Read
    <3>2. CASE conn' = [conn EXCEPT ![c].at = "install",
                                    ![c].expires = rows[conn[c].session].expires]
      <4>1. conn' = [conn EXCEPT ![c] =
                        [conn[c] EXCEPT !.at = "install",
                                        !.expires = rows[conn[c].session].expires]]
        BY <3>2
      <4> QED BY <4>1, EditType DEF TypeOK
    <3> QED BY <2>1, <3>1, <3>2 DEF TypeOK
  <2> QED BY <1>2, <2>2 DEF TypeOK, Read
<1>3. CASE Install(c)
  <2>1. Answer(conn[c], "admitted") \in Requests
    BY EditType, AnswerType
  <2>2. live \in [Sessions -> Times] /\ Swept(conn[c].now) \in [Sessions -> Times]
    BY Numbers DEF TypeOK, Swept
  <2>3. live' \in [Sessions -> Times]
    BY <1>3, <2>2, EditType DEF Install
  <2> QED BY <1>3, <2>1, <2>3 DEF TypeOK, Install
<1>4. CASE Recheck(c)
  <2>1. conn' \in [Clients -> Requests]
    BY <1>4, EditType, AskType DEF Recheck
  <2> QED BY <1>4, <2>1 DEF TypeOK, Recheck, ConnOnly
<1>5. CASE Watch(c)
  <2>1. conn' \in [Clients -> Requests]
    BY <1>5, EditType, AskType DEF Watch
  <2> QED BY <1>5, <2>1 DEF TypeOK, Watch, ConnOnly
<1>6. CASE Stream(c)
  BY <1>6, EditType DEF TypeOK, Stream, ConnOnly
<1>7. CASE End(c)
  BY <1>7, EditType DEF TypeOK, End, ConnOnly
<1> QED BY <1>1, <1>2, <1>3, <1>4, <1>5, <1>6, <1>7 DEF Serve

LEMMA TypeArrive ==
  ASSUME TypeOK, NEW c \in Clients, Arrive(c)
  PROVE  TypeOK'
<1>1. ASSUME NEW s \in Sessions, Present(c, s)
      PROVE  TypeOK'
  <2>1. conn' \in [Clients -> Requests]
    BY <1>1, AskType DEF Present
  <2> QED BY <1>1, <2>1 DEF TypeOK, Present, ConnOnly
<1>2. CASE Attach(c)
  BY <1>2, EditType DEF TypeOK, Attach
<1>3. CASE Leave(c)
  BY <1>3, EditType DEF TypeOK, Leave, ConnOnly
<1>4. CASE Detach(c)
  BY <1>4, EditType DEF TypeOK, Detach
<1> QED BY <1>1, <1>2, <1>3, <1>4 DEF Arrive

LEMMA TypeRenew ==
  ASSUME TypeOK, NEW n \in Renewals, Renew(n)
  PROVE  TypeOK'
<1>0. /\ renewal[n] \in RenewalCalls /\ renewal[n].session \in Sessions
      /\ renewal[n].expires \in Times /\ NoRenewal(renewal[n].session) \in RenewalCalls
  BY NoRenewalType DEF TypeOK, RenewalCalls
<1>1. ASSUME NEW s \in Sessions, Capture(n, s)
      PROVE  TypeOK'
  <2>1. [at |-> "rotate", session |-> s, seen |-> generation, expires |-> clock + Window]
           \in RenewalCalls
    BY Numbers DEF TypeOK, RenewalCalls
  <2> QED BY <1>1, <2>1 DEF TypeOK, Capture
<1>2. CASE Rotate(n)
  <2> DEFINE s == renewal[n].session
             longer == IF rows[s].expires < renewal[n].expires
                       THEN renewal[n].expires ELSE rows[s].expires
  <2>1. rows[s] \in Rows /\ rows[s].expires \in Times
    BY <1>0 DEF TypeOK, Rows
  <2>2. longer \in Times
    BY <1>0, <2>1
  <2>3. [rows[s] EXCEPT !.expires = longer] \in Rows
    BY <2>1, <2>2 DEF Rows
  <2>4. [renewal[n] EXCEPT !.at = "remember", !.expires = longer] \in RenewalCalls
    BY <1>0, <2>2 DEF RenewalCalls
  <2> HIDE DEF longer
  <2>5. \/ /\ rows' = [rows EXCEPT ![s] = [rows[s] EXCEPT !.expires = longer]]
           /\ renewal' = [renewal EXCEPT ![n] =
                             [renewal[n] EXCEPT !.at = "remember", !.expires = longer]]
        \/ rows' = rows /\ renewal' = [renewal EXCEPT ![n] = NoRenewal(s)]
    BY <1>2 DEF Rotate, longer
  <2>6. rows' \in [Sessions -> Rows] /\ renewal' \in [Renewals -> RenewalCalls]
    BY <1>0, <2>3, <2>4, <2>5 DEF TypeOK
  <2> QED BY <1>2, <2>6 DEF TypeOK, Rotate
<1>3. CASE Remember(n)
  BY <1>0, <1>3 DEF TypeOK, Remember
<1> QED BY <1>1, <1>2, <1>3 DEF Renew

LEMMA TypeRevoke ==
  ASSUME TypeOK, NEW r \in Revocations, Revoke(r)
  PROVE  TypeOK'
<1>0. revocation[r] \in RevocationCalls
  BY DEF TypeOK
<1>1. ASSUME NEW ending \in SUBSET Sessions,
             NEW standing \in {"admitted", "revoked", "forgotten"},
             Ends(r, ending, standing)
      PROVE  TypeOK'
  <2>1. conn' \in [Clients -> Requests]
    BY <1>1, RecallType DEF Ends
  <2>2. [revocation[r] EXCEPT !.at = "forget", !.ending = ending] \in RevocationCalls
    BY <1>0 DEF RevocationCalls
  <2>3. revocation' = [revocation EXCEPT ![r] =
                          [revocation[r] EXCEPT !.at = "forget", !.ending = ending]]
    BY <1>1 DEF Ends
  <2>4. ASSUME NEW s \in Sessions PROVE [rows[s] EXCEPT !.state = "revoked"] \in Rows
    BY DEF TypeOK, Rows
  <2>5. rows' \in [Sessions -> Rows]
    BY <1>1, <2>4 DEF TypeOK, Ends
  <2> QED BY <1>1, <2>1, <2>2, <2>3, <2>5 DEF TypeOK, Ends
<1>2. ASSUME NEW s \in Sessions, RevokeSession(r, s)
      PROVE  TypeOK'
  BY <1>1, <1>2 DEF RevokeSession, TypeOK
<1>3. CASE RevokeDevice(r)
  BY <1>1, <1>3 DEF RevokeDevice, TypeOK
<1> QED BY <1>2, <1>3 DEF Revoke

LEMMA TypeProceed ==
  ASSUME TypeOK, NEW r \in Revocations, Proceed(r)
  PROVE  TypeOK'
<1>0. revocation[r] \in RevocationCalls
  BY DEF TypeOK
<1>1. CASE Forget(r)
  <2>1. [revocation[r] EXCEPT !.at = "close", !.left = revocation[r].ending] \in RevocationCalls
    BY <1>0 DEF RevocationCalls
  <2>2. revocation' = [revocation EXCEPT ![r] =
                          [revocation[r] EXCEPT !.at = "close", !.left = revocation[r].ending]]
    BY <1>1 DEF Forget
  <2>3. live' \in [Sessions -> Times]
    BY <1>1, Numbers DEF TypeOK, Forget
  <2> QED BY <1>1, <2>1, <2>2, <2>3 DEF TypeOK, Forget
<1>2. ASSUME NEW s \in Sessions, Take(r, s)
      PROVE  TypeOK'
  <2>1. [revocation[r] EXCEPT !.left = @ \ {s}, !.closing = {c \in registry : conn[c].session = s}]
           \in RevocationCalls
    BY <1>0 DEF TypeOK, RevocationCalls
  <2>2. revocation' = [revocation EXCEPT ![r] =
           [revocation[r] EXCEPT !.left = @ \ {s},
                                 !.closing = {c \in registry : conn[c].session = s}]]
    BY <1>2 DEF Take
  <2> QED BY <1>2, <2>1, <2>2 DEF TypeOK, Take
<1>3. ASSUME NEW c \in Conns, Close(r, c)
      PROVE  TypeOK'
  <2>1. [revocation[r] EXCEPT !.closing = @ \ {c}] \in RevocationCalls
    BY <1>0 DEF RevocationCalls
  <2>2. revocation' = [revocation EXCEPT ![r] = [revocation[r] EXCEPT !.closing = @ \ {c}]]
    BY <1>3 DEF Close
  <2>3. conn' = [conn EXCEPT ![c] = [conn[c] EXCEPT !.closed = (conn[c].place # "none")]]
    BY <1>3 DEF Close
  <2>4. c \in Clients /\ (conn[c].place # "none") \in BOOLEAN
    BY DEF Clients
  <2>5. conn' \in [Clients -> Requests]
    BY <2>3, <2>4, EditType DEF TypeOK
  <2> QED BY <1>3, <2>1, <2>2, <2>5 DEF TypeOK, Close
<1> QED BY <1>1, <1>2, <1>3 DEF Proceed

LEMMA TypeOwn ==
  ASSUME TypeOK, Own
  PROVE  TypeOK'
<1>0. \A s \in Sessions : rows[s] \in Rows
  BY DEF TypeOK
<1>1. \A s \in Sessions : [rows[s] EXCEPT !.state = "deleted"] \in Rows
  BY <1>0 DEF Rows
<1>2. \A state \in Unrevoked : [state |-> state, expires |-> clock + Window] \in Rows
  BY Numbers DEF TypeOK, Unrevoked, Rows
<1>3. "confirmed" \in Unrevoked
  BY DEF Unrevoked
<1>4. ASSUME NEW s \in Sessions, Mint(s) \/ ActivateSession(s) \/ Prune(s)
      PROVE  TypeOK'
  <2>1. CASE Mint(s)
    BY <1>2, <2>1 DEF TypeOK, Mint, Only
  <2>2. CASE ActivateSession(s)
    BY <1>2, <1>3, <2>2 DEF TypeOK, ActivateSession, Only
  <2>3. CASE Prune(s)
    <3>1. rows' = [rows EXCEPT ![s] = [rows[s] EXCEPT !.state = "deleted"]]
      BY <2>3 DEF Prune, Only
    <3> QED BY <1>1, <2>3, <3>1 DEF TypeOK, Prune, Only
  <2> QED BY <1>4, <2>1, <2>2, <2>3
<1>5. CASE RestoreDevice
  BY <1>5 DEF TypeOK, RestoreDevice, Only
<1>6. CASE ForgetDevice
  BY <1>0, <1>1, <1>6 DEF TypeOK, ForgetDevice, Only
<1> QED BY <1>4, <1>5, <1>6 DEF Own

LEMMA TypeNext ==
  ASSUME TypeOK, [Next]_vars
  PROVE  TypeOK'
<1>1. CASE Tick
  <2>1. conn' \in [Clients -> Requests]
    BY <1>1, RecallType DEF Tick
  <2> QED BY <1>1, <2>1, WindowAssumption DEF TypeOK, Tick
<1>2. CASE UNCHANGED vars
  BY <1>2 DEF vars, TypeOK
<1> QED BY <1>1, <1>2, TypeServe, TypeArrive, TypeRenew, TypeRevoke, TypeProceed, TypeOwn DEF Next

-----------------------------------------------------------------------------
(* One request, or its answer, changes.                                    *)

LEMMA ConnStep ==
  ASSUME IInv, NEW c \in Clients, conn \in [Clients -> Requests],
         \A d \in Clients \ {c} : conn'[d] = conn[d] /\ (d \in registry => d \in registry'),
         UNCHANGED <<clock, device, rows, generation, renewal, revocation>>,
         \A s \in Sessions : Forgotten(s) => live'[s] = live[s] \/ live'[s] = NoEntry,
         Sound(c)'
  PROVE  Ended' /\ Dropped' /\ Renewing' /\ \A d \in Clients : Sound(d)'
<1>1. Ended'
  BY DEF IInv, Ended
<1>2. Dropped'
  BY DEF IInv, Dropped, Forgotten
<1>3. Renewing'
  BY DEF IInv, Renewing
<1>4. ASSUME NEW d \in Clients, d # c
      PROVE  Sound(d)'
  <2>1. Sound(d) /\ conn'[d] = conn[d] /\ (d \in registry => d \in registry')
    BY <1>4 DEF IInv
  <2>2. Timely(d)' /\ Fresh(d)' /\ Late(d)' /\ Steady(d)'
    BY <2>1 DEF Sound, Timely, Fresh, Late, Steady, Forgotten, RowLive
  <2>3. Found(d)'
    BY <2>1 DEF Sound, Found, Open, Held
  <2>4. Taken(d)'
    BY <2>1 DEF Sound, Taken, Open, Held
  <2> QED BY <2>2, <2>3, <2>4 DEF Sound
<1> QED BY <1>1, <1>2, <1>3, <1>4

\* A call that begins, on an open connection or none.
LEMMA AskStep ==
  ASSUME IInv, NEW c \in Clients, NEW s \in Sessions,
         NEW place \in {"upgrade", "check", "watch"}, Ask(c, s, place), ConnOnly,
         \/ place = "upgrade"
         \/ /\ s = conn[c].session
            /\ \/ place = "check" /\ conn[c].place = "attached"
               \/ place = "watch" /\ conn[c].place = "stream"
  PROVE  IInv'
<1> DEFINE call == [place |-> place, at |-> "read", session |-> s, now |-> clock,
                    seen |-> generation, expires |-> NoEntry,
                    late |-> Forgotten(s), unbroken |-> RowLive(s), closed |-> conn[c].closed]
           dropping == [call EXCEPT !.at = "drop", !.expires = live[s]]
           hit == Answer(call, "admitted")
<1>1. conn' = [conn EXCEPT ![c] = IF Hit(s) THEN hit
                                  ELSE IF live[s] # NoEntry THEN dropping ELSE call]
  BY DEF Ask
<1>2. TypeOK'
  BY AskType DEF IInv, TypeOK, ConnOnly
<1>3. /\ conn \in [Clients -> Requests] /\ clock \in 0 .. MaxClock /\ clock \in Nat
      /\ generation \in Nat /\ 0 <= generation /\ 0 <= clock
  BY Numbers DEF IInv, TypeOK
<1>4. /\ conn'[c].place = place /\ conn'[c].session = s
      /\ conn'[c].late = Forgotten(s) /\ conn'[c].unbroken = RowLive(s)
      /\ conn'[c].closed = conn[c].closed
      /\ conn'[c].seen \in {generation, 0} /\ conn'[c].now \in {clock, 0}
      /\ conn'[c].at \in {"read", "drop", "admitted"}
      /\ conn'[c].at = "admitted" => Hit(s)
  BY <1>1, <1>3 DEF Answer
<1> HIDE DEF call, dropping, hit
<1>5. Hit(s) => ~Forgotten(s)
  BY <1>3 DEF IInv, Dropped, Hit, NoEntry
<1>6. /\ Timely(c)' /\ Fresh(c)'
  BY <1>3, <1>4 DEF Timely, Fresh, ConnOnly
<1>7. Late(c)'
  BY <1>4, <1>5 DEF Late, ConnOnly, Forgotten
<1>8. Steady(c)'
  BY <1>4 DEF Steady, ConnOnly, RowLive
<1>9. Open(c)' => Open(c) /\ place # "upgrade"
  BY <1>4 DEF Open
<1>10. Held(c)' = Held(c)
  BY DEF Held, ConnOnly
<1>11. Found(c)'
  BY <1>9, <1>10 DEF IInv, Sound, Found, ConnOnly
<1>12. Taken(c)'
  <2> SUFFICES ASSUME NEW r \in Revocations, revocation[r].at = "close",
                      s \in revocation[r].ending \ revocation[r].left, Open(c)'
               PROVE  Held(c) \/ (place = "check" /\ Forgotten(s))
    BY <1>4, <1>10 DEF Taken, ConnOnly
  <2>1. CASE place = "check"
    BY <2>1 DEF Forgotten
  <2>2. CASE place = "watch"
    <3>1. conn[c].place = "stream" /\ s = conn[c].session
      BY <2>2
    <3>2. Open(c) /\ Taken(c)
      BY <1>9 DEF IInv, Sound
    <3> QED BY <3>1, <3>2 DEF Taken
  <2> QED BY <1>9, <2>1, <2>2
<1>13. Sound(c)'
  BY <1>6, <1>7, <1>8, <1>11, <1>12 DEF Sound
<1> QED BY <1>1, <1>2, <1>3, <1>13, ConnStep DEF IInv, ConnOnly

LEMMA ServeStep ==
  ASSUME IInv, NEW c \in Clients, Serve(c)
  PROVE  IInv'
<1>0. /\ TypeOK' /\ TypeOK /\ Sound(c) /\ conn[c].session \in Sessions
      /\ conn \in [Clients -> Requests] /\ generation \in Nat /\ clock \in Nat
      /\ conn[c].seen \in Nat /\ conn[c].now \in Nat
  BY TypeServe, Numbers DEF IInv, TypeOK, Requests
<1>1. CASE Recheck(c)
  BY <1>0, <1>1, AskStep DEF Recheck
<1>2. CASE Watch(c)
  BY <1>0, <1>2, AskStep DEF Watch
<1>3. ASSUME NEW answer \in {"admitted", "refused", "unavailable"},
             conn' = [conn EXCEPT ![c] = Answer(@, answer)],
             UNCHANGED <<clock, device, rows, generation, registry, renewal, revocation>>,
             answer = "admitted" => ~conn[c].late,
             answer = "refused" => ~conn[c].unbroken
      PROVE  Sound(c)'
  <2>1. /\ conn'[c].place = conn[c].place /\ conn'[c].session = conn[c].session
        /\ conn'[c].late = conn[c].late /\ conn'[c].unbroken = conn[c].unbroken
        /\ conn'[c].closed = conn[c].closed /\ conn'[c].seen = 0 /\ conn'[c].now = 0
        /\ conn'[c].at = answer
    BY <1>0, <1>3 DEF Answer, Requests
  <2>2. Timely(c)' /\ Fresh(c)' /\ Late(c)' /\ Steady(c)'
    BY <1>0, <1>3, <2>1 DEF Sound, Timely, Fresh, Late, Steady, Forgotten, RowLive
  <2>3. Found(c)' /\ Taken(c)'
    BY <1>0, <1>3, <2>1 DEF Sound, Found, Taken, Open, Held
  <2> QED BY <2>2, <2>3 DEF Sound
<1>4. CASE Drop(c)
  <2>1. conn' = [conn EXCEPT ![c] = [conn[c] EXCEPT !.at = "read", !.expires = NoEntry]]
    BY <1>4 DEF Drop
  <2>2. /\ conn'[c].place = conn[c].place /\ conn'[c].session = conn[c].session
        /\ conn'[c].late = conn[c].late /\ conn'[c].unbroken = conn[c].unbroken
        /\ conn'[c].closed = conn[c].closed /\ conn'[c].seen = conn[c].seen
        /\ conn'[c].now = conn[c].now /\ conn'[c].at = "read"
    BY <1>0, <2>1 DEF Requests
  <2>3. Timely(c)' /\ Fresh(c)' /\ Late(c)' /\ Steady(c)'
    BY <1>0, <1>4, <2>2 DEF Drop, Sound, Timely, Fresh, Late, Steady, Forgotten, RowLive
  <2>4. Found(c)' /\ Taken(c)'
    BY <1>0, <1>4, <2>2 DEF Drop, Sound, Found, Taken, Open, Held
  <2>5. \A s \in Sessions : live'[s] = live[s] \/ live'[s] = NoEntry
    BY <1>0, <1>4 DEF Drop, TypeOK
  <2> QED BY <1>0, <1>4, <2>1, <2>3, <2>4, <2>5, ConnStep DEF IInv, Drop, Sound
<1>5. CASE Read(c)
  <2> DEFINE row == rows[conn[c].session]
  <2>1. LiveIn(rows, device, conn[c].now, conn[c].session) => ~Forgotten(conn[c].session)
    BY <1>0 DEF LiveIn, Forgotten, IInv, Ended
  <2>2. conn[c].unbroken => LiveIn(rows, device, conn[c].now, conn[c].session)
    <3>1. row.expires \in Nat
      BY <1>0, Numbers DEF TypeOK, Rows
    <3> QED BY <1>0, <3>1 DEF Sound, Steady, Timely, RowLive, LiveIn
  <2>3. Sound(c)'
    <3>1. CASE /\ LiveIn(rows, device, conn[c].now, conn[c].session)
               /\ conn' = [conn EXCEPT ![c].at = "install", ![c].expires = row.expires]
      <4>1. conn' = [conn EXCEPT ![c] = [conn[c] EXCEPT !.at = "install", !.expires = row.expires]]
        BY <3>1
      <4>2. /\ conn'[c].place = conn[c].place /\ conn'[c].session = conn[c].session
            /\ conn'[c].late = conn[c].late /\ conn'[c].unbroken = conn[c].unbroken
            /\ conn'[c].closed = conn[c].closed /\ conn'[c].seen = conn[c].seen
            /\ conn'[c].now = conn[c].now /\ conn'[c].at = "install"
        BY <1>0, <4>1 DEF Requests
      <4>3. Timely(c)' /\ Fresh(c)' /\ Late(c)' /\ Steady(c)'
        BY <1>0, <1>5, <2>1, <3>1, <4>2
           DEF Read, Sound, Timely, Fresh, Late, Steady, Forgotten, RowLive
      <4>4. Found(c)' /\ Taken(c)'
        BY <1>0, <1>5, <4>2 DEF Read, Sound, Found, Taken, Open, Held
      <4> QED BY <4>3, <4>4 DEF Sound
    <3>2. CASE /\ ~LiveIn(rows, device, conn[c].now, conn[c].session)
               /\ conn' = [conn EXCEPT ![c] = Answer(@, "refused")]
      BY <1>3, <1>5, <2>2, <3>2 DEF Read
    <3>3. CASE conn' = [conn EXCEPT ![c] = Answer(@, "unavailable")]
      BY <1>3, <1>5, <3>3 DEF Read
    <3> QED BY <1>5, <3>1, <3>2, <3>3 DEF Read
  <2>4. \A d \in Clients \ {c} : conn'[d] = conn[d]
    BY <1>0, <1>5 DEF Read
  <2> QED BY <1>0, <1>5, <2>3, <2>4, ConnStep DEF IInv, Read
<1>6. CASE Install(c)
  <2>1. Sound(c)'
    BY <1>0, <1>3, <1>6 DEF Install, Sound, Late
  <2>2. ASSUME NEW s \in Sessions, Forgotten(s)
        PROVE  live'[s] = live[s] \/ live'[s] = NoEntry
    <3>1. CASE s = conn[c].session
      BY <1>0, <1>6, <2>2, <3>1 DEF Install, Sound, Fresh
    <3>2. CASE s # conn[c].session
      <4>1. Swept(conn[c].now)[s] \in {live[s], NoEntry}
        BY DEF Swept
      <4>2. live \in [Sessions -> Times] /\ Swept(conn[c].now) \in [Sessions -> Times]
        BY <1>0, Numbers DEF TypeOK, Swept
      <4> QED BY <1>6, <3>2, <4>1, <4>2 DEF Install
    <3> QED BY <3>1, <3>2
  <2> QED BY <1>0, <1>6, <2>1, <2>2, ConnStep DEF IInv, Install
<1>7. ASSUME NEW closed \in BOOLEAN, conn[c].closed => closed,
             conn' = [conn EXCEPT ![c] = [NoRequest(conn[c].session) EXCEPT
                                             !.place = "stream", !.closed = closed]],
             ConnOnly, conn[c].place \in {"check", "watch"},
             closed \/ conn[c].at = "admitted"
      PROVE  IInv'
  <2>1. /\ conn'[c].place = "stream" /\ conn'[c].session = conn[c].session
        /\ conn'[c].late = FALSE /\ conn'[c].unbroken = FALSE /\ conn'[c].closed = closed
        /\ conn'[c].seen = 0 /\ conn'[c].now = 0 /\ conn'[c].at = "refused"
    BY <1>0, <1>7 DEF NoRequest
  <2>2. Timely(c)' /\ Fresh(c)' /\ Late(c)' /\ Steady(c)'
    BY <1>0, <1>7, <2>1 DEF ConnOnly, Timely, Fresh, Late, Steady
  <2>3. Found(c)' /\ Taken(c)'
    BY <1>0, <1>7, <2>1 DEF ConnOnly, Sound, Late, Found, Taken, Open, Held
  <2>4. Sound(c)'
    BY <2>2, <2>3 DEF Sound
  <2> QED BY <1>0, <1>7, <2>4, ConnStep DEF IInv, ConnOnly
<1>8. CASE Stream(c)
  <2>1. conn[c].closed \in BOOLEAN
    BY <1>0 DEF Requests
  <2> QED BY <1>7, <1>8, <2>1 DEF Stream, Settled
<1>9. CASE End(c)
  <2>1. [Settled(c, "stream") EXCEPT !.closed = TRUE] =
           [NoRequest(conn[c].session) EXCEPT !.place = "stream", !.closed = TRUE]
    BY DEF Settled, NoRequest
  <2> QED BY <1>7, <1>9, <2>1 DEF End
<1> QED BY <1>1, <1>2, <1>4, <1>5, <1>6, <1>8, <1>9 DEF Serve

LEMMA ArriveStep ==
  ASSUME IInv, NEW c \in Clients, Arrive(c)
  PROVE  IInv'
<1>0. /\ TypeOK' /\ Sound(c) /\ conn[c].session \in Sessions
      /\ conn \in [Clients -> Requests] /\ generation \in Nat /\ clock \in Nat
  BY TypeArrive, Numbers DEF IInv, TypeOK, Requests
<1>1. ASSUME NEW s \in Sessions, Present(c, s)
      PROVE  IInv'
  BY <1>1, AskStep DEF Present
<1>2. CASE Attach(c)
  <2>1. /\ conn'[c].place = "attached" /\ conn'[c].session = conn[c].session
        /\ conn'[c].late = FALSE /\ conn'[c].unbroken = FALSE
        /\ conn'[c].seen = 0 /\ conn'[c].now = 0 /\ conn'[c].at = "refused"
    BY <1>0, <1>2 DEF Attach, Settled, NoRequest
  <2>2. Timely(c)' /\ Fresh(c)' /\ Late(c)' /\ Steady(c)'
    BY <1>0, <1>2, <2>1 DEF Attach, Timely, Fresh, Late, Steady
  <2>3. Found(c)' /\ Taken(c)'
    BY <1>2, <2>1 DEF Attach, Found, Taken
  <2> QED BY <1>0, <1>2, <2>2, <2>3, ConnStep DEF IInv, Attach, Sound
<1>3. CASE Leave(c) \/ Detach(c)
  <2>1. /\ conn'[c].place = "none"
        /\ conn'[c].late = FALSE /\ conn'[c].unbroken = FALSE
        /\ conn'[c].seen = 0 /\ conn'[c].now = 0 /\ conn'[c].at = "refused"
    BY <1>0, <1>3 DEF Leave, Detach, NoRequest
  <2>2. UNCHANGED <<clock, device, rows, live, generation, renewal, revocation>>
    BY <1>3 DEF Leave, Detach, ConnOnly
  <2>3. Timely(c)' /\ Fresh(c)' /\ Late(c)' /\ Steady(c)'
    BY <1>0, <2>1, <2>2 DEF Timely, Fresh, Late, Steady
  <2>4. Found(c)' /\ Taken(c)'
    BY <2>1 DEF Found, Taken, Open
  <2>5. \A d \in Clients \ {c} : conn'[d] = conn[d] /\ (d \in registry => d \in registry')
    BY <1>0, <1>3 DEF Leave, Detach, ConnOnly
  <2> QED BY <1>0, <2>2, <2>3, <2>4, <2>5, ConnStep DEF IInv, Sound
<1> QED BY <1>1, <1>2, <1>3 DEF Arrive

-----------------------------------------------------------------------------
(* Steps that no request takes.                                            *)

\* The rows change under the calls, which know of it.
LEMMA RowStep ==
  ASSUME IInv, TypeOK',
         UNCHANGED <<live, generation, registry, renewal>>,
         \A r \in Revocations :
             /\ revocation'[r].closing = revocation[r].closing
             /\ revocation'[r].at = "close" => revocation'[r] = revocation[r]
             /\ revocation[r].at = "close" => revocation'[r] = revocation[r],
         Ended', clock <= clock',
         \A c \in Clients :
             /\ conn'[c].place = conn[c].place /\ conn'[c].session = conn[c].session
             /\ conn'[c].late = conn[c].late /\ conn'[c].closed = conn[c].closed
             /\ conn'[c].seen = conn[c].seen /\ conn'[c].now = conn[c].now
             /\ conn'[c].at = conn[c].at
             /\ conn'[c].unbroken => conn[c].unbroken /\ RowLive(conn[c].session)'
  PROVE  IInv'
<1>1. \A s \in Sessions : Forgotten(s)' = Forgotten(s)
  BY DEF Forgotten
<1>2. Dropped' /\ Renewing'
  BY <1>1 DEF IInv, Dropped, Renewing
<1>3. ASSUME NEW c \in Clients
      PROVE  Sound(c)'
  <2>0. /\ conn[c].session \in Sessions /\ conn[c].now \in Nat
        /\ clock \in Nat /\ clock' \in Nat
    BY Numbers DEF IInv, TypeOK, Requests
  <2>1. /\ Sound(c) /\ conn'[c].session = conn[c].session
        /\ Forgotten(conn[c].session)' = Forgotten(conn[c].session)
    BY <1>1, <2>0 DEF IInv, Forgotten
  <2>2. Timely(c)'
    BY <2>0, <2>1 DEF Sound, Timely
  <2>3. Fresh(c)'
    BY <2>1 DEF Sound, Fresh, Forgotten
  <2>4. Late(c)'
    BY <2>1 DEF Sound, Late, Forgotten
  <2>5. Steady(c)'
    BY <2>1 DEF Sound, Steady, RowLive
  <2>6. Found(c)' /\ Taken(c)'
    BY <2>1 DEF Sound, Found, Taken, Open, Held
  <2> QED BY <2>2, <2>3, <2>4, <2>5, <2>6 DEF Sound
<1> QED BY <1>2, <1>3 DEF IInv

LEMMA RevokeStep ==
  ASSUME IInv, NEW r \in Revocations, Revoke(r)
  PROVE  IInv'
<1>0. TypeOK /\ TypeOK'
  BY TypeRevoke DEF IInv
<1>1. ASSUME NEW ending \in SUBSET Sessions, NEW standing,
             \A s \in ending : rows[s].state # "unborn",
             Ends(r, ending, standing)
      PROVE  IInv'
  <2>1. /\ revocation' = [revocation EXCEPT ![r] =
                             [revocation[r] EXCEPT !.at = "forget", !.ending = ending]]
        /\ revocation[r].at = "ready" /\ revocation \in [Revocations -> RevocationCalls]
    BY <1>0, <1>1 DEF Ends, TypeOK
  <2>2. /\ revocation'[r].at = "forget" /\ revocation'[r].ending = ending
        /\ revocation'[r].closing = revocation[r].closing
        /\ \A q \in Revocations \ {r} : revocation'[q] = revocation[q]
    BY <2>1 DEF RevocationCalls
  <2>3. ASSUME NEW s \in Sessions
        PROVE  /\ s \in ending => rows'[s].state \in {"revoked", "deleted"}
               /\ rows[s].state \in {"revoked", "deleted"} => rows'[s] = rows[s]
    <3>1. rows[s] \in Rows
      BY <1>0 DEF TypeOK
    <3>2. rows'[s] = IF s \in ending /\ rows[s].state \in Unrevoked
                     THEN [rows[s] EXCEPT !.state = "revoked"] ELSE rows[s]
      BY <1>1 DEF Ends
    <3> QED BY <1>1, <3>1, <3>2 DEF Rows, Unrevoked
  <2>4. ASSUME NEW q \in Revocations, NEW s \in revocation'[q].ending
        PROVE  rows'[s].state \in {"revoked", "deleted"}
    <3>1. s \in Sessions
      BY <1>0 DEF TypeOK, RevocationCalls
    <3> QED BY <2>2, <2>3, <3>1 DEF IInv, Ended
  <2>5. Ended'
    BY <2>4 DEF Ended
  <2>6. ASSUME NEW c \in Clients
        PROVE  /\ conn'[c].place = conn[c].place /\ conn'[c].session = conn[c].session
               /\ conn'[c].late = conn[c].late /\ conn'[c].closed = conn[c].closed
               /\ conn'[c].seen = conn[c].seen /\ conn'[c].now = conn[c].now
               /\ conn'[c].at = conn[c].at
               /\ conn'[c].unbroken => conn[c].unbroken /\ RowLive(conn[c].session)'
    <3>1. conn[c] \in Requests
      BY <1>0 DEF TypeOK
    <3>2. conn'[c] = [conn[c] EXCEPT !.unbroken =
                         @ /\ LiveIn(rows', device', clock, conn[c].session)]
      BY <1>1 DEF Ends, Recall
    <3> QED BY <1>1, <3>1, <3>2 DEF Requests, RowLive, LiveIn, Ends
  <2>7. clock \in Nat /\ clock' = clock
    BY <1>0, <1>1, Numbers DEF TypeOK, Ends
  <2> QED BY <1>0, <1>1, <2>1, <2>2, <2>5, <2>6, <2>7, RowStep DEF Ends
<1>2. ASSUME NEW s \in Sessions, RevokeSession(r, s)
      PROVE  IInv'
  BY <1>1, <1>2 DEF RevokeSession
<1>3. CASE RevokeDevice(r)
  BY <1>1, <1>3 DEF RevokeDevice, Unrevoked
<1> QED BY <1>2, <1>3 DEF Revoke

LEMMA OwnStep ==
  ASSUME IInv, Own
  PROVE  IInv'
<1>0. TypeOK /\ TypeOK'
  BY TypeOwn DEF IInv
<1>1. UNCHANGED <<clock, live, generation, conn, registry, renewal, revocation>>
  BY DEF Own, Mint, ActivateSession, Prune, RestoreDevice, ForgetDevice, Only
<1> DEFINE Kept(s) ==
        /\ rows[s].state \in {"revoked", "deleted"} => rows'[s].state \in {"revoked", "deleted"}
        /\ RowLive(s) => RowLive(s)'
<1>2. ASSUME NEW s \in Sessions
      PROVE  Kept(s)
  <2>1. /\ \A t \in Sessions : rows[t] \in Rows
        /\ rows \in [Sessions -> Rows] /\ clock \in Nat /\ rows[s].expires \in Nat
    BY <1>0, Numbers DEF TypeOK, Rows
  <2>2. ASSUME NEW t \in Sessions, Mint(t)
        PROVE  Kept(s)
    BY <1>1, <2>1, <2>2 DEF Mint, Only, RowLive, LiveIn
  <2>3. ASSUME NEW t \in Sessions, ActivateSession(t)
        PROVE  Kept(s)
    BY <1>1, <2>1, <2>3 DEF ActivateSession, Only, RowLive, LiveIn
  <2>4. ASSUME NEW t \in Sessions, Prune(t)
        PROVE  Kept(s)
    <3>1. rows' = [rows EXCEPT ![t] = [rows[t] EXCEPT !.state = "deleted"]]
      BY <2>4 DEF Prune, Only
    <3>2. rows'[t].state = "deleted"
      BY <2>1, <3>1 DEF Rows
    <3>3. s # t => rows'[s] = rows[s]
      BY <2>1, <3>1
    <3> QED BY <1>1, <2>1, <2>4, <3>2, <3>3 DEF Prune, RowLive, LiveIn
  <2>5. CASE RestoreDevice
    BY <1>1, <2>5 DEF RestoreDevice, Only, RowLive, LiveIn
  <2>6. CASE ForgetDevice
    <3>1. rows'[s] = IF rows[s].state = "unborn" THEN rows[s]
                     ELSE [rows[s] EXCEPT !.state = "deleted"]
      BY <2>6 DEF ForgetDevice, Only
    <3> QED BY <2>1, <2>6, <3>1 DEF ForgetDevice, RowLive, LiveIn, Rows
  <2> QED BY <2>2, <2>3, <2>4, <2>5, <2>6 DEF Own
<1>3. \A q \in Revocations : revocation[q].ending \subseteq Sessions
  BY <1>0 DEF TypeOK, RevocationCalls
<1>4. Ended'
  BY <1>1, <1>2, <1>3 DEF IInv, Ended
<1>5. \A c \in Clients : conn[c].session \in Sessions
                        /\ (conn[c].unbroken => RowLive(conn[c].session))
  BY <1>0 DEF IInv, TypeOK, Requests, Sound, Steady
<1>6. \A c \in Clients : conn[c].unbroken => RowLive(conn[c].session)'
  BY <1>1, <1>2, <1>5 DEF RowLive
<1>7. clock \in Nat
  BY <1>0, Numbers DEF TypeOK
<1> QED BY <1>0, <1>1, <1>4, <1>6, <1>7, RowStep

LEMMA TickStep ==
  ASSUME IInv, Tick
  PROVE  IInv'
<1>0. TypeOK /\ TypeOK'
  BY TypeNext DEF IInv, Next
<1>1. ASSUME NEW c \in Clients
      PROVE  /\ conn'[c].place = conn[c].place /\ conn'[c].session = conn[c].session
             /\ conn'[c].late = conn[c].late /\ conn'[c].closed = conn[c].closed
             /\ conn'[c].seen = conn[c].seen /\ conn'[c].now = conn[c].now
             /\ conn'[c].at = conn[c].at
             /\ conn'[c].unbroken => conn[c].unbroken /\ RowLive(conn[c].session)'
  <2>1. conn[c] \in Requests
    BY <1>0 DEF TypeOK
  <2>2. conn'[c] = [conn[c] EXCEPT !.unbroken =
                       @ /\ LiveIn(rows, device, clock', conn[c].session)]
    BY DEF Tick, Recall
  <2> QED BY <2>1, <2>2 DEF Requests, RowLive, LiveIn, Tick
<1>2. clock <= clock'
  BY <1>0, Numbers DEF TypeOK, Tick
<1>3. Ended'
  BY DEF IInv, Ended, Tick
<1> QED BY <1>0, <1>1, <1>2, <1>3, RowStep DEF Tick

LEMMA RenewStep ==
  ASSUME IInv, NEW n \in Renewals, Renew(n)
  PROVE  IInv'
<1>0. /\ TypeOK /\ TypeOK' /\ renewal \in [Renewals -> RenewalCalls]
      /\ renewal[n] \in RenewalCalls /\ renewal[n].session \in Sessions
      /\ generation \in Nat /\ clock \in Nat
  BY TypeRenew, Numbers DEF IInv, TypeOK, RenewalCalls
<1>1. UNCHANGED <<clock, device, generation, conn, registry, revocation>>
  BY DEF Renew, Capture, Rotate, Remember
<1>2. \A s \in Sessions : Forgotten(s)' = Forgotten(s)
  BY <1>1 DEF Forgotten
<1> DEFINE Kept(s) == rows'[s].state = rows[s].state /\ rows'[s].expires >= rows[s].expires
           Harmless == \A m \in Renewals :
                          /\ renewal'[m].seen <= generation
                          /\ renewal'[m].at = "remember" /\ Forgotten(renewal'[m].session) =>
                                renewal'[m].seen < generation
           Refused == \A s \in Sessions : Forgotten(s) => live'[s] = live[s]
           Mild == (\A s \in Sessions : Kept(s)) /\ Harmless /\ Refused
<1>3. \A m \in Renewals :
         /\ renewal[m].seen <= generation /\ renewal[m].session \in Sessions
         /\ renewal[m].at = "remember" /\ Forgotten(renewal[m].session) =>
               renewal[m].seen < generation
  BY <1>0 DEF IInv, Renewing, Dropped, RenewalCalls
<1>4. ASSUME NEW s \in Sessions PROVE rows[s].expires \in Nat
  BY <1>0, Numbers DEF TypeOK, Rows
<1>5. Mild
  <2>1. ASSUME NEW s \in Sessions, Capture(n, s)
        PROVE  Mild
    <3>1. \A m \in Renewals \ {n} : renewal'[m] = renewal[m]
      BY <1>0, <2>1 DEF Capture
    <3>2. renewal'[n].at = "rotate" /\ renewal'[n].seen = generation
      BY <1>0, <2>1 DEF Capture
    <3>3. UNCHANGED <<rows, live>>
      BY <2>1 DEF Capture
    <3> QED BY <1>0, <1>3, <1>4, <3>1, <3>2, <3>3
  <2>2. CASE Rotate(n)
    <3> DEFINE s == renewal[n].session
               longer == IF rows[s].expires < renewal[n].expires
                         THEN renewal[n].expires ELSE rows[s].expires
    <3>1. UNCHANGED live /\ \A m \in Renewals \ {n} : renewal'[m] = renewal[m]
      BY <1>0, <2>2 DEF Rotate
    <3>2. CASE /\ rows[s].state = "confirmed"
               /\ rows' = [rows EXCEPT ![s].expires = longer]
               /\ renewal' = [renewal EXCEPT ![n].at = "remember", ![n].expires = longer]
      <4>1. ~Forgotten(s)
        BY <1>0, <3>2 DEF IInv, Ended, Forgotten
      <4>2. renewal'[n].seen = renewal[n].seen /\ renewal'[n].session = s
        BY <1>0, <3>2 DEF RenewalCalls
      <4>3. ASSUME NEW t \in Sessions PROVE Kept(t)
        <5>1. /\ rows \in [Sessions -> Rows] /\ rows[t] \in Rows
              /\ renewal[n].expires \in Nat /\ longer >= rows[s].expires
          BY <1>0, <1>4, Numbers DEF TypeOK, RenewalCalls
        <5> HIDE DEF longer
        <5>2. CASE t = s
          BY <1>0, <3>2, <5>1, <5>2 DEF Rows
        <5>3. CASE t # s
          BY <1>0, <1>4, <3>2, <5>1, <5>3
        <5> QED BY <5>2, <5>3
      <4> QED BY <1>3, <3>1, <4>1, <4>2, <4>3
    <3>3. CASE renewal' = [renewal EXCEPT ![n] = NoRenewal(s)] /\ UNCHANGED rows
      <4>1. renewal'[n].seen = 0 /\ renewal'[n].at = "idle"
        BY <1>0, <3>3 DEF NoRenewal
      <4> QED BY <1>0, <1>3, <1>4, <3>1, <3>3, <4>1
    <3> QED BY <2>2, <3>2, <3>3 DEF Rotate
  <2>3. CASE Remember(n)
    <3>1. \A m \in Renewals \ {n} : renewal'[m] = renewal[m]
      BY <1>0, <2>3 DEF Remember
    <3>2. renewal'[n].seen = 0 /\ renewal'[n].at = "idle"
      BY <1>0, <2>3 DEF Remember, NoRenewal
    <3>3. UNCHANGED rows
      BY <2>3 DEF Remember
    <3>4. Refused
      BY <1>0, <1>3, <2>3 DEF TypeOK, Remember
    <3> QED BY <1>0, <1>3, <1>4, <3>1, <3>2, <3>3, <3>4
  <2> QED BY <2>1, <2>2, <2>3 DEF Renew
<1>6. Ended'
  <2>1. \A q \in Revocations : revocation[q].ending \subseteq Sessions
    BY <1>0 DEF TypeOK, RevocationCalls
  <2> QED BY <1>1, <1>5, <2>1 DEF IInv, Ended
<1>7. Dropped' /\ Renewing'
  BY <1>1, <1>2, <1>5 DEF IInv, Dropped, Renewing
<1>8. ASSUME NEW c \in Clients
      PROVE  Sound(c)'
  <2>1. Sound(c) /\ conn[c].session \in Sessions
    BY <1>0 DEF IInv, TypeOK, Requests
  <2>2. Timely(c)' /\ Fresh(c)' /\ Late(c)' /\ Found(c)' /\ Taken(c)'
    BY <1>1, <2>1 DEF Sound, Timely, Fresh, Late, Found, Taken, Open, Held, Forgotten
  <2>3. rows[conn[c].session].expires \in Nat /\ rows'[conn[c].session].expires \in Nat
    BY <1>0, <2>1, Numbers DEF TypeOK, Rows
  <2>4. Steady(c)'
    BY <1>0, <1>1, <1>5, <2>1, <2>3 DEF Sound, Steady, RowLive, LiveIn
  <2> QED BY <2>2, <2>4 DEF Sound
<1> QED BY <1>0, <1>6, <1>7, <1>8 DEF IInv

LEMMA ProceedStep ==
  ASSUME IInv, NEW r \in Revocations, Proceed(r)
  PROVE  IInv'
<1>0. /\ TypeOK /\ TypeOK' /\ revocation \in [Revocations -> RevocationCalls]
      /\ revocation[r] \in RevocationCalls /\ conn \in [Clients -> Requests]
      /\ generation \in Nat
      /\ \A c \in Clients : Sound(c) /\ conn[c].session \in Sessions /\ conn[c].seen \in Nat
  BY TypeProceed DEF IInv, TypeOK, Requests
<1>1. CASE Forget(r)
  <2>1. revocation' = [revocation EXCEPT ![r] =
           [revocation[r] EXCEPT !.at = "close", !.left = revocation[r].ending]]
    BY <1>1 DEF Forget
  <2>2. /\ revocation'[r].at = "close" /\ revocation'[r].ending = revocation[r].ending
        /\ revocation'[r].left = revocation[r].ending
        /\ revocation'[r].closing = revocation[r].closing
        /\ \A q \in Revocations \ {r} : revocation'[q] = revocation[q]
    BY <1>0, <2>1 DEF RevocationCalls
  <2>3. UNCHANGED <<clock, device, rows, conn, registry, renewal>> /\ generation' = generation + 1
    BY <1>1 DEF Forget
  <2>4. Ended'
    BY <2>2, <2>3 DEF IInv, Ended
  <2>5. \A s \in Sessions : Forgotten(s)' => Forgotten(s) \/ s \in revocation[r].ending
    BY <2>2 DEF Forgotten
  <2>6. \A s \in Sessions : Forgotten(s) => Forgotten(s)'
    BY <2>2 DEF Forgotten
  <2>7. \A n \in Renewals : renewal[n].seen <= generation /\ renewal[n].seen \in Nat
    BY <1>0 DEF IInv, Renewing, TypeOK, RenewalCalls
  <2>8. Renewing'
    BY <1>0, <2>3, <2>7 DEF Renewing
  <2>9. Dropped'
    <3>1. \A s \in Sessions : live'[s] = IF s \in revocation[r].ending THEN NoEntry ELSE live[s]
      BY <1>1 DEF Forget
    <3> QED BY <1>0, <2>3, <2>5, <2>7, <3>1 DEF IInv, Dropped
  <2>10. ASSUME NEW c \in Clients
         PROVE  Sound(c)'
    <3>1. Sound(c) /\ conn[c].session \in Sessions /\ conn[c].seen \in Nat
      BY <1>0
    <3>2. Timely(c)' /\ Fresh(c)'
      BY <1>0, <2>3, <3>1 DEF Sound, Timely, Fresh
    <3>3. Late(c)'
      BY <2>2, <2>3, <3>1 DEF Sound, Late, Forgotten
    <3>4. Steady(c)'
      BY <2>3, <3>1 DEF Sound, Steady, RowLive
    <3>5. Found(c)' /\ Taken(c)'
      BY <2>2, <2>3, <3>1 DEF Sound, Found, Taken, Open, Held
    <3> QED BY <3>2, <3>3, <3>4, <3>5 DEF Sound
  <2> QED BY <1>0, <2>4, <2>8, <2>9, <2>10 DEF IInv
<1>2. ASSUME NEW s \in Sessions, Take(r, s)
      PROVE  IInv'
  <2> DEFINE taken == {c \in registry : conn[c].session = s}
  <2>1. revocation' = [revocation EXCEPT ![r] =
           [revocation[r] EXCEPT !.left = @ \ {s}, !.closing = taken]]
    BY <1>2 DEF Take
  <2> HIDE DEF taken
  <2>2. /\ revocation'[r].at = revocation[r].at /\ revocation'[r].ending = revocation[r].ending
        /\ revocation'[r].left = revocation[r].left \ {s} /\ revocation'[r].closing = taken
        /\ \A q \in Revocations \ {r} : revocation'[q] = revocation[q]
    BY <1>0, <2>1 DEF RevocationCalls
  <2> USE DEF taken
  <2>9. revocation[r].closing = {}
    BY <1>2 DEF Take
  <2>3. /\ UNCHANGED <<clock, device, rows, live, generation, conn, renewal>>
        /\ registry' = {c \in registry : conn[c].session # s}
    BY <1>2 DEF Take
  <2>4. \A t \in Sessions : Forgotten(t)' = Forgotten(t)
    BY <2>2 DEF Forgotten
  <2>5. Ended' /\ Dropped' /\ Renewing'
    BY <2>2, <2>3, <2>4 DEF IInv, Ended, Dropped, Renewing
  <2>6. ASSUME NEW c \in Clients
        PROVE  Sound(c)'
    <3>1. Sound(c) /\ conn[c].session \in Sessions
      BY <1>0
    <3>2. Timely(c)' /\ Fresh(c)' /\ Late(c)' /\ Steady(c)'
      BY <2>2, <2>3, <3>1 DEF Sound, Timely, Fresh, Late, Steady, RowLive, Forgotten
    <3>3. Held(c) => Held(c)'
      BY <2>2, <2>9 DEF Held
    <3>4. c \in registry /\ conn[c].session = s => Held(c)'
      BY <2>2 DEF Held
    <3>5. Found(c)'
      BY <2>3, <3>1, <3>3, <3>4 DEF Sound, Found, Open
    <3>6. Open(c) /\ conn[c].session = s => Held(c)'
      BY <3>1, <3>3, <3>4 DEF Sound, Found
    <3>7. Taken(c)'
      BY <2>2, <2>3, <3>1, <3>3, <3>6 DEF Sound, Taken, Open
    <3> QED BY <3>2, <3>5, <3>7 DEF Sound
  <2> QED BY <1>0, <2>5, <2>6 DEF IInv
<1>3. ASSUME NEW k \in Conns, Close(r, k)
      PROVE  IInv'
  <2>1. revocation' = [revocation EXCEPT ![r] = [revocation[r] EXCEPT !.closing = @ \ {k}]]
    BY <1>3 DEF Close
  <2>2. /\ revocation'[r].at = revocation[r].at /\ revocation'[r].ending = revocation[r].ending
        /\ revocation'[r].left = revocation[r].left
        /\ revocation'[r].closing = revocation[r].closing \ {k}
        /\ \A q \in Revocations \ {r} : revocation'[q] = revocation[q]
    BY <1>0, <2>1 DEF RevocationCalls
  <2>3. UNCHANGED <<clock, device, rows, live, generation, registry, renewal>>
    BY <1>3 DEF Close
  <2>4. \A t \in Sessions : Forgotten(t)' = Forgotten(t)
    BY <2>2 DEF Forgotten
  <2>5. Ended' /\ Dropped' /\ Renewing'
    BY <2>2, <2>3, <2>4 DEF IInv, Ended, Dropped, Renewing
  <2>6. ASSUME NEW c \in Clients
        PROVE  /\ conn'[c].place = conn[c].place /\ conn'[c].session = conn[c].session
               /\ conn'[c].late = conn[c].late /\ conn'[c].unbroken = conn[c].unbroken
               /\ conn'[c].seen = conn[c].seen /\ conn'[c].now = conn[c].now
               /\ conn'[c].at = conn[c].at
               /\ c # k => conn'[c] = conn[c]
               /\ c = k => ~Open(c)'
    <3>1. conn' = [conn EXCEPT ![k] = [conn[k] EXCEPT !.closed = (conn[k].place # "none")]]
      BY <1>3 DEF Close
    <3>2. conn \in [Clients -> Requests]
      BY <1>0
    <3>3. c # k => conn'[c] = conn[c]
      BY <3>1, <3>2
    <3>4. c = k => conn'[c] = [conn[c] EXCEPT !.closed = (conn[c].place # "none")]
      BY <3>1, <3>2
    <3>5. c = k => ~Open(c)'
      BY <3>2, <3>4 DEF Requests, Open
    <3> QED BY <3>2, <3>3, <3>4, <3>5 DEF Requests
  <2>7. ASSUME NEW c \in Clients
        PROVE  Sound(c)'
    <3>1. Sound(c) /\ conn[c].session \in Sessions
      BY <1>0
    <3>2. Timely(c)' /\ Fresh(c)' /\ Late(c)' /\ Steady(c)'
      BY <2>2, <2>3, <2>6, <3>1 DEF Sound, Timely, Fresh, Late, Steady, RowLive, Forgotten
    <3>3. CASE c = k
      BY <2>6, <3>2, <3>3 DEF Sound, Found, Taken
    <3>4. CASE c # k
      <4>1. Held(c)' = Held(c) /\ conn'[c] = conn[c]
        BY <2>2, <2>6, <3>4 DEF Held
      <4>2. Found(c)' /\ Taken(c)'
        BY <2>2, <2>3, <3>1, <4>1 DEF Sound, Found, Taken, Open
      <4> QED BY <3>2, <4>2 DEF Sound
    <3> QED BY <3>3, <3>4
  <2> QED BY <1>0, <2>5, <2>7 DEF IInv
<1> QED BY <1>1, <1>2, <1>3 DEF Proceed

-----------------------------------------------------------------------------
(* The theorems.                                                           *)

LEMMA InvInit == Init => IInv
<1> SUFFICES ASSUME Init PROVE IInv
  OBVIOUS
<1>1. TypeOK
  BY TypeInit
<1>2. Ended /\ Dropped /\ Renewing
  BY DEF Init, Ended, Dropped, Renewing, Forgotten, NoRenewal
<1>3. ASSUME NEW c \in Clients
      PROVE  Sound(c)
  BY DEF Init, NoRequest, Sound, Timely, Fresh, Late, Steady, Found, Taken, Open, Forgotten
<1> QED BY <1>1, <1>2, <1>3 DEF IInv

LEMMA InvNext == IInv /\ [Next]_vars => IInv'
<1> SUFFICES ASSUME IInv, [Next]_vars PROVE IInv'
  OBVIOUS
<1>1. ASSUME NEW c \in Clients, Serve(c) \/ Arrive(c)
      PROVE  IInv'
  BY <1>1, ServeStep, ArriveStep
<1>2. ASSUME NEW r \in Revocations, Revoke(r) \/ Proceed(r)
      PROVE  IInv'
  BY <1>2, RevokeStep, ProceedStep
<1>3. CASE UNCHANGED vars
  BY <1>3 DEF vars, IInv, TypeOK, Ended, Dropped, Renewing, Forgotten, Sound, Timely, Fresh,
              Late, Steady, RowLive, Found, Taken, Open, Held
<1> QED BY <1>1, <1>2, <1>3, RenewStep, OwnStep, TickStep DEF Next

\* The rows, the fast path, the calls of Live, the connections and their
\* registry, the renewals and the revocations satisfy one inductive invariant.
THEOREM Inductive == Spec => []IInv
  BY InvInit, InvNext, PTL DEF Spec

\* Every reachable state is well typed.
THEOREM TypeCorrect == Spec => []TypeOK
<1>1. IInv => TypeOK
  BY DEF IInv
<1> QED BY <1>1, Inductive, PTL

\* Live admits no call that began after its session was forgotten, and refuses
\* none whose session stayed live, whatever reads, renewals and revocations
\* were under way.
THEOREM AnswersTruly == Spec => []CallsAnswerTruly
<1>1. IInv => CallsAnswerTruly
  BY DEF IInv, Sound, Late, Steady, CallsAnswerTruly
<1> QED BY <1>1, Inductive, PTL

\* No connection streams under a session once a revocation of it has returned,
\* unless a concurrent revocation holds its callback.
THEOREM Silence == Spec => []RevokedIsSilent
<1>1. IInv => RevokedIsSilent
  <2> SUFFICES ASSUME IInv, NEW r \in Revocations, NEW c \in Conns, Returned(r),
                      conn[c].session \in revocation[r].ending, Streaming(c)
               PROVE  Held(c)
    BY DEF RevokedIsSilent, Held
  <2>1. c \in Clients /\ Taken(c) /\ Open(c)
    BY DEF Clients, IInv, Sound, Streaming, Open
  <2> QED BY <2>1 DEF Taken, Returned, Streaming
<1> QED BY <1>1, Inductive, PTL

=============================================================================
