------------------------- MODULE ThreadTransferProofs -------------------------
(***************************************************************************)
(* Proofs about ThreadTransfer for every kind of transfer and every value  *)
(* of its constants: its types, its inductive invariant, and the safety    *)
(* properties that follow from it.                                         *)
(***************************************************************************)
EXTENDS ThreadTransfer, TLAPS

\* The smallest members of the sets the types range over.
LEMMA Zero == 0 \in Versions /\ 1 \in Versions /\ 0 \in 0 .. Chunks /\ Chunks \in 0 .. Chunks
BY MaxVersionAssumption, ChunksAssumption DEF Versions

\* The blank values have their types.
LEMMA IdleType == Idle \in Workers /\ NoRow \in Rows /\ NoState \in States /\ NoCall \in Calls
BY Zero DEF Idle, NoRow, NoState, NoCall, Workers, Rows, States, Calls, SrcPhases, DstPhases, Ops

\* The worker's copy of the row has its type.
LEMMA RowType == ASSUME NEW s \in Sources PROVE RowOf(s) \in Rows
BY DEF RowOf, Rows, Sources

\* What the destination reports has its type.
LEMMA StateType == ASSUME TypeOK PROVE DestState \in States
BY Zero DEF DestState, States, TypeOK, Destinations

\* Ending an attempt keeps the types.
LEMMA StopType == Stop => wk' \in Workers /\ call' \in Calls
BY IdleType DEF Stop

\* So does going to a local step.
LEMMA GotoType ==
  ASSUME NEW pc \in LocalSteps, NEW row \in Rows, NEW st \in States, Goto(pc, row, st)
  PROVE  wk' \in Workers /\ call' \in Calls
BY IdleType DEF Goto, Workers

\* So does sending a request.
LEMMA AskType ==
  ASSUME NEW op \in Ops, NEW row \in Rows, Ask(op, row)
  PROVE  wk' \in Workers /\ call' \in Calls
BY IdleType, Zero DEF Ask, Workers, Waits, Rows, Calls

\* So does sending a cancellation, or refusing to.
LEMMA AskCancelType ==
  ASSUME NEW row \in Rows, AskCancel(row)
  PROVE  wk' \in Workers /\ call' \in Calls
BY AskType, StopType DEF AskCancel, Ops

\* So does sending a chunk.
LEMMA AskChunkType == TypeOK /\ AskChunk => wk' \in Workers /\ call' \in Calls
BY DEF AskChunk, TypeOK, Workers, Calls, Rows, States, Ops, Waits

\* So does answering a request.
LEMMA AnswerType ==
  ASSUME TypeOK, NEW by, NEW at \in {"busy", "served", "failed"}, Answer(by, at)
  PROVE  call' \in Calls
BY DEF Answer, TypeOK, Calls

\* A free lock has its type.
LEMMA FreeType == Free \in Locks
BY DEF Free, Locks

\* Giving up on a request keeps the types.
LEMMA AbandonType == TypeOK /\ Abandon => late' \subseteq Requests /\ lock' \in Locks
BY DEF Abandon, TypeOK, Requests, Calls, Locks

\* So does every handler of the destination.
LEMMA HandleType ==
  ASSUME TypeOK, NEW req, req.archive \in Versions,
         NEW by \in {"call", "late"}, Handle(req, by)
  PROVE  call' \in Calls /\ dst' \in Destinations /\ lock' \in Locks
<1>1. CASE HandleStatus(req, by)
  BY <1>1, AnswerType DEF HandleStatus, TypeOK
<1>2. CASE HandlePrepare(req, by)
  BY <1>2, AnswerType DEF HandlePrepare, TypeOK
<1>3. CASE HandleUpload(req, by)
  BY <1>3, AnswerType DEF HandleUpload, TypeOK,
     Destinations, Locks, DstSteps
<1>4. CASE HandleChunk(req, by)
  BY <1>4, ChunksAssumption, AnswerType DEF HandleChunk, TypeOK,
     Destinations
<1>5. CASE HandleActivate(req, by)
  BY <1>5, AnswerType DEF HandleActivate, TypeOK, Destinations
<1>6. CASE HandleCancel(req, by)
  BY <1>6, AnswerType DEF HandleCancel, TypeOK, Locks, DstSteps
<1> QED BY <1>1, <1>2, <1>3, <1>4, <1>5, <1>6 DEF Handle

\* One step keeps the types, and the two bounds on the version that make
\* them inductive.
LEMMA TypeStep == TypeOK /\ VersionsInv /\ [Next]_vars => TypeOK' /\ VersionsInv'
<1> SUFFICES ASSUME TypeOK, VersionsInv, [Next]_vars PROVE TypeOK' /\ VersionsInv'
  OBVIOUS
<1>1. CASE UserNext
  <2>1. CASE TurnStart
    BY <2>1 DEF TurnStart, TypeOK, Conversations, VersionsInv
  <2>2. CASE TurnEnd
    <3>1. conv.version + 1 \in Versions /\ conv.version + 1 >= 1
      BY <2>2, MaxVersionAssumption DEF TurnEnd, TypeOK, Conversations,
         Versions, VersionsInv
    <3> QED BY <2>2, <3>1 DEF TurnEnd, TypeOK, Conversations, VersionsInv
  <2>3. CASE Begin
    BY <2>3, Zero DEF Begin, TypeOK, Conversations, Sources, SrcPhases,
       VersionsInv
  <2>4. CASE CreateOffer
    BY <2>4 DEF CreateOffer, TypeOK, Destinations, DstPhases, VersionsInv
  <2>5. CASE BindPeer
    BY <2>5 DEF BindPeer, TypeOK, Sources, VersionsInv
  <2>6. CASE RequestCancel
    BY <2>6 DEF RequestCancel, TypeOK, Sources, VersionsInv
  <2>7. CASE DiscardUnprepared
    BY <2>7 DEF DiscardUnprepared, TypeOK, Locks, DstSteps, VersionsInv
  <2> QED BY <1>1, <2>1, <2>2, <2>3, <2>4, <2>5, <2>6, <2>7 DEF UserNext
<1>2. CASE WorkerNext
  <2>1. CASE Start
    BY <2>1, IdleType, RowType, GotoType, AskType, AskCancelType DEF Start,
       TypeOK, At, LocalSteps, Ops, VersionsInv
  <2>2. CASE Seal
    BY <2>2, GotoType DEF Seal, TypeOK, At, LocalSteps, Workers, Sources,
       Conversations, VersionsInv
  <2>3. CASE BindArchive
    BY <2>3, GotoType, RowType DEF BindArchive, TypeOK, At, LocalSteps,
       Workers, Sources, VersionsInv
  <2>4. CASE Matched
    BY <2>4, IdleType, GotoType, StopType, AskCancelType DEF Matched, TypeOK,
       At, LocalSteps, Workers, VersionsInv
  <2>5. CASE Upload
    BY <2>5, GotoType, AskType, AskChunkType DEF Upload, TypeOK, At,
       LocalSteps, Workers, Ops, VersionsInv
  <2>6. CASE Recheck
    BY <2>6, RowType, GotoType, AskType, AskCancelType DEF Recheck, TypeOK,
       At, LocalSteps, Workers, Ops, VersionsInv
  <2>7. CASE Decide
    BY <2>7, IdleType, GotoType, StopType, AskType DEF Decide, TypeOK, At,
       LocalSteps, Workers, Ops, VersionsInv
  <2>8. CASE AdvancePrepared
    BY <2>8, IdleType, GotoType, StopType DEF AdvancePrepared, TypeOK, At,
       LocalSteps, Sources, SrcPhases, VersionsInv
  <2>9. CASE Commit
    BY <2>9, RowType, AskType, StopType DEF Commit, TypeOK, At, Ops, Sources,
       SrcPhases, VersionsInv
  <2>10. CASE AdvanceComplete
    <3>1. wk' \in Workers /\ call' \in Calls
      BY <2>10, IdleType, GotoType, StopType DEF AdvanceComplete, LocalSteps
    <3>2. src' = src \/ src' = [src EXCEPT !.phase = "complete"]
      BY <2>10 DEF AdvanceComplete
    <3>3. conv' = conv \/ conv' = [conv EXCEPT !.consumed = (src.draft # 0)]
      BY <2>10 DEF AdvanceComplete
    <3>4. src' \in Sources
      <4>1. src \in Sources
        BY DEF TypeOK
      <4>2. [src EXCEPT !.phase = "complete"] \in Sources
        BY <4>1 DEF Sources, SrcPhases, Terminal
      <4> QED BY <3>2, <4>1, <4>2
    <3>5. conv' \in Conversations /\ conv'.version = conv.version /\ conv'.turn = conv.turn
      <4>1. conv \in Conversations
        BY DEF TypeOK
      <4> QED BY <3>3, <4>1 DEF Conversations
    <3>6. UNCHANGED <<late, dst, lock>>
      BY <2>10 DEF AdvanceComplete
    <3> QED BY <3>1, <3>4, <3>5, <3>6 DEF TypeOK, VersionsInv
  <2>11. CASE Adopt
    BY <2>11, IdleType, GotoType, StopType DEF Adopt, TypeOK, At, LocalSteps,
       Sources, VersionsInv
  <2>12. CASE AdvanceCanceled
    BY <2>12, IdleType, GotoType, StopType DEF AdvanceCanceled, TypeOK, At,
       LocalSteps, Sources, SrcPhases, Terminal, VersionsInv
  <2>13. CASE CleanSource
    BY <2>13, Zero, StopType DEF CleanSource, TypeOK, At, Sources, VersionsInv
  <2>14. CASE ReplyStatus
    BY <2>14, IdleType, StateType, GotoType, StopType DEF ReplyStatus, TypeOK,
       Replied, LocalSteps, Workers, VersionsInv
  <2>15. CASE ReplyUpload
    BY <2>15, IdleType, StateType, GotoType, StopType DEF ReplyUpload, TypeOK,
       Replied, LocalSteps, Workers, VersionsInv
  <2>16. CASE ReplyChunk
    BY <2>16, IdleType, StateType, GotoType, StopType DEF ReplyChunk, TypeOK,
       Replied, LocalSteps, Workers, VersionsInv
  <2>17. CASE ReplyPrepare
    BY <2>17, IdleType, StateType, GotoType, StopType DEF ReplyPrepare,
       TypeOK, Replied, LocalSteps, Workers, VersionsInv
  <2>18. CASE ReplyActivate
    BY <2>18, IdleType, StateType, GotoType, StopType DEF ReplyActivate,
       TypeOK, Replied, LocalSteps, Workers, VersionsInv
  <2>19. CASE ReplyCancel
    BY <2>19, IdleType, StateType, GotoType, StopType DEF ReplyCancel, TypeOK,
       Replied, LocalSteps, Workers, VersionsInv
  <2>20. CASE ReplyResync
    BY <2>20, StateType, GotoType, StopType DEF ReplyResync, TypeOK,
       LocalSteps, Workers, VersionsInv
  <2>21. CASE CallFailed
    BY <2>21, StopType DEF CallFailed, TypeOK, VersionsInv
  <2> QED BY <1>2, <2>1, <2>2, <2>3, <2>4, <2>5, <2>6, <2>7, <2>8, <2>9,
       <2>10, <2>11, <2>12, <2>13, <2>14, <2>15, <2>16, <2>17, <2>18, <2>19,
       <2>20, <2>21 DEF WorkerNext
<1>3. CASE Deliver
  <2>1. call.archive \in Versions
    BY DEF TypeOK, Calls
  <2> QED BY <1>3, <2>1, HandleType DEF Deliver, Handle, TypeOK, VersionsInv
<1>4. CASE DeliverLate
  <2>1. PICK req \in late : late' \in {late, late \ {req}} /\ Handle(req, "late")
    BY <1>4 DEF DeliverLate
  <2>2. req.archive \in Versions
    BY DEF TypeOK, Requests
  <2> QED BY <2>1, <2>2, HandleType DEF Handle, TypeOK, VersionsInv
<1>5. CASE JobNext
  <2>1. CASE RunPrepare
    BY <2>1 DEF RunPrepare, TypeOK, Holds, Destinations, Locks, DstSteps,
       VersionsInv
  <2>2. CASE RunInstall
    BY <2>2 DEF RunInstall, TypeOK, Holds, Locks, DstSteps, VersionsInv
  <2>3. CASE RunClean
    BY <2>3 DEF RunClean, TypeOK, Holds, Locks, DstSteps, VersionsInv
  <2> QED BY <1>5, <2>1, <2>2, <2>3 DEF JobNext
<1>6. CASE HolderNext
  <2>1. CASE Checkpoint
    BY <2>1, Zero, FreeType, AnswerType DEF Checkpoint, TypeOK, Holds,
       Release, Destinations, VersionsInv
  <2>2. CASE Extract
    BY <2>2 DEF Extract, TypeOK, Holds, Proceed, Destinations, Locks,
       DstSteps, VersionsInv
  <2>3. CASE Reserve
    BY <2>3 DEF Reserve, TypeOK, Holds, Proceed, Destinations, Locks,
       DstSteps, VersionsInv
  <2>4. CASE WriteRecipe
    BY <2>4 DEF WriteRecipe, TypeOK, Holds, Proceed, Destinations, Locks,
       DstSteps, VersionsInv
  <2>5. CASE AdvanceDestination
    BY <2>5, FreeType, AnswerType DEF AdvanceDestination, TypeOK, Holds,
       Release, Destinations, DstPhases, VersionsInv
  <2>6. CASE Publish
    BY <2>6 DEF Publish, TypeOK, Holds, Proceed, Destinations, Locks,
       DstSteps, VersionsInv
  <2>7. CASE InstallFiles
    BY <2>7 DEF InstallFiles, TypeOK, Holds, Proceed, Destinations, Locks,
       DstSteps, VersionsInv
  <2>8. CASE CommitIncoming
    BY <2>8 DEF CommitIncoming, TypeOK, Holds, Proceed, Destinations,
       DstPhases, Terminal, Locks, DstSteps, VersionsInv
  <2>9. CASE Discard
    BY <2>9 DEF Discard, TypeOK, Holds, Proceed, Destinations, Locks,
       DstSteps, VersionsInv
  <2>10. CASE CancelDestination
    BY <2>10 DEF CancelDestination, TypeOK, Holds, Proceed, Destinations,
       DstPhases, Terminal, Locks, DstSteps, VersionsInv
  <2>11. CASE CleanDestination
    BY <2>11, Zero, FreeType, AnswerType DEF CleanDestination, TypeOK, Holds,
       Release, Destinations, VersionsInv
  <2> QED BY <1>6, <2>1, <2>2, <2>3, <2>4, <2>5, <2>6, <2>7, <2>8, <2>9,
       <2>10, <2>11 DEF HolderNext
<1>7. CASE FaultNext
  <2>1. CASE Timeout
    BY <2>1, AbandonType, StopType DEF Timeout, TypeOK, VersionsInv
  <2>2. CASE ChunkTimeout
    BY <2>2, IdleType, AbandonType DEF ChunkTimeout, TypeOK, Workers, Waits,
       Calls, VersionsInv
  <2>3. CASE SourceStepFails
    BY <2>3, StopType DEF SourceStepFails, TypeOK, VersionsInv
  <2>4. CASE HolderFails
    BY <2>4, FreeType, AnswerType DEF HolderFails, TypeOK, VersionsInv
  <2>5. CASE ExtractDamaged
    BY <2>5, Zero, FreeType, AnswerType DEF ExtractDamaged, TypeOK, Holds,
       Release, Destinations, VersionsInv
  <2>6. CASE ReserveFails
    BY <2>6, FreeType, AnswerType DEF ReserveFails, TypeOK, Holds, Release,
       Destinations, VersionsInv
  <2>7. CASE DamageUpload
    BY <2>7, Zero DEF DamageUpload, TypeOK, Destinations, VersionsInv
  <2>8. CASE SourceCrash
    BY <2>8, AbandonType, StopType DEF SourceCrash, TypeOK, Conversations,
       Sources, VersionsInv
  <2>9. CASE DestinationCrash
    BY <2>9, FreeType DEF DestinationCrash, TypeOK, Calls, Destinations,
       VersionsInv
  <2> QED BY <1>7, <2>1, <2>2, <2>3, <2>4, <2>5, <2>6, <2>7, <2>8, <2>9 DEF
       FaultNext
<1>8. CASE UNCHANGED vars
  BY <1>8 DEF vars, TypeOK, VersionsInv
<1> QED BY <1>1, <1>2, <1>3, <1>4, <1>5, <1>6, <1>7, <1>8 DEF Next, CalmNext

\* One step keeps the reasons why a transfer is safe: what activates follows
\* the retirement, what cancels excludes it, and neither computer believes
\* more of the other than is so.
LEMMA PartsStep ==
  ASSUME TypeOK, TypeOK', VersionsInv, ActivationInv, CancellationInv, BeliefInv,
         ReadyInv, ArchiveInv, DraftInv, [Next]_vars
  PROVE  /\ ActivationInv' /\ CancellationInv' /\ BeliefInv'
         /\ ReadyInv' /\ ArchiveInv' /\ DraftInv'
<1> USE DEF ActivationInv, CancellationInv, BeliefInv, ReadyInv, ArchiveInv,
            DraftInv, Retired
<1>1. CASE UserNext
  <2>1. CASE TurnStart
    BY <2>1 DEF TurnStart, Ready
  <2>2. CASE TurnEnd
    BY <2>2 DEF TurnEnd, Ready
  <2>3. CASE Begin
    BY <2>3 DEF Begin, Ready, VersionsInv
  <2>4. CASE CreateOffer
    BY <2>4 DEF CreateOffer, Terminal
  <2>5. CASE BindPeer
    BY <2>5 DEF BindPeer, Ready
  <2>6. CASE RequestCancel
    BY <2>6 DEF RequestCancel
  <2>7. CASE DiscardUnprepared
    BY <2>7 DEF DiscardUnprepared
  <2> QED BY <1>1, <2>1, <2>2, <2>3, <2>4, <2>5, <2>6, <2>7 DEF UserNext
<1>2. CASE WorkerNext
  <2>1. CASE Start
    BY <2>1 DEF Start, At, Goto, Stop, Ask, AskCancel, RowOf, SrcRunnable,
       NoRow, NoState, NoCall, Ready
  <2>2. CASE Seal
    BY <2>2 DEF Seal, At, Goto, TypeOK, Sources, NoCall, Ready
  <2>3. CASE BindArchive
    BY <2>3 DEF BindArchive, At, Goto, RowOf, NoCall, Ready
  <2>4. CASE Matched
    BY <2>4 DEF Matched, At, Goto, Stop, Ask, AskCancel, Matching, NoRow,
       NoState, NoCall, Idle, Ready
  <2>5. CASE Upload
    BY <2>5 DEF Upload, At, Goto, Ask, AskChunk, TypeOK, Workers, NoState,
       NoCall, Ready
  <2>6. CASE Recheck
    BY <2>6 DEF Recheck, At, Goto, Stop, Ask, AskCancel, RowOf, NoState,
       NoCall, Ready
  <2>7. CASE Decide
    BY <2>7 DEF Decide, At, Goto, Stop, Ask, Matching, NoRow, NoState, NoCall,
       Idle, Ready
  <2>8. CASE AdvancePrepared
    BY <2>8 DEF AdvancePrepared, At, Goto, Stop, TypeOK, Sources, NoRow,
       NoState, NoCall, Idle, Ready
  <2>9. CASE Commit
    BY <2>9 DEF Commit, At, Stop, Ask, RowOf, TypeOK, Sources, NoRow, NoState,
       NoCall, Idle, Ready
  <2>10. CASE AdvanceComplete
    BY <2>10 DEF AdvanceComplete, Goto, Stop, TypeOK, Sources, NoRow, NoCall,
       Idle, Conversations
  <2>11. CASE Adopt
    BY <2>11 DEF Adopt, At, Goto, Stop, TypeOK, Sources, NoRow, NoState,
       NoCall
  <2>12. CASE AdvanceCanceled
    BY <2>12 DEF AdvanceCanceled, At, Goto, Stop, TypeOK, Sources, NoRow,
       NoState, NoCall, Idle, Ready
  <2>13. CASE CleanSource
    BY <2>13 DEF CleanSource, At, Stop, NoRow, NoState, NoCall, Idle, Ready
  <2>14. CASE ReplyStatus
    BY <2>14 DEF ReplyStatus, Goto, Stop, Replied, DestState, NoRow, NoState,
       NoCall, Ready
  <2>15. CASE ReplyUpload
    BY <2>15 DEF ReplyUpload, Goto, Stop, Matching, Replied, DestState, NoRow,
       NoState, NoCall, Idle, Ready
  <2>16. CASE ReplyChunk
    BY <2>16 DEF ReplyChunk, Goto, Stop, Matching, Replied, DestState, NoRow,
       NoState, NoCall, Idle, Ready
  <2>17. CASE ReplyPrepare
    BY <2>17 DEF ReplyPrepare, Goto, Replied, DestState, NoCall, Ready
  <2>18. CASE ReplyActivate
    BY <2>18 DEF ReplyActivate, Goto, Stop, Matching, Replied, DestState,
       NoRow, NoState, NoCall, Idle, Ready
  <2>19. CASE ReplyCancel
    BY <2>19 DEF ReplyCancel, Goto, Stop, Replied, DestState, NoRow, NoState,
       NoCall, Idle
  <2>20. CASE ReplyResync
    BY <2>20 DEF ReplyResync, Goto, Stop, Matching, DestState, NoRow, NoState,
       NoCall, Idle, Ready
  <2>21. CASE CallFailed
    BY <2>21 DEF CallFailed, Stop, NoRow, NoState, NoCall, Idle, Ready
  <2> QED BY <1>2, <2>1, <2>2, <2>3, <2>4, <2>5, <2>6, <2>7, <2>8, <2>9,
       <2>10, <2>11, <2>12, <2>13, <2>14, <2>15, <2>16, <2>17, <2>18, <2>19,
       <2>20, <2>21 DEF WorkerNext
<1>3. CASE Deliver
  <2>1. CASE HandleStatus(call, "call")
    BY <1>3, <2>1 DEF Deliver, Handle, HandleStatus, Answer, Ready
  <2>2. CASE HandlePrepare(call, "call")
    BY <1>3, <2>2 DEF Deliver, Handle, HandlePrepare, DestState, Answer, Ready
  <2>3. CASE HandleUpload(call, "call")
    BY <1>3, <2>3 DEF Deliver, Handle, HandleUpload, Answer, TypeOK, Calls,
       Destinations, Ready
  <2>4. CASE HandleChunk(call, "call")
    BY <1>3, <2>4 DEF Deliver, Handle, HandleChunk, Answer, TypeOK, Calls,
       Destinations, Ready
  <2>5. CASE HandleActivate(call, "call")
    BY <1>3, <2>5 DEF Deliver, Handle, HandleActivate, Answer, TypeOK, Calls,
       Destinations, Ready
  <2>6. CASE HandleCancel(call, "call")
    BY <1>3, <2>6 DEF Deliver, Handle, HandleCancel, Answer, TypeOK, Calls
  <2> QED BY <1>3, <2>1, <2>2, <2>3, <2>4, <2>5, <2>6 DEF Deliver, Handle
<1>4. CASE DeliverLate
  <2> PICK req \in late : late' \in {late, late \ {req}} /\ Handle(req, "late")
    BY <1>4 DEF DeliverLate
  <2>1. CASE HandleStatus(req, "late")
    BY <2>1 DEF Handle, HandleStatus, Answer, Ready
  <2>2. CASE HandlePrepare(req, "late")
    BY <2>2 DEF Handle, HandlePrepare, DestState, Answer, Ready
  <2>3. CASE HandleUpload(req, "late")
    BY <2>3 DEF Handle, HandleUpload, Answer, TypeOK, Destinations, Ready
  <2>4. CASE HandleChunk(req, "late")
    BY <2>4 DEF Handle, HandleChunk, Answer, TypeOK, Destinations, Ready
  <2>5. CASE HandleActivate(req, "late")
    BY <2>5 DEF Handle, HandleActivate, Answer, TypeOK, Destinations, Ready
  <2>6. CASE HandleCancel(req, "late")
    BY <2>6 DEF Handle, HandleCancel, Answer
  <2> QED BY <2>1, <2>2, <2>3, <2>4, <2>5, <2>6 DEF Handle
<1>5. CASE JobNext
  <2>1. CASE RunPrepare
    BY <2>1 DEF RunPrepare, Holds
  <2>2. CASE RunInstall
    BY <2>2 DEF RunInstall, Holds, Ready
  <2>3. CASE RunClean
    BY <2>3 DEF RunClean, Holds, Terminal
  <2> QED BY <1>5, <2>1, <2>2, <2>3 DEF JobNext
<1>6. CASE HolderNext
  <2>1. CASE Checkpoint
    BY <2>1 DEF Checkpoint, Holds, Release, Answer, Free
  <2>2. CASE Extract
    BY <2>2 DEF Extract, Holds, Proceed
  <2>3. CASE Reserve
    BY <2>3 DEF Reserve, Holds, Proceed
  <2>4. CASE WriteRecipe
    BY <2>4 DEF WriteRecipe, Holds, Proceed
  <2>5. CASE AdvanceDestination
    BY <2>5 DEF AdvanceDestination, Holds, Release, Answer, Free, Ready
  <2>6. CASE Publish
    BY <2>6 DEF Publish, Holds, Proceed, Ready
  <2>7. CASE InstallFiles
    BY <2>7 DEF InstallFiles, Holds, Proceed, Ready
  <2>8. CASE CommitIncoming
    BY <2>8 DEF CommitIncoming, Holds, Proceed, Terminal
  <2>9. CASE Discard
    BY <2>9 DEF Discard, Holds, Proceed
  <2>10. CASE CancelDestination
    BY <2>10 DEF CancelDestination, Holds, Proceed, Terminal
  <2>11. CASE CleanDestination
    BY <2>11 DEF CleanDestination, Holds, Release, Answer, Free, Terminal
  <2> QED BY <1>6, <2>1, <2>2, <2>3, <2>4, <2>5, <2>6, <2>7, <2>8, <2>9,
       <2>10, <2>11 DEF HolderNext
<1>7. CASE FaultNext
  <2>1. CASE Timeout
    BY <2>1 DEF Timeout, Stop, Abandon, NoRow, NoState, NoCall, Idle, Ready
  <2>2. CASE ChunkTimeout
    BY <2>2 DEF ChunkTimeout, Abandon, NoState, NoCall, Ready
  <2>3. CASE SourceStepFails
    BY <2>3 DEF SourceStepFails, Stop, NoRow, NoState, NoCall, Idle, Ready
  <2>4. CASE HolderFails
    BY <2>4 DEF HolderFails, Answer, Free, Ready
  <2>5. CASE ExtractDamaged
    BY <2>5 DEF ExtractDamaged, Holds, Release, Answer, Free
  <2>6. CASE ReserveFails
    BY <2>6 DEF ReserveFails, Holds, Release, Answer, Free
  <2>7. CASE DamageUpload
    BY <2>7 DEF DamageUpload
  <2>8. CASE SourceCrash
    BY <2>8 DEF SourceCrash, Stop, Abandon, NoRow, NoState, NoCall, Idle,
       Ready
  <2>9. CASE DestinationCrash
    BY <2>9 DEF DestinationCrash, Free, Ready
  <2> QED BY <1>7, <2>1, <2>2, <2>3, <2>4, <2>5, <2>6, <2>7, <2>8, <2>9 DEF
       FaultNext
<1>8. CASE UNCHANGED vars
  BY <1>8 DEF vars, Ready
<1> QED BY <1>1, <1>2, <1>3, <1>4, <1>5, <1>6, <1>7, <1>8 DEF Next, CalmNext

\* A step never takes back a phase or an archive identity: each action's guard
\* says so, but for the cancellation of a destination, which the invariant
\* keeps away from a complete one.
LEMMA ForwardStep ==
  ASSUME IInv, [Next]_vars
  PROVE  Forward
<1> USE DEF IInv, TypeOK, Sources, Destinations, SrcPhases, DstPhases, Forward,
            Rank, Terminal
<1>1. CASE UserNext
  <2>1. CASE TurnStart
    BY <2>1 DEF TurnStart
  <2>2. CASE TurnEnd
    BY <2>2 DEF TurnEnd
  <2>3. CASE Begin
    BY <2>3 DEF Begin
  <2>4. CASE CreateOffer
    BY <2>4 DEF CreateOffer
  <2>5. CASE BindPeer
    BY <2>5 DEF BindPeer
  <2>6. CASE RequestCancel
    BY <2>6 DEF RequestCancel
  <2>7. CASE DiscardUnprepared
    BY <2>7 DEF DiscardUnprepared
  <2> QED BY <1>1, <2>1, <2>2, <2>3, <2>4, <2>5, <2>6, <2>7 DEF UserNext
<1>2. CASE WorkerNext
  <2>1. CASE Start
    BY <2>1 DEF Start, At, Goto, Stop, Ask, AskCancel, RowOf, SrcRunnable
  <2>2. CASE Seal
    BY <2>2 DEF Seal, At, Goto
  <2>3. CASE BindArchive
    BY <2>3 DEF BindArchive, At, Goto, RowOf
  <2>4. CASE Matched
    BY <2>4 DEF Matched, At, Goto, Stop, Ask, AskCancel, Matching
  <2>5. CASE Upload
    BY <2>5 DEF Upload, At, Goto, Ask, AskChunk
  <2>6. CASE Recheck
    BY <2>6 DEF Recheck, At, Goto, Stop, Ask, AskCancel, RowOf
  <2>7. CASE Decide
    BY <2>7 DEF Decide, At, Goto, Stop, Ask, Matching
  <2>8. CASE AdvancePrepared
    BY <2>8 DEF AdvancePrepared, At, Goto, Stop
  <2>9. CASE Commit
    BY <2>9 DEF Commit, At, Stop, Ask, RowOf
  <2>10. CASE AdvanceComplete
    BY <2>10 DEF AdvanceComplete, Goto, Stop
  <2>11. CASE Adopt
    BY <2>11 DEF Adopt, At, Goto, Stop
  <2>12. CASE AdvanceCanceled
    BY <2>12 DEF AdvanceCanceled, At, Goto, Stop
  <2>13. CASE CleanSource
    BY <2>13 DEF CleanSource, At, Stop
  <2>14. CASE ReplyStatus
    BY <2>14 DEF ReplyStatus, Goto, Stop, Replied, DestState
  <2>15. CASE ReplyUpload
    BY <2>15 DEF ReplyUpload, Goto, Stop, Matching, Replied, DestState
  <2>16. CASE ReplyChunk
    BY <2>16 DEF ReplyChunk, Goto, Stop, Matching, Replied, DestState
  <2>17. CASE ReplyPrepare
    BY <2>17 DEF ReplyPrepare, Goto, Replied, DestState
  <2>18. CASE ReplyActivate
    BY <2>18 DEF ReplyActivate, Goto, Stop, Matching, Replied, DestState
  <2>19. CASE ReplyCancel
    BY <2>19 DEF ReplyCancel, Goto, Stop, Replied, DestState
  <2>20. CASE ReplyResync
    BY <2>20 DEF ReplyResync, Goto, Stop, Matching, DestState
  <2>21. CASE CallFailed
    BY <2>21 DEF CallFailed, Stop
  <2> QED BY <1>2, <2>1, <2>2, <2>3, <2>4, <2>5, <2>6, <2>7, <2>8, <2>9,
       <2>10, <2>11, <2>12, <2>13, <2>14, <2>15, <2>16, <2>17, <2>18, <2>19,
       <2>20, <2>21 DEF WorkerNext
<1>3. CASE Deliver
  <2>1. CASE HandleStatus(call, "call")
    BY <1>3, <2>1 DEF Deliver, Handle, HandleStatus, Answer
  <2>2. CASE HandlePrepare(call, "call")
    BY <1>3, <2>2 DEF Deliver, Handle, HandlePrepare, DestState, Answer
  <2>3. CASE HandleUpload(call, "call")
    BY <1>3, <2>3 DEF Deliver, Handle, HandleUpload, Answer
  <2>4. CASE HandleChunk(call, "call")
    BY <1>3, <2>4 DEF Deliver, Handle, HandleChunk, Answer
  <2>5. CASE HandleActivate(call, "call")
    BY <1>3, <2>5 DEF Deliver, Handle, HandleActivate, Answer
  <2>6. CASE HandleCancel(call, "call")
    BY <1>3, <2>6 DEF Deliver, Handle, HandleCancel, Answer
  <2> QED BY <1>3, <2>1, <2>2, <2>3, <2>4, <2>5, <2>6 DEF Deliver, Handle
<1>4. CASE DeliverLate
  <2> PICK req \in late : late' \in {late, late \ {req}} /\ Handle(req, "late")
    BY <1>4 DEF DeliverLate
  <2>1. CASE HandleStatus(req, "late")
    BY <2>1 DEF Handle, HandleStatus, Answer
  <2>2. CASE HandlePrepare(req, "late")
    BY <2>2 DEF Handle, HandlePrepare, DestState, Answer
  <2>3. CASE HandleUpload(req, "late")
    BY <2>3 DEF Handle, HandleUpload, Answer
  <2>4. CASE HandleChunk(req, "late")
    BY <2>4 DEF Handle, HandleChunk, Answer
  <2>5. CASE HandleActivate(req, "late")
    BY <2>5 DEF Handle, HandleActivate, Answer
  <2>6. CASE HandleCancel(req, "late")
    BY <2>6 DEF Handle, HandleCancel, Answer
  <2> QED BY <2>1, <2>2, <2>3, <2>4, <2>5, <2>6 DEF Handle
<1>5. CASE JobNext
  <2>1. CASE RunPrepare
    BY <2>1 DEF RunPrepare, Holds
  <2>2. CASE RunInstall
    BY <2>2 DEF RunInstall, Holds
  <2>3. CASE RunClean
    BY <2>3 DEF RunClean, Holds
  <2> QED BY <1>5, <2>1, <2>2, <2>3 DEF JobNext
<1>6. CASE HolderNext
  <2>1. CASE Checkpoint
    BY <2>1 DEF Checkpoint, Holds, Release, Answer
  <2>2. CASE Extract
    BY <2>2 DEF Extract, Holds, Proceed
  <2>3. CASE Reserve
    BY <2>3 DEF Reserve, Holds, Proceed
  <2>4. CASE WriteRecipe
    BY <2>4 DEF WriteRecipe, Holds, Proceed
  <2>5. CASE AdvanceDestination
    BY <2>5 DEF AdvanceDestination, Holds, Release, Answer, ActivationInv,
       CancellationInv, BeliefInv, Retired
  <2>6. CASE Publish
    BY <2>6 DEF Publish, Holds, Proceed
  <2>7. CASE InstallFiles
    BY <2>7 DEF InstallFiles, Holds, Proceed
  <2>8. CASE CommitIncoming
    BY <2>8 DEF CommitIncoming, Holds, Proceed, ActivationInv,
       CancellationInv, BeliefInv, Retired
  <2>9. CASE Discard
    BY <2>9 DEF Discard, Holds, Proceed
  <2>10. CASE CancelDestination
    BY <2>10 DEF CancelDestination, Holds, Proceed, ActivationInv,
       CancellationInv, BeliefInv, Retired
  <2>11. CASE CleanDestination
    BY <2>11 DEF CleanDestination, Holds, Release, Answer
  <2> QED BY <1>6, <2>1, <2>2, <2>3, <2>4, <2>5, <2>6, <2>7, <2>8, <2>9,
       <2>10, <2>11 DEF HolderNext
<1>7. CASE FaultNext
  <2>1. CASE Timeout
    BY <2>1 DEF Timeout, Stop, Abandon
  <2>2. CASE ChunkTimeout
    BY <2>2 DEF ChunkTimeout, Abandon
  <2>3. CASE SourceStepFails
    BY <2>3 DEF SourceStepFails, Stop
  <2>4. CASE HolderFails
    BY <2>4 DEF HolderFails, Answer
  <2>5. CASE ExtractDamaged
    BY <2>5 DEF ExtractDamaged, Holds, Release, Answer
  <2>6. CASE ReserveFails
    BY <2>6 DEF ReserveFails, Holds, Release, Answer
  <2>7. CASE DamageUpload
    BY <2>7 DEF DamageUpload
  <2>8. CASE SourceCrash
    BY <2>8 DEF SourceCrash, Stop, Abandon
  <2>9. CASE DestinationCrash
    BY <2>9 DEF DestinationCrash
  <2> QED BY <1>7, <2>1, <2>2, <2>3, <2>4, <2>5, <2>6, <2>7, <2>8, <2>9 DEF
       FaultNext
<1>8. CASE UNCHANGED vars
  BY <1>8 DEF vars
<1> QED BY <1>1, <1>2, <1>3, <1>4, <1>5, <1>6, <1>7, <1>8 DEF Next, CalmNext

\* The invariant holds before anything happens.
LEMMA InitIInv == Init => IInv
<1> SUFFICES ASSUME Init PROVE IInv
  OBVIOUS
<1> USE DEF Init
<1>1. TypeOK
  BY Zero, IdleType, FreeType DEF TypeOK, Conversations, Sources, SrcPhases,
     Destinations, DstPhases
<1>2. VersionsInv
  BY DEF VersionsInv
<1>3. ActivationInv
  BY DEF ActivationInv, Retired, Free, Idle, NoRow, NoCall
<1>4. CancellationInv
  BY DEF CancellationInv, Retired, Idle, NoRow, NoCall
<1>5. BeliefInv
  BY DEF BeliefInv, Retired, Free, Idle, NoState
<1>6. ReadyInv
  BY DEF ReadyInv, Free
<1>7. ArchiveInv
  BY DEF ArchiveInv, Free, Idle, NoRow, NoCall
<1>8. DraftInv
  BY DEF DraftInv
<1> QED BY <1>1, <1>2, <1>3, <1>4, <1>5, <1>6, <1>7, <1>8 DEF IInv

\* One step keeps the whole invariant.
LEMMA IInvStep == IInv /\ [Next]_vars => IInv'
BY TypeStep, PartsStep DEF IInv

\* The inductive invariant of the transfer, for every kind of transfer, number
\* of chunks, set of requests that linger, and bound on the versions.
THEOREM Inductive == Spec => []IInv
BY InitIInv, IInvStep, PTL DEF Spec

\* Every variable of the transfer keeps its type.
THEOREM TypeCorrect == Spec => []TypeOK
<1>1. IInv => TypeOK
  BY DEF IInv
<1> QED BY <1>1, Inductive, PTL

\* A moved conversation is never runnable on both computers: its arrival
\* implies the source's retirement, and a retired source is not runnable.
THEOREM OneOwner == Spec => []SingleOwner
<1>1. IInv => SingleOwner
  <2> SUFFICES ASSUME IInv, DestMayRun, conv.kind # "copy"
               PROVE  ~SourceMayRun \/ (conv.kind = "draft" /\ conv.consumed)
    BY DEF SingleOwner
  <2>1. Retired
    BY DEF IInv, ActivationInv, DestMayRun
  <2>2. CASE src.phase = "committed"
    BY <2>2 DEF SourceMayRun, Terminal
  <2>3. CASE src.phase = "complete"
    <3>1. conv.kind \in {"move", "copy", "draft"}
      BY KindsAssumption DEF IInv, TypeOK, Conversations
    <3> QED BY <2>3, <3>1 DEF IInv, DraftInv, SourceMayRun
  <2> QED BY <2>1, <2>2, <2>3 DEF Retired
<1> QED BY <1>1, Inductive, PTL

\* Once the source has retired, the destination holds everything it needs to
\* finish alone, and cannot be canceled any more.
THEOREM RetiredRecovers == Spec => []RetiredIsRecoverable
<1>1. IInv => RetiredIsRecoverable
  <2> SUFFICES ASSUME IInv, Retired, dst.phase # "complete"
               PROVE  /\ dst.phase = "prepared" /\ Ready
                      /\ dst.archive = src.archive
    BY DEF RetiredIsRecoverable, Ready
  <2>1. dst.phase = "prepared" /\ ~src.cancel
    BY DEF IInv, BeliefInv, CancellationInv
  <2> QED BY <2>1 DEF IInv, ReadyInv, ArchiveInv
<1> QED BY <1>1, Inductive, PTL

\* The activation leaves the source only after its retirement is durable, and a
\* cancellation only once it can no longer retire.
THEOREM VerdictFirst == Spec => []ProofFollowsVerdict
<1>1. IInv => ProofFollowsVerdict
  BY DEF IInv, ActivationInv, CancellationInv, ProofFollowsVerdict, InFlight
<1> QED BY <1>1, Inductive, PTL

\* Phases never go back on either computer, a verdict is final, and the archive
\* a side is bound to stays the same.
THEOREM NeverBack == Spec => Monotone
<1>1. IInv /\ [Next]_vars => [Forward]_vars
  BY ForwardStep
<1> QED BY <1>1, Inductive, PTL DEF Spec, Monotone

-----------------------------------------------------------------------------
(* What arrives, and what a cancellation leaves: a second invariant, over  *)
(* the first.                                                              *)

\* While its source is fenced, what is sealed is what the source wrote last.
SealedInv ==
    /\ src.phase = "none" => src.archive = 0 /\ src.snapshot = 0
    /\ conv.kind # "copy" /\ src.phase \notin {"none", "canceled"} =>
          /\ ~conv.turn
          /\ src.archive \in {0, conv.version} /\ src.snapshot \in {0, conv.version}

\* A source that is not bound has sealed nothing; nor has one that cancels
\* without its destination.
BoundInv ==
    /\ wk.pc # "idle" => src.phase # "none"
    /\ wk.pc \notin {"idle", "canceling", "clean"} => src.offer
    /\ ~src.offer => src.archive = 0
    /\ wk.pc = "canceling" \/ src.phase = "canceled" => dst.phase = "canceled" \/ src.archive = 0

PublishedInv == dst.files \/ dst.work = "published" => Retired

KeptInv == NoTurnUnderFence /\ SealedInv /\ BoundInv /\ PublishedInv

\* How a step changes the conversation.
ConvMoves ==
    /\ conv'.kind = conv.kind
    /\ \/ UNCHANGED conv
       \/ /\ ~conv.turn /\ conv'.turn /\ SourceMayRun /\ ~conv.consumed
          /\ conv'.version = conv.version /\ UNCHANGED src
       \/ conv.turn /\ ~conv'.turn /\ conv'.version = conv.version + 1 /\ UNCHANGED <<src, dst>>
       \/ (conv'.turn => conv.turn) /\ conv'.version = conv.version
    /\ UNCHANGED <<conv, src>> \/ UNCHANGED dst

\* How a step changes what the source has sealed.
SrcMoves ==
    /\ src.phase = "none" /\ src' # src =>
          /\ src'.archive = src.archive /\ src'.snapshot \in {0, src.snapshot}
          /\ src'.phase = "none" \/ ~conv'.turn
    /\ \/ src'.snapshot \in {0, src.snapshot}
       \/ src'.snapshot = conv.version /\ ~conv.turn /\ UNCHANGED conv
    /\ \/ src'.archive = src.archive
       \/ src'.archive = src.snapshot /\ src.phase = "preparing" /\ wk.pc = "bind" /\ wk'.pc = "matched"
          /\ src'.phase = src.phase /\ src'.offer = src.offer
    /\ src.offer => src'.offer
    /\ src'.phase = "canceled" => src.phase = "canceled" \/ wk.pc = "canceling"

SrcSteps ==
    Seal \/ BindArchive \/ AdvancePrepared \/ Commit \/ AdvanceComplete \/ Adopt
    \/ AdvanceCanceled \/ CleanSource

LEMMA SourceStep ==
  ASSUME IInv, BoundInv, [Next]_vars
  PROVE  ConvMoves /\ SrcMoves
<1> USE DEF ConvMoves, SrcMoves, BoundInv, IInv, TypeOK, Conversations, Sources
<1>1. CASE UserNext
  <2>1. CASE TurnStart \/ TurnEnd
    BY <2>1 DEF TurnStart, TurnEnd
  <2>2. CASE Begin
    BY <2>2 DEF Begin
  <2>3. CASE BindPeer \/ RequestCancel
    BY <2>3 DEF BindPeer, RequestCancel
  <2>4. CASE CreateOffer \/ DiscardUnprepared
    BY <2>4 DEF CreateOffer, DiscardUnprepared
  <2> QED BY <1>1, <2>1, <2>2, <2>3, <2>4 DEF UserNext
<1>2. CASE SrcSteps
  <2>1. CASE Seal
    BY <2>1 DEF Seal, At
  <2>2. CASE BindArchive
    BY <2>2 DEF BindArchive, At, Goto
  <2>3. CASE AdvancePrepared \/ Commit
    BY <2>3 DEF AdvancePrepared, Commit, At
  <2>4. CASE AdvanceComplete
    BY <2>4 DEF AdvanceComplete
  <2>5. CASE Adopt
    BY <2>5 DEF Adopt, At
  <2>6. CASE AdvanceCanceled \/ CleanSource
    BY <2>6 DEF AdvanceCanceled, CleanSource, At
  <2> QED BY <1>2, <2>1, <2>2, <2>3, <2>4, <2>5, <2>6 DEF SrcSteps
<1>3. CASE WorkerNext /\ ~SrcSteps
  <2>1. UNCHANGED <<conv, src>>
    BY <1>3 DEF WorkerNext, SrcSteps, Start, Matched, Upload, Recheck, Decide, ReplyStatus,
       ReplyUpload, ReplyChunk, ReplyPrepare, ReplyActivate, ReplyCancel, ReplyResync,
       CallFailed, At, Replied
  <2> QED BY <2>1
<1>4. CASE Deliver \/ DeliverLate \/ JobNext \/ HolderNext
  <2>1. UNCHANGED <<conv, src>>
    BY <1>4 DEF Deliver, DeliverLate, Handle, JobNext, HolderNext, RunPrepare, RunInstall,
       RunClean, Checkpoint, Extract, Reserve, WriteRecipe, AdvanceDestination, Publish,
       InstallFiles, CommitIncoming, Discard, CancelDestination, CleanDestination, Holds
  <2> QED BY <2>1
<1>5. CASE FaultNext
  <2>1. \/ UNCHANGED <<conv, src>>
        \/ SourceCrash
    BY <1>5 DEF FaultNext, Timeout, ChunkTimeout, SourceStepFails, HolderFails, ExtractDamaged,
       ReserveFails, DamageUpload, DestinationCrash, Holds
  <2>2. CASE SourceCrash
    BY <2>2 DEF SourceCrash
  <2> QED BY <2>1, <2>2
<1>6. CASE UNCHANGED vars
  BY <1>6 DEF vars
<1> QED BY <1>1, <1>2, <1>3, <1>4, <1>5, <1>6 DEF Next, CalmNext, SrcSteps

\* A turn keeps its access to the end, and what is sealed stays the last version.
LEMMA FencedStep ==
  ASSUME IInv, IInv', NoTurnUnderFence, SealedInv, BoundInv, [Next]_vars
  PROVE  NoTurnUnderFence' /\ SealedInv'
<1>1. ConvMoves /\ SrcMoves /\ Forward
  BY SourceStep, ForwardStep
<1>2. /\ conv.kind \in {"move", "copy", "draft"}
      /\ src.phase \in SrcPhases /\ src'.phase \in SrcPhases
  BY KindsAssumption DEF IInv, TypeOK, Conversations, Sources
<1>3. src.phase # "none" => src'.phase # "none"
  BY <1>1, <1>2 DEF Forward, Rank, SrcPhases, Terminal
<1>4. NoTurnUnderFence'
  BY <1>1, <1>2, <1>3
     DEF NoTurnUnderFence, SealedInv, SourceMayRun, ConvMoves, SrcMoves, Forward, Terminal
<1>5. SealedInv'
  BY <1>1, <1>2, <1>3
     DEF NoTurnUnderFence, SealedInv, SourceMayRun, ConvMoves, SrcMoves, Forward, Terminal,
         IInv, DraftInv
<1> QED BY <1>4, <1>5

\* How a step changes where the worker is: a request or an answer, in short.
WorkerMoves ==
    \/ wk'.pc \in {wk.pc, "idle"}
    \/ /\ wk.pc = "idle" /\ src.phase # "none" /\ UNCHANGED src
       /\ \/ wk'.pc = "clean"
          \/ ~src.offer /\ wk'.pc = "canceling"
          \/ src.offer /\ wk'.pc # "canceling"
    \/ wk.pc = "canceling" /\ wk'.pc = "clean"
    \/ /\ wk.pc \notin {"idle", "canceling", "clean"}
       /\ wk'.pc = "canceling" => dst.phase = "canceled"

LEMMA WorkerStep ==
  ASSUME IInv, [Next]_vars
  PROVE  WorkerMoves
<1> USE DEF WorkerMoves, IInv, TypeOK, Workers, Calls
<1>1. CASE WorkerNext
  <2>1. CASE Start
    BY <2>1 DEF Start, At, Goto, Ask, AskCancel, Stop, Idle, SrcRunnable, RowOf, Terminal
  <2>2. CASE Seal \/ BindArchive \/ Matched \/ Upload \/ Recheck \/ Decide
    BY <2>2 DEF Seal, BindArchive, Matched, Upload, Recheck, Decide, At, Goto, Ask, AskChunk,
       AskCancel, Stop, Idle
  <2>3. CASE AdvancePrepared \/ Commit \/ AdvanceComplete \/ Adopt \/ AdvanceCanceled \/ CleanSource
    BY <2>3 DEF AdvancePrepared, Commit, AdvanceComplete, Adopt, AdvanceCanceled, CleanSource,
       At, Goto, Ask, Stop, Idle, BeliefInv
  <2>4. CASE ReplyStatus \/ ReplyUpload \/ ReplyChunk \/ ReplyPrepare \/ ReplyActivate
             \/ ReplyCancel \/ ReplyResync \/ CallFailed
    BY <2>4 DEF ReplyStatus, ReplyUpload, ReplyChunk, ReplyPrepare, ReplyActivate, ReplyCancel,
       ReplyResync, CallFailed, Replied, Waits, Goto, Stop, Idle, DestState
  <2> QED BY <1>1, <2>1, <2>2, <2>3, <2>4 DEF WorkerNext
<1>2. CASE UserNext \/ Deliver \/ DeliverLate \/ JobNext \/ HolderNext
  <2>1. UNCHANGED wk
    BY <1>2 DEF UserNext, TurnStart, TurnEnd, Begin, CreateOffer, BindPeer, RequestCancel,
       DiscardUnprepared, Deliver, DeliverLate, Handle, JobNext, HolderNext, RunPrepare,
       RunInstall, RunClean, Checkpoint, Extract, Reserve, WriteRecipe, AdvanceDestination,
       Publish, InstallFiles, CommitIncoming, Discard, CancelDestination, CleanDestination, Holds
  <2> QED BY <2>1
<1>3. CASE FaultNext
  <2>1. \/ UNCHANGED wk
        \/ wk'.pc = "idle"
        \/ wk.pc = "wait" /\ wk' = [wk EXCEPT !.pc = "resync", !.st = NoState]
    BY <1>3 DEF FaultNext, Timeout, ChunkTimeout, SourceStepFails, HolderFails, ExtractDamaged,
       ReserveFails, DamageUpload, SourceCrash, DestinationCrash, Holds, Stop, Idle
  <2>2. [wk EXCEPT !.pc = "resync", !.st = NoState].pc = "resync"
    OBVIOUS
  <2> QED BY <2>1, <2>2
<1>4. CASE UNCHANGED vars
  BY <1>4 DEF vars
<1> QED BY <1>1, <1>2, <1>3, <1>4 DEF Next, CalmNext

\* A source that cancels without its destination has sealed nothing.
LEMMA BoundStep ==
  ASSUME IInv, BoundInv, [Next]_vars
  PROVE  BoundInv'
<1>1. SrcMoves /\ Forward /\ WorkerMoves
  BY SourceStep, ForwardStep, WorkerStep
<1>2. /\ src.phase \in SrcPhases /\ src'.phase \in SrcPhases
      /\ src.offer \in BOOLEAN
      /\ dst.phase = "canceled" => dst'.phase = "canceled"
      /\ src.phase # "none" => src'.phase # "none"
  <2>1. IInv'
    BY IInvStep
  <2> QED BY <1>1, <2>1 DEF IInv, TypeOK, Sources, Forward, Rank, SrcPhases, Terminal
<1>3. wk'.pc # "idle" => src'.phase # "none"
  BY <1>1, <1>2 DEF BoundInv, WorkerMoves
<1>4. wk'.pc \notin {"idle", "canceling", "clean"} => src'.offer
  BY <1>1, <1>2 DEF BoundInv, WorkerMoves, SrcMoves
<1>5. ~src'.offer => src'.archive = 0
  BY <1>1, <1>2 DEF BoundInv, SrcMoves
<1>6. wk'.pc = "canceling" \/ src'.phase = "canceled" =>
         dst'.phase = "canceled" \/ src'.archive = 0
  BY <1>1, <1>2 DEF BoundInv, WorkerMoves, SrcMoves
<1> QED BY <1>3, <1>4, <1>5, <1>6 DEF BoundInv

LEMMA RetiredStays ==
  ASSUME IInv, BoundInv, [Next]_vars
  PROVE  Retired => Retired'
<1>1. Forward /\ SrcMoves /\ src'.phase \in SrcPhases
  BY ForwardStep, SourceStep, IInvStep DEF IInv, TypeOK, Sources
<1> QED BY <1>1
        DEF IInv, Forward, Rank, SrcPhases, Terminal, Retired, SrcMoves, CancellationInv

\* Only a destination that was activated publishes.
LEMMA PublishedStep ==
  ASSUME IInv, BoundInv, PublishedInv, [Next]_vars
  PROVE  PublishedInv'
<1>1. Retired => Retired'
  BY RetiredStays
<1>2. \/ dst'.files = dst.files /\ dst'.work \in {dst.work, "none", "reserved"}
      \/ lock.at \in {"publish", "files"}
  <2> USE DEF IInv, TypeOK, Destinations
  <2>1. CASE UserNext \/ WorkerNext \/ JobNext
    BY <2>1 DEF UserNext, TurnStart, TurnEnd, Begin, CreateOffer, BindPeer, RequestCancel,
       DiscardUnprepared, WorkerNext, Start, Seal, BindArchive, Matched, Upload, Recheck,
       Decide, AdvancePrepared, Commit, AdvanceComplete, Adopt, AdvanceCanceled, CleanSource,
       ReplyStatus, ReplyUpload, ReplyChunk, ReplyPrepare, ReplyActivate, ReplyCancel,
       ReplyResync, CallFailed, At, Replied, JobNext, RunPrepare, RunInstall, RunClean
  <2>2. CASE Deliver \/ DeliverLate
    BY <2>2 DEF Deliver, DeliverLate, Handle, HandleStatus, HandlePrepare, HandleUpload,
       HandleChunk, HandleActivate, HandleCancel
  <2>3. CASE HolderNext
    BY <2>3 DEF HolderNext, Checkpoint, Extract, Reserve, WriteRecipe, AdvanceDestination,
       Publish, InstallFiles, CommitIncoming, Discard, CancelDestination, CleanDestination, Holds
  <2>4. CASE FaultNext
    BY <2>4 DEF FaultNext, Timeout, ChunkTimeout, SourceStepFails, HolderFails, ExtractDamaged,
       ReserveFails, DamageUpload, SourceCrash, DestinationCrash
  <2>5. CASE UNCHANGED vars
    BY <2>5 DEF vars
  <2> QED BY <2>1, <2>2, <2>3, <2>4, <2>5 DEF Next, CalmNext
<1> QED BY <1>1, <1>2 DEF PublishedInv, IInv, ActivationInv

LEMMA KeptInit == Init => KeptInv
BY DEF Init, KeptInv, NoTurnUnderFence, SealedInv, BoundInv, PublishedInv, Idle

\* The second invariant holds in every state, for every kind of transfer.
THEOREM Kept == Spec => [](IInv /\ KeptInv)
<1>1. Init => IInv /\ KeptInv
  BY InitIInv, KeptInit
<1>2. IInv /\ KeptInv /\ [Next]_vars => IInv' /\ KeptInv'
  BY IInvStep, FencedStep, BoundStep, PublishedStep DEF KeptInv
<1> QED BY <1>1, <1>2, PTL DEF Spec

\* A turn checks its access only when it starts, and keeps it: the fence is
\* raised over an idle conversation, and never comes back down on a turn.
THEOREM TurnsKeepAccess == Spec => []NoTurnUnderFence
<1>1. KeptInv => NoTurnUnderFence
  BY DEF KeptInv
<1> QED BY <1>1, Kept, PTL

\* What becomes runnable at the destination is the archive the source sealed,
\* and for a move or a draft the conversation as the source last wrote it.
THEOREM LastVersionArrives == Spec => []NothingLost
<1>1. IInv /\ KeptInv => NothingLost
  <2> SUFFICES ASSUME IInv, KeptInv, dst.phase = "complete"
               PROVE  dst.archive = src.archive
                      /\ (conv.kind # "copy" => dst.archive = conv.version)
    BY DEF NothingLost, DestMayRun
  <2>1. Retired /\ dst.archive # 0 /\ dst.archive = src.archive
    BY DEF IInv, ActivationInv, ArchiveInv
  <2> QED BY <2>1 DEF KeptInv, SealedInv, Retired
<1> QED BY <1>1, Kept, PTL

\* A canceled destination published nothing and holds no proof, and a source
\* that canceled leaves no prepared receiver that only it could release.
THEOREM CancelsLeaveNothing == Spec => []CancelIsClean
<1>1. IInv /\ KeptInv => CancelIsClean
  <2> SUFFICES ASSUME IInv, KeptInv PROVE CancelIsClean
    OBVIOUS
  <2>1. dst.phase = "canceled" => ~dst.files /\ ~dst.proof /\ dst.work # "published"
    BY DEF IInv, KeptInv, PublishedInv, ActivationInv, BeliefInv
  <2>2. src.phase = "canceled" => dst.phase \in {"none", "preparing", "canceled"}
    BY DEF IInv, TypeOK, Destinations, DstPhases, Terminal, KeptInv, BoundInv, ArchiveInv
  <2> QED BY <2>1, <2>2 DEF CancelIsClean
<1> QED BY <1>1, Kept, PTL

-----------------------------------------------------------------------------
(* The refinement of TransferOwnership.                                    *)

LEMMA OwnershipInit == Init => Ownership!Init
<1> SUFFICES ASSUME Init PROVE Ownership!Init
  OBVIOUS
<1>1. ~DestMayRun /\ ~Retired /\ conv.version = 1
  BY DEF Init, DestMayRun, Retired
<1> QED BY <1>1 DEF Ownership!Init

\* Every step writes, retires, arrives, or leaves both as they are.
LEMMA OwnershipStep ==
  ASSUME IInv, KeptInv, IInv', KeptInv', [Next]_vars
  PROVE  [Ownership!Next]_(Ownership!vars)
<1> USE DEF Ownership!Next, Ownership!Write, Ownership!Retire, Ownership!Arrive, Ownership!vars
<1>1. ConvMoves /\ Forward
  BY SourceStep, ForwardStep DEF KeptInv
<1>2. /\ DestMayRun => Retired /\ (conv.kind # "copy" => dst.archive = conv.version)
      /\ DestMayRun' => Retired' /\ (conv'.kind # "copy" => dst'.archive = conv'.version)
      /\ DestMayRun => dst.archive # 0
  BY DEF IInv, KeptInv, SealedInv, ActivationInv, ArchiveInv, Retired, DestMayRun
<1>3. /\ DestMayRun => DestMayRun' /\ dst'.archive = dst.archive
      /\ Retired => Retired'
  <2>1. DestMayRun => DestMayRun' /\ dst'.archive = dst.archive
    BY <1>1, <1>2 DEF Forward, DestMayRun, Terminal
  <2>2. Retired => Retired'
    BY RetiredStays DEF KeptInv
  <2> QED BY <2>1, <2>2
<1>4. CASE conv.kind = "copy"
  BY <1>1, <1>4 DEF ConvMoves
<1>5. CASE conv.kind # "copy"
  <2>1. conv.turn => ~Retired
    BY <1>5 DEF KeptInv, SealedInv, Retired
  <2>2. conv'.kind # "copy" /\ (conv'.version = conv.version
           \/ (conv'.version = conv.version + 1 /\ ~Retired /\ UNCHANGED <<src, dst>>))
    BY <1>1, <1>5, <2>1 DEF ConvMoves
  <2>3. CASE DestMayRun
    BY <1>2, <1>3, <1>5, <2>2, <2>3
  <2>4. CASE ~DestMayRun /\ Retired
    BY <1>2, <1>3, <1>5, <2>2, <2>4
  <2>5. CASE ~DestMayRun /\ ~Retired
    <3>1. UNCHANGED src \/ UNCHANGED dst
      BY <1>1 DEF ConvMoves
    <3>2. ~DestMayRun'
      BY <1>2, <2>5, <3>1 DEF DestMayRun, Retired
    <3>3. conv'.version = conv.version + 1 => ~Retired'
      BY <2>2, <2>5, <1>1 DEF Retired, IInv, TypeOK, Conversations, Versions
    <3> QED BY <1>5, <2>2, <2>5, <3>2, <3>3
  <2> QED BY <2>3, <2>4, <2>5
<1> QED BY <1>4, <1>5

\* A handoff implements TransferOwnership: the source writes until it retires,
\* nobody until the conversation arrives, and what arrives is what was written.
THEOREM HandsOver == Spec => ImplementsOwnership
<1>1. IInv /\ KeptInv /\ [Next]_vars /\ (IInv /\ KeptInv)' => [Ownership!Next]_(Ownership!vars)
  BY OwnershipStep
<1> QED BY <1>1, OwnershipInit, Kept, PTL DEF Spec, Ownership!Spec, ImplementsOwnership

=============================================================================
