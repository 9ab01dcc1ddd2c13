--------------------------- MODULE ThreadTransfer ---------------------------
(***************************************************************************)
(* The handoff of one conversation from a source computer to a destination *)
(* computer (internal/threadtransfer and the rows internal/store keeps for *)
(* it).  The source worker (Source.Run) drives the operation over HTTP     *)
(* requests that may time out and still be served later; the destination   *)
(* serves them and runs its own worker (Destination.Run) under a lock of   *)
(* the operation.  Either computer may crash between any two steps.        *)
(*                                                                         *)
(* An archive is named by the version of the conversation it captured, 0   *)
(* standing for "none", and travels in Chunks pieces.                      *)
(***************************************************************************)
EXTENDS Naturals

CONSTANTS
    Kinds,      \* "move", "copy", and "draft": a copy that consumes the draft
    Workspace,  \* does the transfer take the working tree along?
    Chunks,     \* how many chunks the archive has
    Lingering,  \* the requests that may still arrive after they timed out
    MaxVersion  \* bound: the last version of the source conversation

ASSUME KindsAssumption == Kinds \subseteq {"move", "copy", "draft"}
ASSUME WorkspaceAssumption == Workspace \in BOOLEAN
ASSUME LingeringAssumption ==
    Lingering \subseteq {"status", "upload", "chunk", "prepare", "activate", "cancel"}
ASSUME ChunksAssumption == Chunks \in Nat \ {0}
ASSUME MaxVersionAssumption == MaxVersion \in Nat \ {0}

VARIABLES
    conv,   \* the source's conversation: how it will be handed off, version, running
            \* turn, draft consumed
    src,    \* the source's durable row and sealed snapshot
    wk,     \* the source worker: where it is, its copy of the row, last reply
    call,   \* the worker's outstanding request
    late,   \* requests the worker gave up on that may still arrive
    dst,    \* the destination's durable row and operation directory
    lock    \* the holder of the destination's operation lock

vars == <<conv, src, wk, call, late, dst, lock>>

-----------------------------------------------------------------------------

Versions == 0 .. MaxVersion
Terminal == {"complete", "canceled"}
SrcPhases == {"none", "preparing", "prepared", "committed"} \union Terminal
DstPhases == {"none", "preparing", "prepared"} \union Terminal
Ops == {"status", "upload", "chunk", "prepare", "activate", "cancel"}

Rows == [phase : SrcPhases, cancel : BOOLEAN, archive : Versions]
States == [phase : DstPhases, archive : Versions, received : 0 .. Chunks]
Requests == [op : Ops, archive : Versions, offset : 0 .. Chunks]

NoRow == [phase |-> "none", cancel |-> FALSE, archive |-> 0]
NoState == [phase |-> "none", archive |-> 0, received |-> 0]
NoCall == [op |-> "status", archive |-> 0, offset |-> 0, at |-> "none"]
Idle == [pc |-> "idle", row |-> NoRow, st |-> NoState]
Free == [at |-> "free", by |-> "job"]

LocalSteps == {"adopt", "seal", "bind", "matched", "upload", "recheck",
               "decide", "advance", "commit", "complete", "canceling", "clean"}
Waits == {"wait", "resync"}
DstSteps == {"checkpoint", "discard", "canceltx", "clean",
             "extract", "reserve", "recipe", "advance",
             "publish", "files", "commit"}

Conversations == [kind : Kinds, version : Versions, turn : BOOLEAN, consumed : BOOLEAN]
Sources == [phase : SrcPhases, offer : BOOLEAN, cancel : BOOLEAN, archive : Versions,
            snapshot : Versions, draft : Versions, cleanup : BOOLEAN]
Workers == [pc : {"idle"} \union Waits \union LocalSteps, row : Rows, st : States]
Calls == [op : Ops, archive : Versions, offset : 0 .. Chunks,
          at : {"none", "sent", "busy", "served", "failed"}]
Destinations == [phase : DstPhases, archive : Versions, open : BOOLEAN,
                 received : 0 .. Chunks, stage : BOOLEAN, recipe : BOOLEAN,
                 work : {"none", "reserved", "published"}, files : BOOLEAN,
                 proof : BOOLEAN, cleanup : BOOLEAN]
Locks == [at : {"free"} \union DstSteps, by : {"call", "late", "job", "user"}]

\* What a worker keeps of the row it read: its copy goes stale.
RowOf(s) == [phase |-> s.phase, cancel |-> s.cancel, archive |-> s.archive]

\* Destination.Status: what the destination reports of the operation.
DestState ==
    [phase |-> dst.phase,
     archive |-> IF dst.phase = "canceled" \/ (dst.phase = "preparing" /\ ~dst.open)
                 THEN 0 ELSE dst.archive,
     received |-> CASE dst.phase \in {"prepared", "complete"} -> Chunks
                    [] dst.phase = "preparing" /\ dst.open    -> dst.received
                    [] OTHER                                  -> 0]

\* Mutant: a completed transfer of any kind gives the thread back.
SourceMayRun_AnyComplete ==
    src.phase \in {"none"} \union Terminal \/ (conv.kind = "copy" /\ src.archive # 0)

\* Mutant: a sealed draft no longer needs its source, as a sealed copy.
SourceMayRun_SealedDraft ==
    \/ src.phase \in {"none", "canceled"}
    \/ src.phase = "complete" /\ conv.kind # "move"
    \/ conv.kind # "move" /\ src.archive # 0

\* checkThreadTransferAccess on the source: may the conversation change there?
SourceMayRun ==
    \/ src.phase \in {"none", "canceled"}
    \/ src.phase = "complete" /\ conv.kind # "move"
    \/ conv.kind = "copy" /\ src.archive # 0

\* ... and on the destination, where the operation is an incoming one.
DestMayRun == dst.phase = "complete"

Init ==
    /\ \E kind \in Kinds :
          conv = [kind |-> kind, version |-> 1, turn |-> FALSE, consumed |-> FALSE]
    /\ src = [phase |-> "none", offer |-> FALSE, cancel |-> FALSE, archive |-> 0,
              snapshot |-> 0, draft |-> 0, cleanup |-> TRUE]
    /\ wk = Idle
    /\ call = NoCall
    /\ late = {}
    /\ dst = [phase |-> "none", archive |-> 0, open |-> FALSE, received |-> 0,
              stage |-> FALSE, recipe |-> FALSE, work |-> "none",
              files |-> FALSE, proof |-> FALSE, cleanup |-> TRUE]
    /\ lock = Free

-----------------------------------------------------------------------------
(* What people and agents do.                                              *)

\* Mutant: a turn starts without asking for access.
TurnStart_Unfenced ==
    /\ ~conv.turn /\ ~conv.consumed
    /\ conv.version < MaxVersion
    /\ conv' = [conv EXCEPT !.turn = TRUE]
    /\ UNCHANGED <<src, wk, call, late, dst, lock>>

\* An agent's turn checks access when it starts and writes when it ends.
TurnStart ==
    /\ SourceMayRun /\ ~conv.turn /\ ~conv.consumed
    /\ conv.version < MaxVersion
    /\ conv' = [conv EXCEPT !.turn = TRUE]
    /\ UNCHANGED <<src, wk, call, late, dst, lock>>

TurnEnd ==
    /\ conv.turn
    /\ conv' = [conv EXCEPT !.turn = FALSE, !.version = @ + 1]
    /\ UNCHANGED <<src, wk, call, late, dst, lock>>

\* Mutant: the fence is raised over a running turn.
Begin_Busy ==
    /\ src.phase = "none"
    /\ src' = [src EXCEPT !.phase = "preparing",
                          !.draft = IF conv.kind = "draft" THEN conv.version ELSE 0]
    /\ UNCHANGED <<conv, wk, call, late, dst, lock>>

\* beginThreadTransfer: fences an idle conversation in one durable insert.
Begin ==
    /\ src.phase = "none" /\ SourceMayRun /\ ~conv.turn
    /\ src' = [src EXCEPT !.phase = "preparing",
                          !.draft = IF conv.kind = "draft" THEN conv.version ELSE 0]
    /\ UNCHANGED <<conv, wk, call, late, dst, lock>>

\* CreateThreadTransferOffer on the destination, for an intent of the source.
CreateOffer ==
    /\ src.phase # "none" /\ dst.phase = "none"
    /\ dst' = [dst EXCEPT !.phase = "preparing"]
    /\ UNCHANGED <<conv, src, wk, call, late, lock>>

\* BindThreadTransferDestination: not refused by a requested cancellation.
BindPeer ==
    /\ dst.phase # "none" /\ src.phase = "preparing" /\ ~src.offer
    /\ src' = [src EXCEPT !.offer = TRUE]
    /\ UNCHANGED <<conv, wk, call, late, dst, lock>>

\* CancelThreadTransfer: records the intent; the worker acts on it.
RequestCancel ==
    /\ src.phase \in {"preparing", "prepared"} /\ ~src.cancel
    /\ src' = [src EXCEPT !.cancel = TRUE]
    /\ UNCHANGED <<conv, wk, call, late, dst, lock>>

\* Mutant: the destination's user may discard a prepared offer too.
DiscardUnprepared_Prepared ==
    /\ lock.at = "free" /\ dst.phase \in {"preparing", "prepared", "canceled"}
    /\ lock' = [at |-> "discard", by |-> "user"]
    /\ UNCHANGED <<conv, src, wk, call, late, dst>>

\* DiscardUnpreparedThreadTransfer takes the destination's lock.
DiscardUnprepared ==
    /\ lock.at = "free" /\ dst.phase \in {"preparing", "canceled"}
    /\ lock' = [at |-> "discard", by |-> "user"]
    /\ UNCHANGED <<conv, src, wk, call, late, dst>>

UserNext == \/ TurnStart \/ TurnEnd \/ Begin \/ CreateOffer \/ BindPeer
            \/ RequestCancel \/ DiscardUnprepared

-----------------------------------------------------------------------------
(* The source worker: Source.Run.  At(p) is a local step at p; a request   *)
(* is sent by Ask and answered by one of the Reply actions.                *)

At(p) == wk.pc = p /\ UNCHANGED <<conv, late, dst, lock>>

Goto(pc, row, st) == wk' = [pc |-> pc, row |-> row, st |-> st] /\ call' = NoCall

Stop == wk' = Idle /\ call' = NoCall

\* A local that no later step reads is forgotten: only a chunk's answer is
\* compared with the report before it.
Ask(op, row) ==
    /\ wk' = [pc |-> "wait", row |-> row, st |-> NoState]
    /\ call' = [op |-> op, archive |-> row.archive, offset |-> 0, at |-> "sent"]

AskChunk ==
    /\ wk' = [wk EXCEPT !.pc = "wait"]
    /\ call' = [op |-> "chunk", archive |-> wk.row.archive,
                offset |-> wk.st.received, at |-> "sent"]

\* Source.cancel refuses a committed row before it sends anything.
AskCancel(row) ==
    IF row.phase = "committed" THEN Stop ELSE Ask("cancel", row)

\* Mutant: an unbound operation is never offered to the worker.
SrcRunnable_OffersOnly ==
    \/ src.phase \in Terminal /\ src.cleanup
    \/ src.phase \notin Terminal \union {"none"} /\ src.offer

\* Mutant: a finished operation is never offered for its cleanup.
SrcRunnable_Unfinished ==
    src.phase \notin Terminal \union {"none"} /\ (src.offer \/ src.cancel)

\* NextThreadTransferJobs offers the outgoing row to the worker.
SrcRunnable ==
    \/ src.phase \in Terminal /\ src.cleanup
    \/ src.phase \notin Terminal \union {"none"} /\ (src.offer \/ src.cancel)

\* Mutant: a requested cancellation never asks the destination.
Start_CancelsAlone ==
    /\ At("idle") /\ SrcRunnable
    /\ LET row == RowOf(src) IN
       CASE row.phase \in Terminal -> Goto("clean", NoRow, NoState)
         [] row.phase \notin Terminal /\ row.cancel -> Goto("canceling", NoRow, NoState)
         [] OTHER -> Ask("status", row)
    /\ UNCHANGED src

Start ==
    /\ At("idle") /\ SrcRunnable
    /\ LET row == RowOf(src) IN
       \/ row.phase \in Terminal /\ Goto("clean", NoRow, NoState)
       \/ row.phase \notin Terminal /\ ~src.offer /\ row.phase # "committed"
          /\ Goto("canceling", NoRow, NoState)
       \/ row.phase \notin Terminal /\ src.offer /\ row.cancel
          /\ AskCancel(row)
       \/ row.phase \notin Terminal /\ src.offer /\ ~row.cancel
          /\ Ask("status", row)
    /\ UNCHANGED src

\* sourceArchive: reuse the sealed archive or the finished snapshot, else take
\* the snapshot of the idle, fenced conversation.
Seal ==
    /\ At("seal")
    /\ \/ /\ wk.row.archive # 0
          /\ Goto("matched", wk.row, wk.st)
          /\ UNCHANGED src
       \/ /\ wk.row.archive = 0 /\ wk.row.phase = "preparing" /\ ~conv.turn
          /\ src' = IF src.snapshot = 0
                    THEN [src EXCEPT !.snapshot = conv.version] ELSE src
          /\ Goto("bind", wk.row, wk.st)

\* BindThreadTransferArchive returns the row its transaction saw.
BindArchive ==
    /\ At("bind")
    /\ src.phase = "preparing" /\ src.archive \in {0, src.snapshot}
    /\ src' = [src EXCEPT !.archive = src.snapshot]
    /\ Goto("matched", RowOf(src'), wk.st)

\* matchingSnapshot: the destination's report agrees with the sealed archive.
Matching(st, row) ==
    /\ st.archive \in {0, row.archive}
    /\ st.phase \notin {"preparing", "canceled"} =>
           st.archive = row.archive /\ st.received = Chunks

Matched ==
    /\ At("matched")
    /\ CASE wk.row.cancel -> AskCancel(wk.row)
         [] ~wk.row.cancel /\ ~Matching(wk.st, wk.row) -> Stop
         [] OTHER ->
              CASE wk.st.phase = "complete" ->
                     IF wk.row.phase = "committed"
                     THEN Goto("complete", NoRow, NoState) ELSE Stop
                [] wk.st.phase = "preparing" -> Goto("upload", wk.row, wk.st)
                [] OTHER -> Goto("recheck", wk.row, wk.st)
    /\ UNCHANGED src

\* Source.upload: begin it, or send the next chunk unless a cancellation was
\* requested meanwhile.
Upload ==
    /\ At("upload")
    /\ CASE wk.st.archive = 0 -> Ask("upload", wk.row)
         [] wk.st.archive # 0 /\ (wk.st.received = Chunks \/ src.cancel) ->
              Goto("recheck", wk.row, wk.st)
         [] OTHER -> AskChunk
    /\ UNCHANGED src

\* The row is read again once the bytes have been sent.
Recheck ==
    /\ At("recheck")
    /\ LET row == RowOf(src) IN
       CASE row.cancel -> AskCancel(row)
         [] ~row.cancel /\ wk.st.phase = "preparing" -> Ask("prepare", row)
         [] OTHER -> Goto("decide", row, wk.st)
    /\ UNCHANGED src

\* Mutant: the proof is released before the source has retired.
Decide_ActivatesFirst ==
    /\ At("decide")
    /\ IF ~Matching(wk.st, wk.row) \/ wk.st.phase # "prepared" THEN Stop
       ELSE Ask("activate", wk.row)
    /\ UNCHANGED src

Decide ==
    /\ At("decide")
    /\ IF ~Matching(wk.st, wk.row) \/ wk.st.phase # "prepared" THEN Stop
       ELSE IF wk.row.phase # "committed" THEN Goto("advance", wk.row, NoState)
       ELSE Ask("activate", wk.row)
    /\ UNCHANGED src

\* AdvanceThreadTransfer(prepared), then AdvanceThreadTransfer(committed): two
\* transactions.  The second refuses a row whose cancellation was requested.
AdvancePrepared ==
    /\ At("advance")
    /\ IF src.phase \in {"preparing", "prepared"} /\ src.archive = wk.row.archive
       THEN /\ src' = [src EXCEPT !.phase = "prepared"]
            /\ Goto("commit", NoRow, NoState)
       ELSE Stop /\ UNCHANGED src

Commit ==
    /\ At("commit")
    /\ IF src.phase = "prepared" /\ ~src.cancel
       THEN /\ src' = [src EXCEPT !.phase = "committed"]
            /\ Ask("activate", RowOf(src'))
       ELSE Stop /\ UNCHANGED src

\* Mutant: the source is told the transfer is complete and keeps its draft.
AdvanceComplete_KeepsDraft ==
    /\ wk.pc = "complete" /\ UNCHANGED <<conv, late, dst, lock>>
    /\ IF src.phase \in {"committed", "complete"}
       THEN /\ src' = [src EXCEPT !.phase = "complete"]
            /\ Goto("clean", NoRow, NoState)
       ELSE Stop /\ UNCHANGED src

\* AdvanceThreadTransfer(complete) also consumes the draft, and refuses when
\* the draft is no longer the one that was sent.
AdvanceComplete ==
    /\ wk.pc = "complete" /\ UNCHANGED <<late, dst, lock>>
    /\ IF src.phase \in {"committed", "complete"} /\ src.draft \in {0, conv.version}
       THEN /\ src' = [src EXCEPT !.phase = "complete"]
            /\ conv' = [conv EXCEPT !.consumed = src.draft # 0]
            /\ Goto("clean", NoRow, NoState)
       ELSE Stop /\ UNCHANGED <<src, conv>>

\* The destination reported a discarded offer: record the cancellation first.
Adopt ==
    /\ At("adopt")
    /\ IF src.phase \in {"committed", "complete"}
       THEN Stop /\ UNCHANGED src
       ELSE /\ src' = IF src.phase = "canceled" THEN src ELSE [src EXCEPT !.cancel = TRUE]
            /\ Goto("canceling", NoRow, NoState)

AdvanceCanceled ==
    /\ At("canceling")
    /\ IF src.phase \in {"preparing", "prepared", "canceled"}
       THEN /\ src' = [src EXCEPT !.phase = "canceled"]
            /\ Goto("clean", NoRow, NoState)
       ELSE Stop /\ UNCHANGED src

\* cleanupTransfer: remove the operation directory, then clear the flag.
CleanSource ==
    /\ At("clean")
    /\ src' = [src EXCEPT !.snapshot = 0, !.cleanup = FALSE]
    /\ Stop

\* The answer to each request, read from the destination as it is sent.
Replied(op) == /\ wk.pc = "wait" /\ call.at = "served" /\ call.op = op
               /\ UNCHANGED <<conv, src, late, dst, lock>>

ReplyStatus ==
    /\ Replied("status")
    /\ IF DestState.phase # "canceled" THEN Goto("seal", wk.row, DestState)
       ELSE IF wk.row.phase = "committed" THEN Stop
       ELSE Goto("adopt", NoRow, NoState)

ReplyUpload ==
    /\ Replied("upload")
    /\ IF Matching(DestState, wk.row) THEN Goto("upload", wk.row, DestState) ELSE Stop

ReplyChunk ==
    /\ Replied("chunk")
    /\ IF Matching(DestState, wk.row) /\ DestState.received > wk.st.received
       THEN Goto("upload", wk.row, DestState) ELSE Stop

ReplyPrepare == Replied("prepare") /\ Goto("decide", wk.row, DestState)

ReplyActivate ==
    /\ Replied("activate")
    /\ IF Matching(DestState, wk.row) /\ DestState.phase = "complete"
       THEN Goto("complete", NoRow, NoState) ELSE Stop

ReplyCancel ==
    /\ Replied("cancel")
    /\ IF DestState.phase = "canceled" THEN Goto("canceling", NoRow, NoState) ELSE Stop

\* The status asked for after a chunk timed out: continue from its checkpoint.
ReplyResync ==
    /\ wk.pc = "resync" /\ call.at = "served"
    /\ IF Matching(DestState, wk.row) THEN Goto("upload", wk.row, DestState) ELSE Stop
    /\ UNCHANGED <<conv, src, late, dst, lock>>

\* A request the destination refused, or whose connection broke.
CallFailed ==
    /\ wk.pc \in Waits /\ call.at = "failed"
    /\ Stop
    /\ UNCHANGED <<conv, src, late, dst, lock>>

WorkerNext ==
    \/ Start \/ Seal \/ BindArchive \/ Matched \/ Upload \/ Recheck \/ Decide
    \/ AdvancePrepared \/ Commit \/ AdvanceComplete \/ Adopt \/ AdvanceCanceled
    \/ CleanSource \/ ReplyStatus \/ ReplyUpload \/ ReplyChunk \/ ReplyPrepare
    \/ ReplyActivate \/ ReplyCancel \/ ReplyResync \/ CallFailed

-----------------------------------------------------------------------------
(* The destination: the handlers of requests, and the steps of whoever     *)
(* holds the operation's lock.                                             *)

\* Only the request the worker still waits for gets an answer.
Answer(by, at) ==
    call' = IF by = "call" THEN [call EXCEPT !.at = at] ELSE call

Holds(at) == lock.at = at /\ UNCHANGED <<conv, src, wk, late>>
Proceed(at) == lock' = [lock EXCEPT !.at = at] /\ UNCHANGED call
Release == lock' = Free /\ Answer(lock.by, "served")

\* Status, and Prepare: they take no lock.
HandleStatus(req, by) ==
    /\ req.op = "status"
    /\ Answer(by, "served")
    /\ UNCHANGED <<dst, lock>>

HandlePrepare(req, by) ==
    /\ req.op = "prepare"
    /\ Answer(by, IF DestState.archive # 0 /\ DestState.received = Chunks
                  THEN "served" ELSE "failed")
    /\ UNCHANGED <<dst, lock>>

\* BeginUpload binds the archive in the row, then writes checkpoint zero.
HandleUpload(req, by) ==
    /\ req.op = "upload" /\ lock.at = "free"
    /\ IF dst.phase = "preparing" /\ req.archive # 0 /\ dst.archive \in {0, req.archive}
       THEN /\ dst' = [dst EXCEPT !.archive = req.archive]
            /\ lock' = [at |-> "checkpoint", by |-> by]
            /\ Answer(by, "busy")
       ELSE Answer(by, "failed") /\ UNCHANGED <<dst, lock>>

\* ReceiveChunk appends the next chunk and accepts a replayed one.
HandleChunk(req, by) ==
    /\ req.op = "chunk" /\ lock.at = "free"
    /\ IF dst.phase = "preparing" /\ dst.open /\ req.offset <= dst.received
          /\ req.offset < Chunks
       THEN /\ dst' = [dst EXCEPT !.received =
                           IF req.offset = dst.received THEN @ + 1 ELSE @]
            /\ Answer(by, "served")
       ELSE Answer(by, "failed") /\ UNCHANGED dst
    /\ UNCHANGED lock

\* Mutant: Activate answers without persisting the proof.
HandleActivate_Forgets(req, by) ==
    /\ req.op = "activate" /\ lock.at = "free"
    /\ Answer(by, IF dst.phase \in {"prepared", "complete"} THEN "served" ELSE "failed")
    /\ UNCHANGED <<dst, lock>>

\* Activate persists the proof before it answers.
HandleActivate(req, by) ==
    /\ req.op = "activate" /\ lock.at = "free"
    /\ IF dst.phase \in {"prepared", "complete"}
       THEN /\ dst' = [dst EXCEPT !.proof = @ \/ dst.phase = "prepared"]
            /\ Answer(by, "served")
       ELSE Answer(by, "failed") /\ UNCHANGED dst
    /\ UNCHANGED lock

\* Cancel is refused once an activation proof exists.
HandleCancel(req, by) ==
    /\ req.op = "cancel" /\ lock.at = "free"
    /\ IF dst.phase \in {"preparing", "prepared", "canceled"} /\ ~dst.proof
       THEN /\ lock' = [at |-> "discard", by |-> by]
            /\ Answer(by, "busy")
       ELSE Answer(by, "failed") /\ UNCHANGED lock
    /\ UNCHANGED dst

Handle(req, by) ==
    /\ \/ HandleStatus(req, by) \/ HandlePrepare(req, by) \/ HandleUpload(req, by)
       \/ HandleChunk(req, by) \/ HandleActivate(req, by) \/ HandleCancel(req, by)
    /\ UNCHANGED <<conv, src, wk>>

Deliver == call.at = "sent" /\ Handle(call, "call") /\ UNCHANGED late

\* An abandoned request arrives; other copies of it may still be on the way.
DeliverLate ==
    \E req \in late : /\ late' \in {late, late \ {req}}
                      /\ Handle(req, "late")

Checkpoint ==
    /\ Holds("checkpoint")
    /\ dst' = IF dst.open THEN dst ELSE [dst EXCEPT !.open = TRUE, !.received = 0]
    /\ Release

\* Destination.Run on a preparing row whose upload is complete: scratch of an
\* earlier attempt goes first.
RunPrepare ==
    /\ Holds("free")
    /\ dst.phase = "preparing" /\ dst.open /\ dst.received = Chunks
    /\ dst' = [dst EXCEPT !.stage = FALSE]
    /\ lock' = [at |-> "extract", by |-> "job"]
    /\ UNCHANGED call

Extract ==
    /\ Holds("extract")
    /\ dst' = [dst EXCEPT !.stage = TRUE]
    /\ Proceed("reserve")

\* Extraction met bytes that differ from the sealed upload: start it again.
ExtractDamaged ==
    /\ Holds("extract")
    /\ dst' = [dst EXCEPT !.received = 0]
    /\ Release

\* appTransferInstaller.Prepare: reserve a locked worktree of the operation.
Reserve ==
    /\ Holds("reserve")
    /\ dst' = [dst EXCEPT !.work = IF Workspace THEN "reserved" ELSE @]
    /\ Proceed("recipe")

\* A preparation that fails removes the reservation it was replacing or making.
ReserveFails ==
    /\ Holds("reserve") /\ Workspace
    /\ dst' = [dst EXCEPT !.work = "none"]
    /\ Release

WriteRecipe ==
    /\ Holds("recipe")
    /\ dst' = [dst EXCEPT !.recipe = TRUE]
    /\ Proceed("advance")

AdvanceDestination ==
    /\ Holds("advance")
    /\ dst' = [dst EXCEPT !.phase = "prepared"]
    /\ Release

\* Destination.Run on a prepared row with its proof.
RunInstall ==
    /\ Holds("free")
    /\ dst.phase = "prepared" /\ dst.proof /\ dst.recipe
    /\ Workspace => dst.work # "none"
    /\ lock' = [at |-> "publish", by |-> "job"]
    /\ UNCHANGED <<dst, call>>

Publish ==
    /\ Holds("publish")
    /\ dst' = [dst EXCEPT !.work = IF Workspace THEN "published" ELSE @]
    /\ Proceed("files")

InstallFiles ==
    /\ Holds("files") /\ dst.stage
    /\ dst' = [dst EXCEPT !.files = TRUE]
    /\ Proceed("commit")

\* CommitIncomingThreadTransfer: history and ownership in one transaction.
CommitIncoming ==
    /\ Holds("commit")
    /\ dst.phase \in {"prepared", "complete"}
    /\ dst' = [dst EXCEPT !.phase = "complete"]
    /\ Proceed("clean")

\* appTransferInstaller.Discard finds the reservation through the manifest of
\* the extracted archive, and refuses once the workspace is published.
Discard ==
    /\ Holds("discard")
    /\ dst' = IF Workspace /\ dst.stage THEN [dst EXCEPT !.work = "none"] ELSE dst
    /\ dst.work # "published"
    /\ Proceed("canceltx")

CancelDestination ==
    /\ Holds("canceltx")
    /\ dst' = [dst EXCEPT !.phase = "canceled"]
    /\ Proceed("clean")

RunClean ==
    /\ Holds("free")
    /\ dst.phase \in Terminal /\ dst.cleanup
    /\ lock' = [at |-> "clean", by |-> "job"]
    /\ UNCHANGED <<dst, call>>

CleanDestination ==
    /\ Holds("clean")
    /\ dst' = [dst EXCEPT !.open = FALSE, !.received = 0, !.stage = FALSE,
                          !.recipe = FALSE, !.proof = FALSE, !.cleanup = FALSE]
    /\ Release

HolderNext ==
    \/ Checkpoint \/ Extract \/ Reserve \/ WriteRecipe \/ AdvanceDestination
    \/ Publish \/ InstallFiles \/ CommitIncoming \/ Discard \/ CancelDestination
    \/ CleanDestination

JobNext == RunPrepare \/ RunInstall \/ RunClean

-----------------------------------------------------------------------------
(* What goes wrong.                                                        *)

\* The request leaves the worker's sight but not the network, or keeps its
\* hold of the destination's lock.
Abandon ==
    /\ late' = IF call.at = "sent" /\ call.op \in Lingering
               THEN late \union {[op |-> call.op, archive |-> call.archive,
                                  offset |-> call.offset]}
               ELSE late
    /\ lock' = IF call.at = "busy" THEN [lock EXCEPT !.by = "late"] ELSE lock

\* A request times out and the attempt ends.
Timeout ==
    /\ wk.pc \in Waits /\ call.at \in {"sent", "busy", "served"}
    /\ Abandon /\ Stop
    /\ UNCHANGED <<conv, src, dst>>

\* A chunk times out: ask for the checkpoint and go on with a smaller one.
ChunkTimeout ==
    /\ wk.pc = "wait" /\ call.op = "chunk" /\ call.at \in {"sent", "busy", "served"}
    /\ Abandon
    /\ wk' = [wk EXCEPT !.pc = "resync", !.st = NoState]
    /\ call' = [NoCall EXCEPT !.at = "sent"]
    /\ UNCHANGED <<conv, src, dst>>

\* A local step of the source fails with an error; the scheduler retries.
SourceStepFails ==
    /\ wk.pc \in LocalSteps
    /\ Stop
    /\ UNCHANGED <<conv, src, late, dst, lock>>

\* So does a step of the lock's holder; what it made durable stays.
HolderFails ==
    /\ lock.at # "free"
    /\ lock' = Free /\ Answer(lock.by, "failed")
    /\ UNCHANGED <<conv, src, wk, late, dst>>

\* The uploaded bytes or their checkpoint are damaged or lost.
DamageUpload ==
    /\ dst.phase = "preparing" /\ dst.open
    /\ dst' = [dst EXCEPT !.open = FALSE, !.received = 0]
    /\ UNCHANGED <<conv, src, wk, call, late, lock>>

\* A crash forgets what is in memory.  The cleanup flag is written without the
\* durable commit of the phases: a power loss may rewind it.
SourceCrash ==
    /\ Abandon /\ Stop
    /\ conv' = [conv EXCEPT !.turn = FALSE]
    /\ \E rewound \in BOOLEAN : src' = [src EXCEPT !.cleanup = @ \/ rewound]
    /\ UNCHANGED dst

DestinationCrash ==
    /\ lock' = Free
    /\ call' = IF call.at \in {"busy", "served"} THEN [call EXCEPT !.at = "failed"] ELSE call
    /\ \E rewound \in BOOLEAN : dst' = [dst EXCEPT !.cleanup = @ \/ rewound]
    /\ UNCHANGED <<conv, src, wk, late>>

FaultNext ==
    \/ Timeout \/ ChunkTimeout \/ SourceStepFails \/ HolderFails
    \/ ExtractDamaged \/ ReserveFails \/ DamageUpload
    \/ SourceCrash \/ DestinationCrash

\* What happens when nothing goes wrong; some of it looks like a fault.
CalmNext == UserNext \/ WorkerNext \/ Deliver \/ DeliverLate \/ JobNext \/ HolderNext

Next == CalmNext \/ FaultNext

Spec == Init /\ [][Next]_vars

-----------------------------------------------------------------------------
(* Fairness.  Each worker is a goroutine the scheduler keeps resuming, and *)
(* lock waiters queue in arrival order (keyedlock), so a request at the    *)
(* door is served although jobs take the lock again and again.  Faults may *)
(* recur for any length of time but not forever.                           *)

Calm == <>[][CalmNext]_vars

Fairness ==
    /\ WF_vars(WorkerNext)
    /\ WF_vars(HolderNext)
    /\ SF_vars(Deliver)
    /\ SF_vars(RunPrepare) /\ SF_vars(RunInstall) /\ SF_vars(RunClean)

FairSpec == Spec /\ Fairness /\ Calm

-----------------------------------------------------------------------------
(* Properties.                                                             *)

Retired == src.phase \in {"committed", "complete"}

\* Every request the destination may still serve.
InFlight == late \union
    (IF call.at = "sent" THEN {[op |-> call.op, archive |-> call.archive,
                                offset |-> call.offset]} ELSE {})

\* The type of every variable.
TypeOK ==
    /\ conv \in Conversations /\ src \in Sources /\ wk \in Workers /\ call \in Calls
    /\ late \subseteq Requests /\ dst \in Destinations /\ lock \in Locks

\* A moved conversation is never runnable on both computers, whatever crashes,
\* times out or arrives late (a draft likewise: its source stays fenced until
\* the draft is consumed there).
SingleOwner ==
    DestMayRun => \/ conv.kind = "copy"
                  \/ ~SourceMayRun
                  \/ conv.kind = "draft" /\ conv.consumed

\* Once the source has retired, everything the destination needs to finish
\* without it is still there: nothing released the reservation, the recipe or
\* the extracted files, and the destination cannot be canceled any more.
RetiredIsRecoverable ==
    Retired => \/ dst.phase = "complete"
               \/ /\ dst.phase = "prepared" /\ dst.recipe /\ dst.stage
                  /\ Workspace => dst.work # "none"
                  /\ dst.archive = src.archive

\* The secret that activates the destination leaves the source only after the
\* source's retirement is durable; the same secret sent to cancel only once
\* the source can no longer retire.  So no computer ever holds both verdicts.
ProofFollowsVerdict ==
    /\ dst.proof \/ (\E req \in InFlight : req.op = "activate") => Retired
    /\ (\E req \in InFlight : req.op = "cancel") => src.cancel /\ ~Retired

\* What becomes runnable at the destination is the conversation as the source
\* last wrote it: nothing was written after the snapshot was taken (a copy may
\* go on, but the copy that arrives is the sealed one).
NothingLost ==
    DestMayRun => /\ dst.archive = src.archive
                  /\ conv.kind # "copy" => dst.archive = conv.version

\* A turn never runs under the fence: it checked the access when it started,
\* and the fence is only raised over an idle conversation.
NoTurnUnderFence == conv.turn => SourceMayRun

\* A canceled destination published nothing and cannot be activated later, and a
\* source that canceled leaves no receiver behind that only the source could
\* release: DiscardUnprepared refuses a prepared destination.
CancelIsClean ==
    /\ dst.phase = "canceled" => ~dst.files /\ ~dst.proof /\ dst.work # "published"
    /\ src.phase = "canceled" => dst.phase \in {"none", "preparing", "canceled"}

\* Phases never go back on either side, and the archive identity is sealed.
Rank(phase) == CASE phase = "none" -> 0 [] phase = "preparing" -> 1
                 [] phase = "prepared" -> 2 [] phase = "committed" -> 3
                 [] phase \in Terminal -> 4
Forward ==
    /\ Rank(src'.phase) >= Rank(src.phase) /\ Rank(dst'.phase) >= Rank(dst.phase)
    /\ src.phase \in Terminal => src'.phase = src.phase
    /\ dst.phase \in Terminal => dst'.phase = dst.phase
    /\ src.archive # 0 => src'.archive = src.archive
    /\ dst.archive # 0 => dst'.archive = dst.archive
Monotone == [][Forward]_vars

\* A move and a draft implement the abstract handoff: nobody writes between
\* retirement and arrival, and what arrives is what the source wrote last.  (A
\* copied conversation stays with its source.)
Ownership == INSTANCE TransferOwnership WITH
    holder <- CASE conv.kind = "copy" \/ ~(DestMayRun \/ Retired) -> "source"
                [] conv.kind # "copy" /\ DestMayRun               -> "destination"
                [] conv.kind # "copy" /\ ~DestMayRun /\ Retired   -> "transit",
    text <- IF conv.kind # "copy" /\ DestMayRun THEN dst.archive ELSE conv.version
ImplementsOwnership == Ownership!Spec

\* A retired source is eventually owned by the destination, and told so.
RetiredCompletes ==
    src.phase = "committed" ~> (src.phase = "complete" /\ dst.phase = "complete")

\* A requested cancellation is eventually acknowledged, and gives the
\* conversation back.
CancelResolves == src.cancel ~> (src.phase = "canceled" /\ SourceMayRun)

\* A terminal operation eventually gives back its scratch space.
ScratchReclaimed ==
    /\ []<>(src.phase \in Terminal => ~src.cleanup)
    /\ []<>(dst.phase \in Terminal => ~dst.cleanup)

\* The promise of DestinationDiscarder: inert workspace reservations are
\* released before a cancellation is acknowledged.
CanceledHoldsNoReservation == dst.phase = "canceled" => dst.work # "reserved"

-----------------------------------------------------------------------------
(* The inductive invariant behind SingleOwner, ProofFollowsVerdict and     *)
(* RetiredIsRecoverable.                                                   *)

\* Bounds that the types need to be inductive.
VersionsInv == conv.version >= 1 /\ (conv.turn => conv.version < MaxVersion)

\* Whatever carries the activation, or follows from it, implies retirement.
ActivationInv ==
    /\ dst.proof \/ dst.phase = "complete" => Retired
    /\ lock.at \in {"publish", "files", "commit"} => Retired
    /\ call.op = "activate" => Retired
    /\ \A req \in late : req.op = "activate" => Retired
    /\ wk.row.phase \in {"committed", "complete"} => Retired

\* Whatever carries the cancellation implies that the source cannot retire.
CancellationInv ==
    /\ src.cancel => ~Retired
    /\ call.op = "cancel" \/ wk.row.cancel => src.cancel
    /\ \A req \in late : req.op = "cancel" => src.cancel
    /\ wk.pc = "canceling" => src.cancel \/ src.phase = "canceled"

\* What the source believes of the destination, and the destination of itself.
BeliefInv ==
    /\ Retired => dst.phase \in {"prepared", "complete"}
    /\ src.phase = "complete" \/ wk.pc = "complete" \/ wk.st.phase = "complete" =>
          dst.phase = "complete"
    /\ wk.st.phase = "prepared" \/ wk.pc \in {"advance", "commit"} =>
          dst.phase \in {"prepared", "complete"} \/ src.cancel
    /\ lock.at \in {"checkpoint", "extract", "reserve", "recipe", "advance"} =>
          dst.phase = "preparing"
    /\ lock.at \in {"publish", "files", "commit"} => dst.phase = "prepared"
    /\ lock.at \in {"discard", "canceltx"} =>
          src.cancel \/ dst.phase \in {"preparing", "canceled"}
    /\ wk.pc = "adopt" => dst.phase = "canceled"
    /\ lock.at = "clean" => dst.phase \in Terminal

\* What a prepared destination needs later, built up by one preparation.
Ready == dst.stage /\ dst.recipe /\ (Workspace => dst.work # "none")
ReadyInv ==
    /\ dst.phase = "prepared" => Ready \/ src.cancel
    /\ lock.at \in {"reserve", "recipe", "advance"} => dst.stage
    /\ lock.at \in {"recipe", "advance"} => (Workspace => dst.work # "none")
    /\ lock.at = "advance" => dst.recipe

\* Only one archive identity exists.
ArchiveInv ==
    /\ dst.archive \in {0, src.archive} /\ wk.row.archive \in {0, src.archive}
    /\ call.archive \in {0, src.archive}
    /\ \A req \in late : req.archive \in {0, src.archive}
    /\ dst.open \/ dst.phase \in {"prepared", "complete"} => dst.archive # 0
    /\ lock.at \in {"checkpoint", "extract", "reserve", "recipe", "advance"} =>
          dst.archive # 0

\* A draft is named when the fence is raised, and consumed by completion.
DraftInv ==
    conv.kind = "draft" => /\ src.phase # "none" => src.draft # 0
                           /\ src.phase = "complete" => conv.consumed

IInv == /\ TypeOK /\ VersionsInv /\ ActivationInv /\ CancellationInv /\ BeliefInv
        /\ ReadyInv /\ ArchiveInv /\ DraftInv

=============================================================================
