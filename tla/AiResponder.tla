----------------------------- MODULE AiResponder -----------------------------
(***************************************************************************)
(* From the ai-response job to the reply: AiResponseProcessor.process, the *)
(* outcome of AiEngineService.processMessage, and the steps of             *)
(* ResponseDispatcherService.dispatch.  The job's batch is read once and   *)
(* used until the end of the run; agents, later messages and crashes       *)
(* happen between any two actions.                                         *)
(***************************************************************************)
EXTENDS PipelineStore

AiGoto(p, pc) == aiw' = [aiw EXCEPT ![p].pc = pc]
AiUpdate(p, w) == aiw' = [aiw EXCEPT ![p] = w]

\* What almost every action of the run leaves alone.
AiFrame == UNCHANGED <<chatVars, inJob, inw, accepted, scheduled, exhausted>>

AddLog(p, type, status) ==
  log' = log \cup {[type |-> type, conv |-> aiw[p].conv,
                    batch |-> aiw[p].batch, status |-> status]}

MarkProcessed(S) ==
  row' = [id \in ExtIds |-> IF id \in S THEN [row[id] EXCEPT !.processed = TRUE]
                                        ELSE row[id]]

-----------------------------------------------------------------------------
\* Mutant: a job that another worker runs is taken too.
AiPickLocked(p) ==
  /\ aiw[p].pc = "idle"
  /\ \E c \in Convs :
       /\ aiJob[c].state \in {"queued", "active"}
       /\ aiJob' = [aiJob EXCEPT ![c].state = "active"]
       /\ AiUpdate(p, [IdleAi EXCEPT !.pc = "load", !.conv = c])
  /\ UNCHANGED <<row, replyVars, excused, budget>> /\ AiFrame

\* The delay of a queued job has passed and a worker takes it.
AiPick(p) ==
  /\ aiw[p].pc = "idle"
  /\ \E c \in Convs :
       /\ aiJob[c].state = "queued"
       /\ aiJob' = [aiJob EXCEPT ![c].state = "active"]
       /\ AiUpdate(p, [IdleAi EXCEPT !.pc = "load", !.conv = c])
  /\ UNCHANGED <<row, replyVars, excused, budget>> /\ AiFrame

\* Mutant: aiEnabled is not looked at.
LoadStatusOnly(p) ==
  /\ aiw[p].pc = "load"
  /\ AiGoto(p, IF conv[aiw[p].conv].status = "ACTIVE" THEN "read" ELSE "skipRead")
  /\ UNCHANGED <<row, aiJob, replyVars, excused, budget>> /\ AiFrame

\* The only look at status and aiEnabled in the whole run.
LoadConversation(p) ==
  /\ aiw[p].pc = "load"
  /\ AiGoto(p, IF IsLive(aiw[p].conv) THEN "read" ELSE "skipRead")
  /\ UNCHANGED <<row, aiJob, replyVars, excused, budget>> /\ AiFrame

SkipRead(p) ==
  LET ids == Pending(aiw[p].conv)
  IN /\ aiw[p].pc = "skipRead"
     /\ AiUpdate(p, [aiw[p] EXCEPT
                       !.batch = ids,
                       !.pc = IF ids = {} THEN "skipLog" ELSE "skipMark"])
     /\ UNCHANGED <<row, aiJob, replyVars, excused, budget>> /\ AiFrame

SkipMark(p) ==
  /\ aiw[p].pc = "skipMark"
  /\ MarkProcessed(aiw[p].batch)
  /\ AiGoto(p, "skipLog")
  /\ UNCHANGED <<aiJob, replyVars, excused, budget>> /\ AiFrame

SkipLog(p) ==
  /\ aiw[p].pc = "skipLog"
  /\ AddLog(p, "AI_SKIPPED_INACTIVE_CONVERSATION", "SUCCESS")
  /\ AiGoto(p, "finish")
  /\ UNCHANGED <<row, aiJob, outbox, answered, excused, budget>> /\ AiFrame

AllSkipped(ids) == \A id \in ids : IsMedia(id) /\ row[id].media = "SKIPPED"

\* Mutants: only one pending message is read; a batch of skipped media ends the
\* run at once.
ReadBatch(p, ids) ==
  /\ aiw[p].pc = "read"
  /\ AiUpdate(p, [aiw[p] EXCEPT !.batch = ids,
                                !.pc = IF ids = {} THEN "finish" ELSE "engine"])
  /\ UNCHANGED <<row, aiJob, replyVars, excused, budget>> /\ AiFrame
ReadOnePending(p) ==
  \/ \E id \in Pending(aiw[p].conv) : ReadBatch(p, {id})
  \/ Pending(aiw[p].conv) = {} /\ ReadBatch(p, {})
ReadNoSkipped(p) ==
  LET ids == Pending(aiw[p].conv)
  IN ReadBatch(p, IF AllSkipped(ids) THEN {} ELSE ids)

ReadPending(p) ==
  LET ids == Pending(aiw[p].conv)
  IN /\ aiw[p].pc = "read"
     /\ AiUpdate(p, [aiw[p] EXCEPT
                       !.batch = ids,
                       !.kind = IF ids # {} /\ AllSkipped(ids) THEN "media" ELSE "ai",
                       !.pc = IF ids = {} THEN "finish"
                              ELSE IF AllSkipped(ids) THEN "context" ELSE "engine"])
     /\ UNCHANGED <<row, aiJob, replyVars, excused, budget>> /\ AiFrame

\* Only unsupported media: is an unsupportedMediaMessage configured?
ReadFallback(p) ==
  /\ aiw[p].pc = "context"
  /\ \E text \in BOOLEAN : AiUpdate(p, [aiw[p] EXCEPT !.text = text, !.pc = "mark"])
  /\ UNCHANGED <<row, aiJob, replyVars, excused, budget>> /\ AiFrame

\* A text (the model's, or fallbackMessage when the provider failed), or null
\* (no active AiContext, or no fallbackMessage).
RunEngine(p) ==
  /\ aiw[p].pc = "engine"
  /\ \E text \in BOOLEAN : AiUpdate(p, [aiw[p] EXCEPT !.text = text, !.pc = "mark"])
  /\ UNCHANGED <<row, aiJob, replyVars, excused, budget>> /\ AiFrame

\* Mutants: a batch that gets a reply is not marked; all that is pending by now
\* is marked.
MarkSilentOnly(p) ==
  /\ aiw[p].pc = "mark"
  /\ MarkProcessed(IF aiw[p].text THEN {} ELSE aiw[p].batch)
  /\ AiGoto(p, IF aiw[p].text THEN "send" ELSE "logRun")
  /\ UNCHANGED <<aiJob, replyVars, excused, budget>> /\ AiFrame
MarkAllPending(p) ==
  /\ aiw[p].pc = "mark"
  /\ MarkProcessed(Pending(aiw[p].conv))
  /\ AiGoto(p, IF aiw[p].text THEN "send" ELSE "logRun")
  /\ UNCHANGED <<aiJob, replyVars, excused, budget>> /\ AiFrame

\* updateMany on the ids read at the start, before anything is sent.
MarkBatch(p) ==
  /\ aiw[p].pc = "mark"
  /\ MarkProcessed(aiw[p].batch)
  /\ AiGoto(p, IF aiw[p].text THEN "send" ELSE "logRun")
  /\ UNCHANGED <<aiJob, replyVars, excused, budget>> /\ AiFrame

-----------------------------------------------------------------------------
(* ResponseDispatcherService.dispatch.                                      *)

\* sender.send never throws.  The provider may have delivered a reply whose
\* response was lost or could not be parsed; without a sender or usable
\* credentials nothing is sent at all.
SendOutcomes == {[delivered |-> TRUE,  ack |-> "SENT"],
                 [delivered |-> TRUE,  ack |-> "FAILED"],
                 [delivered |-> FALSE, ack |-> "FAILED"],
                 [delivered |-> FALSE, ack |-> "UNSENDABLE"]}

SendReply(p) ==
  /\ aiw[p].pc = "send"
  /\ \E o \in SendOutcomes :
       /\ answered' = [id \in ExtIds |->
                         IF o.delivered /\ id \in aiw[p].batch
                         THEN answered[id] + 1 ELSE answered[id]]
       /\ AiUpdate(p, [aiw[p] EXCEPT !.ack = o.ack, !.pc = "record"])
  /\ UNCHANGED <<row, aiJob, outbox, log, excused, budget>> /\ AiFrame

RowStatus(ack) == IF ack = "SENT" THEN "SENT" ELSE "FAILED"

\* message.create; createFailedMessage writes no OUTBOUND_MESSAGE log.
RecordOutbound(p) ==
  /\ aiw[p].pc = "record"
  /\ outbox' = outbox \cup {[conv |-> aiw[p].conv, batch |-> aiw[p].batch,
                             status |-> RowStatus(aiw[p].ack)]}
  /\ AiGoto(p, IF aiw[p].ack = "UNSENDABLE" THEN "logRun" ELSE "logSend")
  /\ UNCHANGED <<row, aiJob, log, answered, excused, budget>> /\ AiFrame

LogOutbound(p) ==
  /\ aiw[p].pc = "logSend"
  /\ AddLog(p, "OUTBOUND_MESSAGE", IF aiw[p].ack = "SENT" THEN "SUCCESS" ELSE "FAILED")
  /\ AiGoto(p, "logRun")
  /\ UNCHANGED <<row, aiJob, outbox, answered, excused, budget>> /\ AiFrame

-----------------------------------------------------------------------------
RunAction(w) ==
  IF w.kind = "ai"
  THEN IF w.text THEN "AI_RESPONSE" ELSE "AI_NO_RESPONSE"
  ELSE IF w.text THEN "AI_UNSUPPORTED_MEDIA_FALLBACK" ELSE "AI_UNSUPPORTED_MEDIA_SILENT"

\* Mutant: a run that composed a text is logged as a success.
LogRunSuccess(p) ==
  /\ aiw[p].pc = "logRun"
  /\ AddLog(p, RunAction(aiw[p]), "SUCCESS")
  /\ AiGoto(p, "finish")
  /\ UNCHANGED <<row, aiJob, outbox, answered, excused, budget>> /\ AiFrame

LogRun(p) ==
  /\ aiw[p].pc = "logRun"
  /\ AddLog(p, RunAction(aiw[p]),
            IF aiw[p].text /\ aiw[p].ack # "SENT" THEN "FAILED" ELSE "SUCCESS")
  /\ AiGoto(p, "finish")
  /\ UNCHANGED <<row, aiJob, outbox, answered, excused, budget>> /\ AiFrame

\* removeOnComplete: true
AiFinish(p) ==
  /\ aiw[p].pc = "finish"
  /\ aiJob' = [aiJob EXCEPT ![aiw[p].conv] = NoAiJob]
  /\ AiUpdate(p, IdleAi)
  /\ UNCHANGED <<row, replyVars, excused, budget>> /\ AiFrame

\* The try block starts at the engine call; the media branch is outside it.
InTry(w) == /\ w.kind = "ai"
            /\ w.pc \in {"engine", "mark", "send", "record", "logSend", "logRun"}

\* What a run that breaks off leaves unprocessed: all it was going to read, or
\* its batch.
Abandoned(p) == IF aiw[p].pc \in {"load", "skipRead", "read"}
                THEN Pending(aiw[p].conv)
                ELSE aiw[p].batch \cap Pending(aiw[p].conv)

\* Caught: the error is logged and the job completes.  There is no retry.
AiCatch(p) ==
  /\ InTry(aiw[p])
  /\ Spend("fault")
  /\ AiGoto(p, "logError")
  /\ excused' = excused \cup Abandoned(p)
  /\ UNCHANGED <<row, aiJob, replyVars>> /\ AiFrame

LogError(p) ==
  /\ aiw[p].pc = "logError"
  /\ AddLog(p, "AI_PROCESSING_ERROR", "FAILED")
  /\ AiGoto(p, "finish")
  /\ UNCHANGED <<row, aiJob, outbox, answered, excused, budget>> /\ AiFrame

\* Not caught: attempts is 1, so the job is failed and kept (removeOnFail).
AiThrow(p) ==
  /\ aiw[p].pc \notin {"idle", "finish"}
  /\ ~InTry(aiw[p])
  /\ Spend("fault")
  /\ aiJob' = [aiJob EXCEPT ![aiw[p].conv].state = "failed"]
  /\ AiUpdate(p, IdleAi)
  /\ excused' = excused \cup Abandoned(p)
  /\ UNCHANGED <<row, replyVars>> /\ AiFrame

\* The stalled checker: one more start, then the failed set.
AiStalled(c) ==
  LET again == Stall(aiJob[c]).state = "queued"
  IN /\ OrphanAi(c)
     /\ aiJob' = [aiJob EXCEPT ![c] = Stall(aiJob[c])]
     /\ excused' = IF again THEN excused ELSE excused \cup Pending(c)
     /\ UNCHANGED <<row, aiw, replyVars, budget>> /\ AiFrame

AiStep(p) ==
  \/ AiPick(p) \/ LoadConversation(p) \/ SkipRead(p) \/ SkipMark(p)
  \/ SkipLog(p) \/ ReadPending(p) \/ ReadFallback(p) \/ RunEngine(p)
  \/ MarkBatch(p) \/ SendReply(p) \/ RecordOutbound(p) \/ LogOutbound(p)
  \/ LogRun(p) \/ AiFinish(p) \/ AiCatch(p) \/ LogError(p) \/ AiThrow(p)
=============================================================================
