--------------------------- MODULE PipelineTyping ---------------------------
(***************************************************************************)
(* Type correctness of the message pipeline: what each action assigns lies *)
(* in the domain of its variable.  A worker's conversation and message id  *)
(* are known to exist only by AiHolds and InboundHolds, so these are       *)
(* assumed here and proved in MessagePipeline_proofs.                      *)
(***************************************************************************)
EXTENDS MessagePipeline, TLAPS

\* The initial state is well typed.
LEMMA TypeInit == Init => TypeOK
  BY StoreAssumption
  DEF StoreAssumption, Init, TypeOK, NoConversation, Conversation, NoMessage,
      Message, NoInboundJob, InboundJob, NoAiJob, AiJob, IdleInbound,
      InboundWorker, IdleAi, AiWorker, JobState, InboundPc, AiPc,
      ConversationStatus, MediaStatus

\* A spent budget is a budget.
LEMMA SpendType ==
  ASSUME TypeOK, NEW k \in BudgetKinds, Spend(k)
  PROVE  budget' \in [BudgetKinds -> Nat]
  BY DEF TypeOK, Spend

\* An inbound worker that moves on is an inbound worker.
LEMMA InboundGoto ==
  ASSUME TypeOK, NEW p \in Procs, NEW pc \in InboundPc, Goto(p, pc)
  PROVE  inw' \in [Procs -> InboundWorker]
<1>1. [inw[p] EXCEPT !.pc = pc] \in InboundWorker
  <2>1. inw[p] \in InboundWorker
    BY DEF TypeOK
  <2> QED
    BY <2>1 DEF InboundWorker
<1>2. inw' = [inw EXCEPT ![p] = [inw[p] EXCEPT !.pc = pc]]
  BY DEF Goto
<1> QED
  BY <1>1, <1>2 DEF TypeOK

\* One that has resolved its conversation too.
LEMMA InboundResolved ==
  ASSUME TypeOK, NEW p \in Procs, NEW c \in Convs, NEW ai \in BOOLEAN,
         inw' = [inw EXCEPT ![p] = [@ EXCEPT !.pc = "persist", !.conv = c, !.ai = ai]]
  PROVE  inw' \in [Procs -> InboundWorker]
<1>1. [inw[p] EXCEPT !.pc = "persist", !.conv = c, !.ai = ai] \in InboundWorker
  <2>1. inw[p] \in InboundWorker
    BY DEF TypeOK
  <2> QED
    BY <2>1 DEF InboundWorker, InboundPc
<1> QED
  BY <1>1 DEF TypeOK

\* A new media status leaves message rows.
LEMMA MediaType ==
  ASSUME TypeOK, NEW id, NEW status \in MediaStatus,
         row' = [row EXCEPT ![id].media = status]
  PROVE  row' \in [ExtIds -> Message]
<1>1. ASSUME id \in ExtIds
      PROVE  [row[id] EXCEPT !.media = status] \in Message
  <2>1. row[id] \in Message
    BY <1>1 DEF TypeOK
  <2> QED
    BY <2>1 DEF Message
<1>2. row' = [row EXCEPT ![id] = [row[id] EXCEPT !.media = status]]
  OBVIOUS
<1> QED
  BY <1>1, <1>2 DEF TypeOK

\* So is one that lets go of its job.
LEMMA InboundIdle ==
  ASSUME TypeOK, NEW p \in Procs, inw' = [inw EXCEPT ![p] = IdleInbound]
  PROVE  inw' \in [Procs -> InboundWorker]
  BY DEF TypeOK, InboundWorker, IdleInbound, InboundPc

\* An AI worker that moves on is an AI worker.
LEMMA AiGotoType ==
  ASSUME TypeOK, NEW p \in Procs, NEW pc \in AiPc, AiGoto(p, pc)
  PROVE  aiw' \in [Procs -> AiWorker]
<1>1. [aiw[p] EXCEPT !.pc = pc] \in AiWorker
  <2>1. aiw[p] \in AiWorker
    BY DEF TypeOK
  <2> QED
    BY <2>1 DEF AiWorker
<1>2. aiw' = [aiw EXCEPT ![p] = [aiw[p] EXCEPT !.pc = pc]]
  BY DEF AiGoto
<1> QED
  BY <1>1, <1>2 DEF TypeOK

\* So is one that lets go of its job.
LEMMA AiIdle ==
  ASSUME TypeOK, NEW p \in Procs, aiw' = [aiw EXCEPT ![p] = IdleAi]
  PROVE  aiw' \in [Procs -> AiWorker]
  BY DEF TypeOK, AiWorker, IdleAi, AiPc

\* So is one that gets new locals.
LEMMA AiUpdateType ==
  ASSUME TypeOK, NEW p \in Procs, NEW w \in AiWorker, AiUpdate(p, w)
  PROVE  aiw' \in [Procs -> AiWorker]
  BY DEF TypeOK, AiUpdate

\* A record of the worker with a few fields replaced.
LEMMA AiWorkerWith ==
  ASSUME NEW w \in AiWorker, NEW pc \in AiPc, NEW batch \in SUBSET ExtIds,
         NEW kind \in {"ai", "media"}, NEW text \in BOOLEAN,
         NEW ack \in {"none", "SENT", "FAILED", "UNSENDABLE"}
  PROVE  /\ [w EXCEPT !.batch = batch, !.pc = pc] \in AiWorker
         /\ [w EXCEPT !.batch = batch, !.kind = kind, !.pc = pc] \in AiWorker
         /\ [w EXCEPT !.text = text, !.pc = pc] \in AiWorker
         /\ [w EXCEPT !.ack = ack, !.pc = pc] \in AiWorker
  BY DEF AiWorker

\* A failed attempt or a stall leaves an inbound job.
LEMMA InboundJobType ==
  ASSUME NEW job \in InboundJob
  PROVE  FailAttempt(job) \in InboundJob /\ Stall(job) \in InboundJob
<1>1. ASSUME NEW s \in JobState, NEW n \in Nat
      PROVE  /\ [job EXCEPT !.state = s, !.stalls = n] \in InboundJob
             /\ [job EXCEPT !.state = s, !.attempts = n] \in InboundJob
  BY DEF InboundJob
<1>2. job.stalls + 1 \in Nat /\ job.attempts + 1 \in Nat
  BY DEF InboundJob
<1> QED
  BY <1>1, <1>2 DEF FailAttempt, Stall, JobState

\* A stall leaves an AI job.
LEMMA AiJobType == ASSUME NEW job \in AiJob PROVE Stall(job) \in AiJob
<1>1. ASSUME NEW s \in JobState, NEW n \in Nat
      PROVE  [job EXCEPT !.state = s, !.stalls = n] \in AiJob
  BY DEF AiJob
<1>2. job.stalls + 1 \in Nat
  BY DEF AiJob
<1> QED
  BY <1>1, <1>2 DEF Stall, JobState

\* findMany returns message ids.
LEMMA PendingType == ASSUME NEW c PROVE Pending(c) \subseteq ExtIds
  BY DEF Pending

\* updateMany leaves message rows.
LEMMA MarkType ==
  ASSUME TypeOK, NEW S, MarkProcessed(S)
  PROVE  row' \in [ExtIds -> Message]
  BY DEF TypeOK, MarkProcessed, Message

\* logAction leaves action logs.
LEMMA AddLogType ==
  ASSUME TypeOK, AiHolds, NEW p \in Procs, aiw[p].pc # "idle",
         NEW type \in ActionType, NEW status \in {"SUCCESS", "FAILED"},
         AddLog(p, type, status)
  PROVE  log' \subseteq ActionLog
<1>1. aiw[p].conv \in Convs /\ aiw[p].batch \subseteq ExtIds
  BY DEF AiHolds, TypeOK, AiWorker
<1> QED
  BY <1>1 DEF TypeOK, AddLog, ActionLog

\* What a broken run abandons are message ids.
LEMMA AbandonedType == ASSUME NEW p PROVE Abandoned(p) \subseteq ExtIds
  BY DEF Abandoned, Pending

\* The event of a running job has a sender.
LEMMA SenderType ==
  ASSUME TypeOK, InboundHolds, KeysMatch, NEW p \in Procs, inw[p].pc # "idle"
  PROVE  Sender(p) \in Contacts
  BY StoreAssumption DEF StoreAssumption, InboundHolds, KeysMatch, Sender

\* A touch keeps newer a relation on conversations.
LEMMA TouchedType ==
  ASSUME TypeOK, NEW c \in Convs
  PROVE  Touched(c) \subseteq Convs \X Convs
  BY DEF TypeOK, Touched

\* A step of an inbound worker keeps every type.
LEMMA TypeInboundStep ==
  ASSUME TypeOK, InboundHolds, KeysMatch, NEW p \in Procs, InboundStep(p)
  PROVE  TypeOK'
<1> USE DEF chatVars, replyVars
<1>1. CASE InboundPick(p)
  <2> PICK id \in ExtIds :
        /\ inJob' = [inJob EXCEPT ![id].state = "active"]
        /\ inw' = [inw EXCEPT ![p] = [IdleInbound EXCEPT !.pc = "contact", !.id = id]]
    BY <1>1 DEF InboundPick
  <2>1. inJob' \in [ExtIds -> InboundJob]
    BY DEF TypeOK, InboundJob, JobState
  <2>2. inw' \in [Procs -> InboundWorker]
    BY DEF TypeOK, InboundWorker, InboundPc, IdleInbound
  <2> QED
    BY <1>1, <2>1, <2>2 DEF InboundPick, TypeOK
<1>2. CASE ResolveContact(p)
  BY <1>2, InboundGoto, SenderType DEF ResolveContact, TypeOK, InboundPc
<1>3. CASE FindConversation(p)
  <2>1. CASE Goto(p, "create")
    BY <1>3, <2>1, InboundGoto DEF FindConversation, TypeOK, InboundPc
  <2>2. ASSUME NEW c \in Latest(ActiveOf(Sender(p))),
               inw' = [inw EXCEPT ![p] = [@ EXCEPT !.pc = "persist", !.conv = c,
                                                   !.ai = conv[c].ai]]
        PROVE  TypeOK'
    <3>1. c \in Convs
      BY DEF Latest, ActiveOf
    <3>2. conv[c].ai \in BOOLEAN
      BY <3>1 DEF TypeOK, Conversation
    <3>3. inw' \in [Procs -> InboundWorker]
      BY <2>2, <3>1, <3>2, InboundResolved
    <3> QED
      BY <1>3, <3>3 DEF FindConversation, TypeOK
  <2> QED
    BY <1>3, <2>1, <2>2 DEF FindConversation
<1>4. CASE CreateConversation(p)
  <2> PICK c \in Convs :
        /\ conv' = [conv EXCEPT ![c] = [status |-> "ACTIVE", ai |-> TRUE, contact |-> Sender(p),
                                        opened |-> HowCreated(p)]]
        /\ newer' = Touched(c)
        /\ inw' = [inw EXCEPT ![p] = [@ EXCEPT !.pc = "persist", !.conv = c,
                                                !.ai = TRUE]]
    BY <1>4 DEF CreateConversation
  <2>1. conv' \in [Convs -> Conversation]
    <3>1. Sender(p) \in Contacts
      BY <1>4, SenderType DEF CreateConversation
    <3>2. HowCreated(p) \in {"ALONE", "RACE", "AGENT"}
      BY DEF HowCreated
    <3> QED
      BY <3>1, <3>2 DEF TypeOK, Conversation, ConversationStatus
  <2>2. inw' \in [Procs -> InboundWorker]
    BY InboundResolved
  <2> QED
    BY <1>4, <2>1, <2>2, TouchedType DEF CreateConversation, TypeOK
<1>5. CASE PersistMessage(p)
  <2>1. row' \in [ExtIds -> Message]
    <3>1. /\ inw[p].id \in ExtIds /\ inw[p].conv \in Convs
          /\ inJob[inw[p].id].event \in Events
      BY <1>5 DEF PersistMessage, InboundHolds, KeysMatch
    <3> QED
      BY <1>5, <3>1 DEF PersistMessage, TypeOK, Message, NoMessage, MediaStatus
  <2> QED
    BY <1>5, <2>1, InboundGoto DEF PersistMessage, TypeOK, InboundPc
<1>6. CASE TouchConversation(p)
  <2>1. inw[p].conv \in Convs
    BY <1>6 DEF TouchConversation, InboundHolds
  <2>2. inw' \in [Procs -> InboundWorker]
    BY <1>6, InboundGoto DEF TouchConversation, InboundPc
  <2> QED
    BY <1>6, <2>1, <2>2, TouchedType DEF TouchConversation, TypeOK
<1>7. CASE ProcessMedia(p)
  <2> PICK status \in {"SKIPPED", "FAILED", "PROCESSING"} :
        /\ row' = [row EXCEPT ![inw[p].id].media = status]
        /\ Goto(p, IF status = "PROCESSING" THEN "transcribe" ELSE "remove")
    BY <1>7 DEF ProcessMedia
  <2>1. row' \in [ExtIds -> Message]
    BY MediaType DEF MediaStatus
  <2>2. inw' \in [Procs -> InboundWorker]
    BY InboundGoto DEF InboundPc
  <2> QED
    BY <1>7, <2>1, <2>2 DEF ProcessMedia, TypeOK
<1>8. CASE TranscribeMedia(p)
  <2> PICK status \in {"COMPLETED", "FAILED"} :
        row' = [row EXCEPT ![inw[p].id].media = status]
    BY <1>8 DEF TranscribeMedia
  <2>1. row' \in [ExtIds -> Message]
    BY MediaType DEF MediaStatus
  <2> QED
    BY <1>8, <2>1, InboundGoto DEF TranscribeMedia, TypeOK, InboundPc
<1>9. CASE RemoveAiJob(p)
  <2>1. inw' \in [Procs -> InboundWorker]
    BY <1>9, InboundGoto DEF RemoveAiJob, InboundPc
  <2>2. aiJob' \in [Convs -> AiJob]
    <3>1. \/ aiJob' = aiJob
          \/ aiJob' = [aiJob EXCEPT ![inw[p].conv] = NoAiJob]
      BY <1>9 DEF RemoveAiJob
    <3>2. NoAiJob \in AiJob
      BY DEF AiJob, NoAiJob, JobState
    <3> QED
      BY <3>1, <3>2 DEF TypeOK
  <2>3. budget' \in [BudgetKinds -> Nat]
    BY <1>9, SpendType DEF RemoveAiJob, TypeOK, BudgetKinds
  <2> QED
    BY <1>9, <2>1, <2>2, <2>3 DEF RemoveAiJob, TypeOK
<1>10. CASE AddAiJob(p)
  <2>1. inw' \in [Procs -> InboundWorker]
    BY <1>10, InboundGoto DEF AddAiJob, InboundPc
  <2>2. aiJob' \in [Convs -> AiJob]
    <3>1. [state |-> "queued", stalls |-> 0] \in AiJob
      BY DEF AiJob, JobState
    <3> QED
      BY <1>10, <3>1 DEF AddAiJob, TypeOK
  <2>3. inw[p].id \in ExtIds
    BY <1>10 DEF AddAiJob, InboundHolds
  <2>4. scheduled' \subseteq ExtIds /\ excused' \subseteq ExtIds
    BY <1>10, <2>3 DEF AddAiJob, TypeOK
  <2> QED
    BY <1>10, <2>1, <2>2, <2>4 DEF AddAiJob, TypeOK
<1>11. CASE FinishInbound(p)
  <2>1. inJob' \in [ExtIds -> InboundJob]
    <3>1. \A job \in InboundJob : [job EXCEPT !.state = "completed"] \in InboundJob
      BY DEF InboundJob, JobState
    <3> QED
      BY <1>11, <3>1 DEF FinishInbound, TypeOK
  <2> QED
    BY <1>11, <2>1, InboundIdle DEF FinishInbound, TypeOK
<1>12. CASE InboundThrow(p)
  <2>1. inw[p].id \in ExtIds
    BY <1>12 DEF InboundThrow, InboundHolds
  <2>2. inJob' \in [ExtIds -> InboundJob]
    BY <1>12, <2>1, InboundJobType DEF InboundThrow, TypeOK
  <2>3. excused' \subseteq ExtIds /\ exhausted' \subseteq ExtIds
    BY <1>12, <2>1, PendingType DEF InboundThrow, TypeOK, Unscheduled
  <2>4. budget' \in [BudgetKinds -> Nat]
    BY <1>12, SpendType DEF InboundThrow, BudgetKinds
  <2> QED
    BY <1>12, <2>2, <2>3, <2>4, InboundIdle DEF InboundThrow, TypeOK
<1> QED
  BY <1>1, <1>2, <1>3, <1>4, <1>5, <1>6, <1>7, <1>8, <1>9, <1>10, <1>11, <1>12
  DEF InboundStep

\* A step of an AI worker keeps every type.
LEMMA TypeAiStep ==
  ASSUME TypeOK, AiHolds, NEW p \in Procs, AiStep(p)
  PROVE  TypeOK'
<1> USE DEF chatVars, replyVars, AiFrame
<1>1. CASE AiPick(p)
  <2> PICK c \in Convs :
        /\ aiJob' = [aiJob EXCEPT ![c].state = "active"]
        /\ AiUpdate(p, [IdleAi EXCEPT !.pc = "load", !.conv = c])
    BY <1>1 DEF AiPick
  <2>1. aiJob' \in [Convs -> AiJob]
    BY DEF TypeOK, AiJob, JobState
  <2>2. aiw' \in [Procs -> AiWorker]
    BY DEF TypeOK, AiUpdate, AiWorker, AiPc, IdleAi
  <2> QED
    BY <1>1, <2>1, <2>2 DEF AiPick, TypeOK
<1>2. CASE LoadConversation(p)
  <2>1. aiw' \in [Procs -> AiWorker]
    BY <1>2, AiGotoType DEF LoadConversation, AiPc
  <2> QED
    BY <1>2, <2>1 DEF LoadConversation, TypeOK
<1>3. CASE SkipRead(p)
  <2>1. aiw' \in [Procs -> AiWorker]
    <3> PICK pc \in {"skipLog", "skipMark"} :
          AiUpdate(p, [aiw[p] EXCEPT !.batch = Pending(aiw[p].conv), !.pc = pc])
      BY <1>3 DEF SkipRead
    <3> QED
      BY PendingType, AiWorkerWith, AiUpdateType DEF TypeOK, AiPc
  <2> QED
    BY <1>3, <2>1 DEF SkipRead, TypeOK
<1>4. CASE SkipMark(p)
  <2>1. aiw' \in [Procs -> AiWorker]
    BY <1>4, AiGotoType DEF SkipMark, AiPc
  <2> QED
    BY <1>4, <2>1, MarkType DEF SkipMark, TypeOK
<1>5. CASE SkipLog(p)
  <2>1. aiw' \in [Procs -> AiWorker]
    BY <1>5, AiGotoType DEF SkipLog, AiPc
  <2>2. log' \subseteq ActionLog
    BY <1>5, AddLogType DEF SkipLog, ActionType
  <2> QED
    BY <1>5, <2>1, <2>2 DEF SkipLog, TypeOK
<1>6. CASE ReadPending(p)
  <2>1. aiw' \in [Procs -> AiWorker]
    <3> PICK pc \in {"finish", "context", "engine"}, kind \in {"ai", "media"} :
          AiUpdate(p, [aiw[p] EXCEPT !.batch = Pending(aiw[p].conv),
                                     !.kind = kind, !.pc = pc])
      BY <1>6 DEF ReadPending
    <3> QED
      BY PendingType, AiWorkerWith, AiUpdateType DEF TypeOK, AiPc
  <2> QED
    BY <1>6, <2>1 DEF ReadPending, TypeOK
<1>7. CASE ReadFallback(p)
  <2>1. aiw' \in [Procs -> AiWorker]
    BY <1>7, AiWorkerWith, AiUpdateType DEF ReadFallback, TypeOK, AiPc
  <2> QED
    BY <1>7, <2>1 DEF ReadFallback, TypeOK
<1>8. CASE RunEngine(p)
  <2>1. aiw' \in [Procs -> AiWorker]
    BY <1>8, AiWorkerWith, AiUpdateType DEF RunEngine, TypeOK, AiPc
  <2> QED
    BY <1>8, <2>1 DEF RunEngine, TypeOK
<1>9. CASE MarkBatch(p)
  <2>1. aiw' \in [Procs -> AiWorker]
    BY <1>9, AiGotoType DEF MarkBatch, AiPc
  <2> QED
    BY <1>9, <2>1, MarkType DEF MarkBatch, TypeOK
<1>10. CASE SendReply(p)
  <2> PICK o \in SendOutcomes :
        /\ answered' = [id \in ExtIds |->
                          IF o.delivered /\ id \in aiw[p].batch
                          THEN answered[id] + 1 ELSE answered[id]]
        /\ AiUpdate(p, [aiw[p] EXCEPT !.ack = o.ack, !.pc = "record"])
    BY <1>10 DEF SendReply
  <2>1. answered' \in [ExtIds -> Nat]
    BY DEF TypeOK
  <2>2. o.ack \in {"none", "SENT", "FAILED", "UNSENDABLE"}
    BY DEF SendOutcomes
  <2>3. aiw' \in [Procs -> AiWorker]
    BY <2>2, AiWorkerWith, AiUpdateType DEF TypeOK, AiPc
  <2> QED
    BY <1>10, <2>1, <2>3 DEF SendReply, TypeOK
<1>11. CASE RecordOutbound(p)
  <2>1. aiw' \in [Procs -> AiWorker]
    BY <1>11, AiGotoType DEF RecordOutbound, AiPc
  <2>2. aiw[p].conv \in Convs /\ aiw[p].batch \subseteq ExtIds
    BY <1>11 DEF RecordOutbound, AiHolds, TypeOK, AiWorker
  <2>3. outbox' \subseteq OutboundRow
    BY <1>11, <2>2 DEF RecordOutbound, TypeOK, OutboundRow, RowStatus
  <2> QED
    BY <1>11, <2>1, <2>3 DEF RecordOutbound, TypeOK
<1>12. CASE LogOutbound(p)
  <2>1. aiw' \in [Procs -> AiWorker]
    BY <1>12, AiGotoType DEF LogOutbound, AiPc
  <2>2. log' \subseteq ActionLog
    BY <1>12, AddLogType DEF LogOutbound, ActionType
  <2> QED
    BY <1>12, <2>1, <2>2 DEF LogOutbound, TypeOK
<1>13. CASE LogRun(p)
  <2>1. aiw' \in [Procs -> AiWorker]
    BY <1>13, AiGotoType DEF LogRun, AiPc
  <2>2. RunAction(aiw[p]) \in ActionType
    BY DEF RunAction, ActionType
  <2>3. log' \subseteq ActionLog
    BY <1>13, <2>2, AddLogType DEF LogRun
  <2> QED
    BY <1>13, <2>1, <2>3 DEF LogRun, TypeOK
<1>14. CASE AiFinish(p)
  <2>1. aiJob' \in [Convs -> AiJob]
    BY <1>14 DEF AiFinish, TypeOK, AiJob, NoAiJob, JobState
  <2> QED
    BY <1>14, <2>1, AiIdle DEF AiFinish, AiUpdate, TypeOK
<1>15. CASE AiCatch(p)
  <2>1. aiw' \in [Procs -> AiWorker]
    BY <1>15, AiGotoType DEF AiCatch, AiPc
  <2>2. budget' \in [BudgetKinds -> Nat]
    BY <1>15, SpendType DEF AiCatch, BudgetKinds
  <2> QED
    BY <1>15, <2>1, <2>2, AbandonedType DEF AiCatch, TypeOK
<1>16. CASE LogError(p)
  <2>1. aiw' \in [Procs -> AiWorker]
    BY <1>16, AiGotoType DEF LogError, AiPc
  <2>2. log' \subseteq ActionLog
    BY <1>16, AddLogType DEF LogError, ActionType
  <2> QED
    BY <1>16, <2>1, <2>2 DEF LogError, TypeOK
<1>17. CASE AiThrow(p)
  <2>1. aiJob' \in [Convs -> AiJob]
    BY <1>17 DEF AiThrow, TypeOK, AiJob, JobState
  <2>2. budget' \in [BudgetKinds -> Nat]
    BY <1>17, SpendType DEF AiThrow, BudgetKinds
  <2> QED
    BY <1>17, <2>1, <2>2, AbandonedType, AiIdle DEF AiThrow, AiUpdate, TypeOK
<1> QED
  BY <1>1, <1>2, <1>3, <1>4, <1>5, <1>6, <1>7, <1>8, <1>9, <1>10, <1>11, <1>12,
     <1>13, <1>14, <1>15, <1>16, <1>17
  DEF AiStep

\* Webhook calls, the stalled checkers, agents and crashes keep every type.
LEMMA TypeEnvironment ==
  ASSUME TypeOK,
         InboundQueue \/ Environment \/ \E c \in Convs : AiStalled(c)
  PROVE  TypeOK'
<1> USE DEF chatVars, replyVars, AiFrame, EnvFrame
<1>1. ASSUME NEW e \in Events, Deliver(e) PROVE TypeOK'
  <2>1. inJob' \in [ExtIds -> InboundJob]
    BY <1>1 DEF Deliver, TypeOK, InboundJob, NoInboundJob, JobState
  <2>2. budget' \in [BudgetKinds -> Nat]
    BY <1>1, SpendType DEF Deliver, BudgetKinds
  <2> QED
    BY <1>1, <2>1, <2>2 DEF Deliver, TypeOK
<1>2. ASSUME NEW id \in ExtIds, EvictInbound(id) PROVE TypeOK'
  <2>1. inJob' \in [ExtIds -> InboundJob]
    BY <1>2 DEF EvictInbound, TypeOK, InboundJob, NoInboundJob, JobState
  <2>2. budget' \in [BudgetKinds -> Nat]
    BY <1>2, SpendType DEF EvictInbound, BudgetKinds
  <2> QED
    BY <1>2, <2>1, <2>2 DEF EvictInbound, TypeOK
<1>3. ASSUME NEW id \in ExtIds, InboundStalled(id) PROVE TypeOK'
  <2>1. inJob' \in [ExtIds -> InboundJob]
    BY <1>3, InboundJobType DEF InboundStalled, TypeOK
  <2> QED
    BY <1>3, <2>1 DEF InboundStalled, TypeOK
<1>4. ASSUME NEW c \in Convs, AiStalled(c) PROVE TypeOK'
  <2>1. aiJob' \in [Convs -> AiJob]
    BY <1>4, AiJobType DEF AiStalled, TypeOK
  <2> QED
    BY <1>4, <2>1, PendingType DEF AiStalled, TypeOK
<1>5. ASSUME NEW c \in Convs, UpdateConversation(c) PROVE TypeOK'
  <2>1. conv' \in [Convs -> Conversation]
    <3> PICK status \in ConversationStatus, ai \in BOOLEAN :
          conv' = [conv EXCEPT ![c] = [@ EXCEPT
                     !.status = status, !.ai = ai,
                     !.opened = HowEdited(c, status)]]
      BY <1>5 DEF UpdateConversation
    <3>1. conv[c] \in Conversation
      BY DEF TypeOK
    <3>2. HowEdited(c, status) \in {"ALONE", "RACE", "AGENT"}
      BY <3>1 DEF Conversation, HowEdited
    <3> QED
      BY <3>1, <3>2 DEF TypeOK, Conversation
  <2>2. budget' \in [BudgetKinds -> Nat]
    BY <1>5, SpendType DEF UpdateConversation, BudgetKinds
  <2>3. UNCHANGED <<inw, aiw, excused>> /\ EnvFrame
    BY <1>5 DEF UpdateConversation
  <2> QED
    BY <2>1, <2>2, <2>3 DEF TypeOK
<1>6. ASSUME NEW c \in Convs, CloseConversation(c) PROVE TypeOK'
  <2>1. conv' \in [Convs -> Conversation]
    BY <1>6 DEF CloseConversation, TypeOK, Conversation, ConversationStatus
  <2>2. budget' \in [BudgetKinds -> Nat]
    BY <1>6, SpendType DEF CloseConversation, BudgetKinds
  <2> QED
    BY <1>6, <2>1, <2>2 DEF CloseConversation, TypeOK
<1>7. ASSUME NEW p \in Procs, Crash(p) PROVE TypeOK'
  <2>1. budget' \in [BudgetKinds -> Nat]
    BY <1>7, SpendType DEF Crash, BudgetKinds
  <2>2. excused' \subseteq ExtIds
    BY <1>7, PendingType DEF Crash, TypeOK, Unscheduled
  <2> QED
    BY <1>7, <2>1, <2>2, InboundIdle, AiIdle DEF Crash, TypeOK
<1> QED
  BY <1>1, <1>2, <1>3, <1>4, <1>5, <1>6, <1>7 DEF InboundQueue, Environment
=============================================================================
