----------------------- MODULE MessagePipeline_proofs -----------------------
(***************************************************************************)
(* Proofs that the message pipeline keeps its inductive invariant, answers *)
(* no message twice, loses no acknowledged event, and implements           *)
(* ReplyContract.  Typing is proved in PipelineTyping.                     *)
(***************************************************************************)
EXTENDS PipelineTyping

(***************************************************************************)
(* What a step of one worker may change.                                   *)
(***************************************************************************)
\* What a step of an inbound worker leaves alone: the AI workers, the replies,
\* the key columns and aiProcessed of stored messages, and held AI jobs.
LEMMA InboundEffects ==
  ASSUME TypeOK, InboundHolds, KeysMatch, NEW p \in Procs, InboundStep(p)
  PROVE  /\ UNCHANGED <<aiw, replyVars, accepted>>
         /\ \A q \in Procs \ {p} : inw'[q] = inw[q]
         /\ \A id \in ExtIds : Exists(id) =>
              /\ row'[id].event = row[id].event
              /\ row'[id].conv = row[id].conv
              /\ row'[id].processed = row[id].processed
         /\ \A c \in Convs : aiJob[c].state = "active" =>
              \/ aiJob'[c] = aiJob[c]
              \/ OrphanAi(c)
<1> USE DEF chatVars, replyVars
<1>1. UNCHANGED <<aiw, replyVars, accepted>>
  BY DEF InboundStep, InboundPick, ResolveContact, FindConversation,
     CreateConversation, PersistMessage, TouchConversation, ProcessMedia,
     TranscribeMedia, RemoveAiJob, AddAiJob, FinishInbound, InboundThrow
<1>2. \A q \in Procs \ {p} : inw'[q] = inw[q]
  BY DEF TypeOK, InboundStep, InboundPick, ResolveContact, FindConversation,
     CreateConversation, PersistMessage, TouchConversation, ProcessMedia,
     TranscribeMedia, RemoveAiJob, AddAiJob, FinishInbound, InboundThrow, Goto
<1>3. ASSUME NEW id \in ExtIds, Exists(id)
      PROVE  /\ row'[id].event = row[id].event
             /\ row'[id].conv = row[id].conv
             /\ row'[id].processed = row[id].processed
  <2>1. CASE UNCHANGED row
    BY <2>1
  <2>2. CASE PersistMessage(p)
    BY <1>3, <2>2 DEF PersistMessage, TypeOK
  <2>3. ASSUME NEW status, row' = [row EXCEPT ![inw[p].id].media = status]
        PROVE  /\ row'[id].event = row[id].event
               /\ row'[id].conv = row[id].conv
               /\ row'[id].processed = row[id].processed
    BY <2>3 DEF TypeOK, Message
  <2>4. CASE ProcessMedia(p)
    BY <2>3, <2>4 DEF ProcessMedia
  <2>5. CASE TranscribeMedia(p)
    BY <2>3, <2>5 DEF TranscribeMedia
  <2> QED
    BY <2>1, <2>2, <2>4, <2>5
    DEF InboundStep, InboundPick, ResolveContact, FindConversation,
        CreateConversation, TouchConversation, RemoveAiJob, AddAiJob,
        FinishInbound, InboundThrow
<1>4. ASSUME NEW c \in Convs, aiJob[c].state = "active"
      PROVE  aiJob'[c] = aiJob[c] \/ OrphanAi(c)
  <2>1. CASE UNCHANGED aiJob
    BY <2>1
  <2>2. CASE RemoveAiJob(p)
    BY <1>4, <2>2 DEF RemoveAiJob, TypeOK
  <2>3. CASE AddAiJob(p)
    BY <1>4, <2>3 DEF AddAiJob, TypeOK
  <2> QED
    BY <2>1, <2>2, <2>3
    DEF InboundStep, InboundPick, ResolveContact, FindConversation,
        CreateConversation, PersistMessage, TouchConversation, ProcessMedia,
        TranscribeMedia, FinishInbound, InboundThrow
<1> QED
  BY <1>1, <1>2, <1>3, <1>4

\* What a step of an AI worker leaves alone: the inbound side, the other
\* workers, and every column of a message but its own batch's aiProcessed.
LEMMA AiEffects ==
  ASSUME TypeOK, NEW p \in Procs, AiStep(p)
  PROVE  /\ UNCHANGED <<inw, inJob, accepted, exhausted>>
         /\ \A q \in Procs \ {p} : aiw'[q] = aiw[q]
         /\ \A id \in ExtIds :
              /\ row'[id].event = row[id].event
              /\ row'[id].conv = row[id].conv
              /\ \/ row'[id].processed = row[id].processed
                 \/ id \in aiw[p].batch /\ row'[id].processed
<1> USE DEF chatVars, replyVars, AiFrame
<1>1. UNCHANGED <<inw, inJob, accepted, exhausted>>
  BY DEF AiStep, AiPick, LoadConversation, SkipRead, SkipMark, SkipLog,
     ReadPending, ReadFallback, RunEngine, MarkBatch, SendReply, RecordOutbound,
     LogOutbound, LogRun, AiFinish, AiCatch, LogError, AiThrow
<1>2. \A q \in Procs \ {p} : aiw'[q] = aiw[q]
  BY DEF TypeOK, AiStep, AiPick, LoadConversation, SkipRead, SkipMark, SkipLog,
     ReadPending, ReadFallback, RunEngine, MarkBatch, SendReply, RecordOutbound,
     LogOutbound, LogRun, AiFinish, AiCatch, LogError, AiThrow, AiGoto, AiUpdate
<1>3. \A id \in ExtIds :
              /\ row'[id].event = row[id].event
              /\ row'[id].conv = row[id].conv
              /\ \/ row'[id].processed = row[id].processed
                 \/ id \in aiw[p].batch /\ row'[id].processed
  <2>1. CASE UNCHANGED row
    BY <2>1
  <2>2. CASE MarkProcessed(aiw[p].batch)
    BY <2>2 DEF MarkProcessed, TypeOK, Message
  <2> QED
    BY <2>1, <2>2
    DEF AiStep, AiPick, LoadConversation, SkipRead, SkipMark, SkipLog,
        ReadPending, ReadFallback, RunEngine, MarkBatch, SendReply, RecordOutbound,
        LogOutbound, LogRun, AiFinish, AiCatch, LogError, AiThrow
<1> QED
  BY <1>1, <1>2, <1>3

\* The new locals of a run after an action that assigns several of them.
LEMMA RunReads ==
  ASSUME TypeOK, NEW p \in Procs
  PROVE  /\ SkipRead(p) \/ ReadPending(p) =>
              /\ aiw'[p].conv = aiw[p].conv /\ aiw'[p].pc # "send"
              /\ aiw'[p].batch = Pending(aiw[p].conv)
         /\ ReadFallback(p) \/ RunEngine(p) =>
              /\ aiw'[p].conv = aiw[p].conv /\ aiw'[p].batch = aiw[p].batch
              /\ aiw'[p].pc = "mark"
         /\ SendReply(p) =>
              /\ aiw'[p].conv = aiw[p].conv /\ aiw'[p].batch = aiw[p].batch
              /\ aiw'[p].pc = "record"
<1> USE DEF AiUpdate
<1>1. aiw[p] \in AiWorker
  BY DEF TypeOK
<1>2. ASSUME SkipRead(p)
      PROVE  /\ aiw'[p].conv = aiw[p].conv /\ aiw'[p].pc # "send"
             /\ aiw'[p].batch = Pending(aiw[p].conv)
  <2> PICK pc \in {"skipLog", "skipMark"} :
        aiw' = [aiw EXCEPT ![p] = [aiw[p] EXCEPT !.batch = Pending(aiw[p].conv),
                                                 !.pc = pc]]
    BY <1>2 DEF SkipRead
  <2> QED
    BY <1>1 DEF TypeOK, AiWorker
<1>3. ASSUME ReadPending(p)
      PROVE  /\ aiw'[p].conv = aiw[p].conv /\ aiw'[p].pc # "send"
             /\ aiw'[p].batch = Pending(aiw[p].conv)
  <2> PICK pc \in {"finish", "context", "engine"}, kind \in {"ai", "media"} :
        aiw' = [aiw EXCEPT ![p] = [aiw[p] EXCEPT !.batch = Pending(aiw[p].conv),
                                                 !.kind = kind, !.pc = pc]]
    BY <1>3 DEF ReadPending
  <2> QED
    BY <1>1 DEF TypeOK, AiWorker
<1>4. ASSUME ReadFallback(p) \/ RunEngine(p)
      PROVE  /\ aiw'[p].conv = aiw[p].conv /\ aiw'[p].batch = aiw[p].batch
             /\ aiw'[p].pc = "mark"
  <2> PICK text \in BOOLEAN :
        aiw' = [aiw EXCEPT ![p] = [aiw[p] EXCEPT !.text = text, !.pc = "mark"]]
    BY <1>4 DEF ReadFallback, RunEngine
  <2> QED
    BY <1>1 DEF TypeOK, AiWorker
<1>5. ASSUME SendReply(p)
      PROVE  /\ aiw'[p].conv = aiw[p].conv /\ aiw'[p].batch = aiw[p].batch
             /\ aiw'[p].pc = "record"
  <2> PICK o \in SendOutcomes :
        aiw' = [aiw EXCEPT ![p] = [aiw[p] EXCEPT !.ack = o.ack, !.pc = "record"]]
    BY <1>5 DEF SendReply
  <2> QED
    BY <1>1 DEF TypeOK, AiWorker
<1> QED
  BY <1>2, <1>3, <1>4, <1>5

(***************************************************************************)
(* AiHolds: one run per conversation.                                      *)
(***************************************************************************)
\* A step of an AI worker keeps one run per conversation.
LEMMA AiHoldsAiStep ==
  ASSUME TypeOK, AiHolds, NEW p \in Procs, AiStep(p)
  PROVE  AiHolds'
<1>1. \A q \in Procs \ {p} : aiw'[q] = aiw[q]
  BY AiEffects
<1>2. CASE AiPick(p)
  <2> PICK c \in Convs :
        /\ aiJob[c].state = "queued"
        /\ aiJob' = [aiJob EXCEPT ![c].state = "active"]
        /\ AiUpdate(p, [IdleAi EXCEPT !.pc = "load", !.conv = c])
    BY <1>2 DEF AiPick
  <2>1. aiw'[p].pc = "load" /\ aiw'[p].conv = c
    BY DEF AiUpdate, TypeOK, IdleAi
  <2>2. /\ aiJob'[c].state = "active"
        /\ \A d \in Convs \ {c} : aiJob'[d] = aiJob[d]
    BY DEF TypeOK, AiJob
  <2>3. \A q \in Procs : aiw[q].pc # "idle" => aiw[q].conv # c
    BY DEF AiHolds
  <2> QED
    BY <1>1, <2>1, <2>2, <2>3 DEF AiHolds, HoldsAi
<1>3. ASSUME aiw[p].pc # "idle", aiw'[p] = IdleAi,
             \A d \in Convs \ {aiw[p].conv} : aiJob'[d] = aiJob[d]
      PROVE  AiHolds'
  <2>1. aiw'[p].pc = "idle"
    BY <1>3 DEF IdleAi
  <2>2. \A q \in Procs \ {p} : aiw[q].pc # "idle" => aiw[q].conv # aiw[p].conv
    BY <1>3 DEF AiHolds, HoldsAi
  <2> QED
    BY <1>1, <1>3, <2>1, <2>2 DEF AiHolds, HoldsAi
<1>4. CASE /\ aiJob' = aiJob /\ aiw[p].pc # "idle" 
           /\ aiw'[p].conv = aiw[p].conv
  BY <1>1, <1>4 DEF AiHolds, HoldsAi
<1>5. CASE AiFinish(p) \/ AiThrow(p)
  <2>1. aiw'[p] = IdleAi /\ \A d \in Convs \ {aiw[p].conv} : aiJob'[d] = aiJob[d]
    BY <1>5 DEF AiFinish, AiThrow, AiUpdate, TypeOK
  <2> QED
    BY <1>3, <1>5, <2>1 DEF AiFinish, AiThrow
<1>6. ASSUME NEW pc, AiGoto(p, pc), aiJob' = aiJob, aiw[p].pc # "idle"
      PROVE  AiHolds'
  <2>1. aiw'[p].conv = aiw[p].conv
    BY <1>6 DEF AiGoto, TypeOK, AiWorker
  <2> QED
    BY <1>4, <1>6, <2>1
<1>7. CASE SkipRead(p) \/ ReadPending(p) \/ ReadFallback(p) \/ RunEngine(p) \/ SendReply(p)
  BY <1>4, <1>7, RunReads DEF SkipRead, ReadPending, ReadFallback, RunEngine, SendReply
<1> QED
  BY <1>2, <1>5, <1>6, <1>7
  DEF AiStep, LoadConversation, SkipMark, SkipLog, MarkBatch, RecordOutbound,
     LogOutbound, LogRun, AiCatch, LogError, InTry

\* So does every other step: scheduleAiResponse never removes a held job, and
\* the stalled checker restarts only orphans.
LEMMA AiHoldsNext ==
  ASSUME TypeOK, InboundHolds, KeysMatch, AiHolds, Next
  PROVE  AiHolds'
<1> USE DEF chatVars, replyVars, AiFrame, EnvFrame
<1>1. ASSUME NEW p \in Procs, InboundStep(p) PROVE AiHolds'
  <2>1. /\ aiw' = aiw
        /\ \A c \in Convs : aiJob[c].state = "active" =>
             aiJob'[c] = aiJob[c] \/ OrphanAi(c)
    BY <1>1, InboundEffects
  <2> QED
    BY <2>1 DEF AiHolds, OrphanAi, HoldsAi
<1>2. ASSUME NEW c \in Convs, AiStalled(c) PROVE AiHolds'
  <2>1. aiw' = aiw /\ \A d \in Convs \ {c} : aiJob'[d] = aiJob[d]
    BY <1>2 DEF AiStalled, TypeOK
  <2> QED
    BY <1>2, <2>1 DEF AiHolds, OrphanAi, HoldsAi, AiStalled
<1>3. ASSUME NEW p \in Procs, Crash(p) PROVE AiHolds'
  <2>1. /\ aiJob' = aiJob /\ aiw'[p].pc = "idle"
        /\ \A q \in Procs \ {p} : aiw'[q] = aiw[q]
    BY <1>3 DEF Crash, TypeOK, IdleAi
  <2> QED
    BY <2>1 DEF AiHolds, HoldsAi
<1>4. CASE InboundQueue
  BY <1>4 DEF InboundQueue, Deliver, EvictInbound, InboundStalled, AiHolds, HoldsAi
<1>5. CASE \E c \in Convs : UpdateConversation(c) \/ CloseConversation(c)
  BY <1>5 DEF UpdateConversation, CloseConversation, AiHolds, HoldsAi
<1> QED
  BY <1>1, <1>2, <1>3, <1>4, <1>5, AiHoldsAiStep DEF Next, Environment

(***************************************************************************)
(* BatchState and the answers.                                             *)
(***************************************************************************)
\* A run disturbs no batch but its own: batches of different conversations
\* are disjoint.
LEMMA BatchOfOthers ==
  ASSUME TypeOK, AiHolds, BatchState, NEW p \in Procs, AiStep(p),
         NEW q \in Procs \ {p}
  PROVE  BatchOf(q)'
<1>1. /\ aiw'[q] = aiw[q]
      /\ \A id \in ExtIds :
           /\ row'[id].event = row[id].event
           /\ row'[id].conv = row[id].conv
           /\ row'[id].processed = row[id].processed \/ id \in aiw[p].batch
  BY AiEffects
<1>2. \A id \in ExtIds : answered'[id] = answered[id] \/ id \in aiw[p].batch
  BY DEF TypeOK, AiStep, AiPick, LoadConversation, SkipRead, SkipMark, SkipLog,
     ReadPending, ReadFallback, RunEngine, MarkBatch, SendReply, RecordOutbound,
     LogOutbound, LogRun, AiFinish, AiCatch, LogError, AiThrow, replyVars
<1>3. aiw[q].pc # "idle" /\ aiw[p].pc # "idle" => aiw[q].batch \cap aiw[p].batch = {}
  BY DEF AiHolds, HoldsAi, BatchState, BatchOf
<1>4. aiw[p].pc # "idle" \/ (row' = row /\ answered' = answered)
  BY DEF AiStep, AiPick, LoadConversation, SkipRead, SkipMark, SkipLog,
     ReadPending, ReadFallback, RunEngine, MarkBatch, SendReply, RecordOutbound,
     LogOutbound, LogRun, AiFinish, AiCatch, LogError, AiThrow, InTry, replyVars
<1>5. aiw[q].batch \subseteq ExtIds
  BY DEF TypeOK, AiWorker
<1> QED
  BY <1>1, <1>2, <1>3, <1>4, <1>5 DEF BatchState, BatchOf, Exists

\* Each action of a run takes its own batch to the state that BatchOf demands.
LEMMA BatchOfSelf ==
  ASSUME TypeOK, AiHolds, BatchState, AnsweredIsSettled, NEW p \in Procs, AiStep(p)
  PROVE  BatchOf(p)'
<1> USE DEF AiFrame, replyVars
<1>1. aiw[p] \in AiWorker /\ \A id \in ExtIds : row[id] \in Message /\ answered[id] \in Nat
  BY DEF TypeOK
<1>2. CASE row' = row /\ answered' = answered /\ aiw'[p].batch = {}
  BY <1>2 DEF BatchOf
<1>3. CASE AiPick(p) \/ AiFinish(p) \/ AiThrow(p)
  <2>1. CASE AiPick(p)
    <3> PICK c \in Convs : aiw' = [aiw EXCEPT ![p] = [IdleAi EXCEPT !.pc = "load", !.conv = c]]
      BY <2>1 DEF AiPick, AiUpdate
    <3> QED
      BY DEF BatchOf, IdleAi, TypeOK
  <2>2. CASE AiFinish(p) \/ AiThrow(p)
    BY <2>2 DEF AiFinish, AiThrow, AiUpdate, BatchOf, IdleAi, TypeOK
  <2> QED
    BY <1>3, <2>1, <2>2
<1>4. CASE SkipRead(p) \/ ReadPending(p)
  <2>1. /\ row' = row /\ answered' = answered /\ aiw'[p].pc # "send"
        /\ aiw'[p].conv = aiw[p].conv /\ aiw'[p].batch = Pending(aiw[p].conv)
    BY <1>4, RunReads DEF SkipRead, ReadPending
  <2> QED
    BY <2>1 DEF BatchOf, Pending, Exists
<1>5. ASSUME row' = row, answered' = answered, aiw'[p].conv = aiw[p].conv,
             aiw'[p].batch = aiw[p].batch, aiw[p].pc # "idle", aiw'[p].pc # "send",
             aiw'[p].pc \in {"skipMark", "context", "engine", "mark"} =>
               aiw[p].pc \in {"skipMark", "context", "engine", "mark"}
      PROVE  BatchOf(p)'
  <2> SUFFICES ASSUME NEW id \in aiw[p].batch
               PROVE  /\ Exists(id)' /\ row'[id].conv = aiw'[p].conv
                      /\ aiw'[p].pc \in {"skipMark", "context", "engine", "mark"} =>
                           ~row'[id].processed
    BY <1>5 DEF BatchOf
  <2>1. /\ Exists(id) /\ row[id].conv = aiw[p].conv
        /\ aiw[p].pc \in {"skipMark", "context", "engine", "mark"} => ~row[id].processed
    BY <1>5 DEF BatchState, BatchOf
  <2> QED
    BY <1>5, <2>1 DEF Exists
<1>6. CASE LoadConversation(p)
  <2>1. aiw'[p].pc \in {"read", "skipRead"}
    BY <1>1, <1>6 DEF LoadConversation, AiGoto, TypeOK, AiWorker
  <2>2. aiw'[p].batch = aiw[p].batch /\ aiw'[p].conv = aiw[p].conv
    BY <1>1, <1>6 DEF LoadConversation, AiGoto, TypeOK, AiWorker
  <2> QED
    BY <1>5, <1>6, <2>1, <2>2 DEF LoadConversation
<1>7. ASSUME NEW pc \in AiPc, AiGoto(p, pc), aiw[p].pc # "idle",
             pc \notin {"skipMark", "context", "engine", "mark", "send"},
             row' = row, answered' = answered
      PROVE  BatchOf(p)'
  <2>1. aiw'[p].batch = aiw[p].batch /\ aiw'[p].conv = aiw[p].conv /\ aiw'[p].pc = pc
    BY <1>1, <1>7 DEF AiGoto, TypeOK, AiWorker
  <2> QED
    BY <1>5, <1>7, <2>1
<1>8. CASE SkipLog(p) \/ RecordOutbound(p) \/ LogOutbound(p) \/ LogRun(p) \/ AiCatch(p) \/ LogError(p)
  BY <1>7, <1>8 DEF SkipLog, RecordOutbound, LogOutbound, LogRun, AiCatch, LogError,
     InTry, AiPc
<1>9. CASE ReadFallback(p) \/ RunEngine(p)
  <2>1. /\ aiw'[p].batch = aiw[p].batch /\ aiw'[p].conv = aiw[p].conv
        /\ aiw'[p].pc = "mark"
    BY <1>9, RunReads
  <2> QED
    BY <1>5, <1>9, <2>1 DEF ReadFallback, RunEngine
<1>10. CASE SkipMark(p) \/ MarkBatch(p)
  <2>1. /\ aiw'[p].batch = aiw[p].batch /\ aiw'[p].conv = aiw[p].conv
        /\ aiw'[p].pc \in {"skipLog", "send", "logRun"}
    BY <1>1, <1>10 DEF SkipMark, MarkBatch, AiGoto, TypeOK, AiWorker
  <2>2. \A id \in aiw[p].batch :
          /\ id \in ExtIds /\ Exists(id)
          /\ row[id].conv = aiw[p].conv /\ ~row[id].processed
    BY <1>1, <1>10 DEF SkipMark, MarkBatch, BatchState, BatchOf, AiWorker
  <2>3. \A id \in aiw[p].batch :
          /\ row'[id].event = row[id].event /\ row'[id].conv = row[id].conv
          /\ row'[id].processed
    BY <1>1, <1>10, <2>2 DEF SkipMark, MarkBatch, MarkProcessed, Message
  <2>4. \A id \in aiw[p].batch : answered'[id] = 0
    BY <1>1, <1>10, <2>2 DEF SkipMark, MarkBatch, AnsweredIsSettled
  <2> QED
    BY <2>1, <2>2, <2>3, <2>4 DEF BatchOf, Exists
<1>11. CASE SendReply(p)
  <2>1. /\ aiw'[p].batch = aiw[p].batch /\ aiw'[p].conv = aiw[p].conv
        /\ aiw'[p].pc = "record" /\ row' = row
    BY <1>11, RunReads DEF SendReply
  <2> QED
    BY <1>11, <2>1 DEF SendReply, BatchState, BatchOf, Exists
<1> QED
  BY <1>3, <1>4, <1>6, <1>8, <1>9, <1>10, <1>11 DEF AiStep

\* BatchState is kept by every step.
LEMMA BatchStateNext ==
  ASSUME TypeOK, InboundHolds, KeysMatch, AiHolds, BatchState, AnsweredIsSettled, Next
  PROVE  BatchState'
<1> USE DEF chatVars, replyVars, AiFrame, EnvFrame
<1>1. ASSUME NEW p \in Procs, InboundStep(p) PROVE BatchState'
  <2>1. /\ aiw' = aiw /\ answered' = answered
        /\ \A id \in ExtIds : Exists(id) =>
             /\ row'[id].event = row[id].event
             /\ row'[id].conv = row[id].conv
             /\ row'[id].processed = row[id].processed
    BY <1>1, InboundEffects
  <2>2. \A q \in Procs : aiw[q].batch \subseteq ExtIds
    BY DEF TypeOK, AiWorker
  <2> QED
    BY <2>1, <2>2 DEF BatchState, BatchOf, Exists
<1>2. ASSUME NEW p \in Procs, AiStep(p) PROVE BatchState'
  BY <1>2, BatchOfOthers, BatchOfSelf DEF BatchState
<1>3. ASSUME NEW p \in Procs, Crash(p) PROVE BatchState'
  <2>1. /\ row' = row /\ answered' = answered /\ aiw'[p].pc = "idle"
        /\ \A q \in Procs \ {p} : aiw'[q] = aiw[q]
    BY <1>3 DEF Crash, TypeOK, IdleAi
  <2> QED
    BY <2>1 DEF BatchState, BatchOf, Exists
<1>4. CASE UNCHANGED <<aiw, row, answered>>
  BY <1>4 DEF BatchState, BatchOf, Exists
<1> QED
  BY <1>1, <1>2, <1>3, <1>4
  DEF Next, Environment, InboundQueue, Deliver, EvictInbound, InboundStalled,
      AiStalled, UpdateConversation, CloseConversation

\* The number of replies grows only when a run sends one for its batch.
LEMMA AnswersNext ==
  ASSUME TypeOK, Next
  PROVE  \/ answered' = answered
         \/ \E p \in Procs : 
              /\ SendReply(p)
              /\ \A id \in ExtIds :
                   \/ answered'[id] = answered[id]
                   \/ id \in aiw[p].batch /\ answered'[id] = answered[id] + 1
<1> USE DEF chatVars, replyVars, AiFrame, EnvFrame
<1>1. ASSUME NEW p \in Procs, SendReply(p)
      PROVE  \A id \in ExtIds :
                   \/ answered'[id] = answered[id]
                   \/ id \in aiw[p].batch /\ answered'[id] = answered[id] + 1
  BY <1>1 DEF SendReply
<1>2. ASSUME NEW p \in Procs, InboundStep(p) PROVE answered' = answered
  BY <1>2 DEF InboundStep, InboundPick, ResolveContact, FindConversation,
     CreateConversation, PersistMessage, TouchConversation, ProcessMedia,
     TranscribeMedia, RemoveAiJob, AddAiJob, FinishInbound, InboundThrow
<1>3. ASSUME NEW p \in Procs, AiStep(p), ~SendReply(p) PROVE answered' = answered
  BY <1>3 DEF AiStep, AiPick, LoadConversation, SkipRead, SkipMark, SkipLog,
     ReadPending, ReadFallback, RunEngine, MarkBatch, RecordOutbound,
     LogOutbound, LogRun, AiFinish, AiCatch, LogError, AiThrow
<1> QED
  BY <1>1, <1>2, <1>3
  DEF Next, Environment, InboundQueue, Deliver, EvictInbound, InboundStalled,
      AiStalled, UpdateConversation, CloseConversation, Crash

\* aiProcessed is never reset, and a stored message keeps its key columns.
LEMMA RowsNext ==
  ASSUME TypeOK, InboundHolds, KeysMatch, Next, NEW id \in ExtIds, Exists(id)
  PROVE  /\ row'[id].event = row[id].event
         /\ row'[id].conv = row[id].conv
         /\ row[id].processed => row'[id].processed
<1> USE DEF chatVars, replyVars, AiFrame, EnvFrame
<1>1. ASSUME NEW p \in Procs, InboundStep(p)
      PROVE  /\ row'[id].event = row[id].event
             /\ row'[id].conv = row[id].conv
             /\ row'[id].processed = row[id].processed
  BY <1>1, InboundEffects
<1>2. ASSUME NEW p \in Procs, AiStep(p)
      PROVE  /\ row'[id].event = row[id].event
             /\ row'[id].conv = row[id].conv
             /\ row'[id].processed = row[id].processed \/ row'[id].processed
  BY <1>2, AiEffects
<1>3. CASE UNCHANGED row
  BY <1>3
<1> QED
  BY <1>1, <1>2, <1>3
  DEF Next, Environment, InboundQueue, Deliver, EvictInbound, InboundStalled,
      AiStalled, UpdateConversation, CloseConversation, Crash

\* Only settled messages are answered, and only once: a batch is marked before
\* it is sent, and what is marked is never read again.
LEMMA AnsweredNext ==
  ASSUME TypeOK, InboundHolds, KeysMatch, BatchState, AnsweredIsSettled,
         AnsweredAtMostOnce, Next
  PROVE  AnsweredIsSettled' /\ AnsweredAtMostOnce'
<1> SUFFICES ASSUME NEW id \in ExtIds
             PROVE  /\ answered'[id] > 0 => Exists(id)' /\ row'[id].processed
                    /\ answered'[id] <= 1
  BY DEF AnsweredIsSettled, AnsweredAtMostOnce
<1>1. CASE answered'[id] = answered[id]
  BY <1>1, RowsNext DEF AnsweredIsSettled, AnsweredAtMostOnce, Exists
<1>2. ASSUME NEW p \in Procs, SendReply(p), id \in aiw[p].batch,
             answered'[id] = answered[id] + 1
      PROVE  /\ answered'[id] > 0 => Exists(id)' /\ row'[id].processed
             /\ answered'[id] <= 1
  <2>1. Exists(id) /\ row[id].processed /\ answered[id] = 0
    BY <1>2 DEF SendReply, BatchState, BatchOf
  <2>2. Exists(id)' /\ row'[id].processed
    BY <2>1, RowsNext DEF Exists
  <2> QED
    BY <1>2, <2>1, <2>2
<1> QED
  BY <1>1, <1>2, AnswersNext

\* The new locals of an inbound worker that goes on with its job.
LEMMA InboundLocals ==
  ASSUME TypeOK, NEW p \in Procs, InboundStep(p), ~InboundPick(p),
         inw'[p].pc # "idle"
  PROVE  /\ inw'[p].id = inw[p].id
         /\ inw[p].pc # "idle"
         /\ inJob' = inJob
         /\ \/ inw[p].pc \notin {"contact", "find", "create"} /\ inw'[p].conv = inw[p].conv
            \/ inw'[p].pc \in {"find", "create"}
            \/ inw'[p].conv \in Convs
         /\ inw'[p].pc \in InboundPc \ {"contact", "find", "create", "persist"} =>
              PersistMessage(p) \/ inw[p].pc \in InboundPc \ {"contact", "find", "create", "persist"}
<1>1. inw[p] \in InboundWorker
  BY DEF TypeOK
<1>2. ASSUME NEW pc, Goto(p, pc)
      PROVE inw'[p].id = inw[p].id /\ inw'[p].conv = inw[p].conv /\ inw'[p].pc = pc
  BY <1>1, <1>2 DEF Goto, TypeOK, InboundWorker
<1>3. CASE ResolveContact(p)
  BY <1>2, <1>3 DEF ResolveContact
<1>4. CASE FindConversation(p)
  <2>1. CASE Goto(p, "create")
    BY <1>2, <1>4, <2>1 DEF FindConversation
  <2>2. ASSUME NEW c \in Latest(ActiveOf(Sender(p))),
               inw' = [inw EXCEPT ![p] = [@ EXCEPT !.pc = "persist", !.conv = c,
                                                   !.ai = conv[c].ai]]
        PROVE  inw'[p].id = inw[p].id /\ inw'[p].conv \in Convs /\ inw'[p].pc = "persist"
    BY <1>1, <2>2 DEF TypeOK, InboundWorker, Latest, ActiveOf
  <2> QED
    BY <1>4, <2>1, <2>2, <1>2 DEF FindConversation
<1>5. CASE CreateConversation(p)
  <2>1. ASSUME NEW c \in Convs,
               inw' = [inw EXCEPT ![p] = [@ EXCEPT !.pc = "persist", !.conv = c,
                                                   !.ai = TRUE]]
        PROVE  inw'[p].id = inw[p].id /\ inw'[p].conv \in Convs /\ inw'[p].pc = "persist"
    BY <1>1, <2>1 DEF TypeOK, InboundWorker
  <2> QED
    BY <1>5, <2>1 DEF CreateConversation
<1>6. CASE FinishInbound(p) \/ InboundThrow(p)
  BY <1>6 DEF FinishInbound, InboundThrow, IdleInbound, TypeOK
<1>7. CASE PersistMessage(p)
  BY <1>2, <1>7 DEF PersistMessage
<1>8. CASE TouchConversation(p)
  BY <1>2, <1>8 DEF TouchConversation, InboundPc
<1>9. CASE ProcessMedia(p) \/ TranscribeMedia(p)
  BY <1>2, <1>9 DEF ProcessMedia, TranscribeMedia, InboundPc
<1>10. CASE RemoveAiJob(p) \/ AddAiJob(p)
  BY <1>2, <1>10 DEF RemoveAiJob, AddAiJob, InboundPc
<1> QED
  BY <1>3, <1>4, <1>5, <1>6, <1>7, <1>8, <1>9, <1>10 DEF InboundStep

\* What an inbound step does to the jobs: it takes one, or it ends its own.
LEMMA InboundJobs ==
  ASSUME TypeOK, InboundHolds, NEW p \in Procs, InboundStep(p)
  PROVE  \/ /\ InboundPick(p)
            /\ \E id \in ExtIds :
                 /\ inJob[id].state = "queued" /\ inJob'[id].state = "active"
                 /\ inJob'[id].event = inJob[id].event
                 /\ \A i \in ExtIds \ {id} : inJob'[i] = inJob[i]
                 /\ inw'[p].id = id /\ inw'[p].pc = "contact"
            /\ row' = row /\ exhausted' = exhausted
         \/ /\ inw'[p].pc = "idle"
            /\ inw[p].pc # "idle"
            /\ inJob'[inw[p].id].event = inJob[inw[p].id].event
            /\ \A i \in ExtIds \ {inw[p].id} : inJob'[i] = inJob[i]
            /\ \/ FinishInbound(p) /\ inJob'[inw[p].id].state = "completed"
                  /\ exhausted' = exhausted
               \/ inJob'[inw[p].id].state = "queued" /\ exhausted' = exhausted
               \/ inJob'[inw[p].id].state = "failed"
                  /\ exhausted' = exhausted \cup {inw[p].id}
            /\ row' = row
         \/ inJob' = inJob /\ inw'[p].pc # "idle" /\ ~InboundPick(p)
            /\ exhausted' = exhausted
<1>1. CASE InboundPick(p)
  <2> PICK id \in ExtIds :
        /\ inJob[id].state = "queued"
        /\ inJob' = [inJob EXCEPT ![id].state = "active"]
        /\ inw' = [inw EXCEPT ![p] = [IdleInbound EXCEPT !.pc = "contact", !.id = id]]
    BY <1>1 DEF InboundPick
  <2>1. /\ inJob'[id].state = "active" /\ inJob'[id].event = inJob[id].event
        /\ \A i \in ExtIds \ {id} : inJob'[i] = inJob[i]
    BY DEF TypeOK, InboundJob
  <2>2. inw'[p].id = id /\ inw'[p].pc = "contact"
    BY DEF TypeOK, IdleInbound
  <2> QED
    BY <1>1, <2>1, <2>2 DEF InboundPick
<1>2. CASE FinishInbound(p)
  <2>1. inw[p].id \in ExtIds
    BY <1>2 DEF FinishInbound, InboundHolds
  <2>2. /\ inJob'[inw[p].id].state = "completed"
        /\ inJob'[inw[p].id].event = inJob[inw[p].id].event
        /\ \A i \in ExtIds \ {inw[p].id} : inJob'[i] = inJob[i]
    BY <1>2, <2>1 DEF FinishInbound, TypeOK, InboundJob
  <2> QED
    BY <1>2, <2>2 DEF FinishInbound, TypeOK, IdleInbound
<1>3. CASE InboundThrow(p)
  <2>1. inw[p].id \in ExtIds
    BY <1>3 DEF InboundThrow, InboundHolds
  <2>2. /\ inJob'[inw[p].id] = FailAttempt(inJob[inw[p].id])
        /\ \A i \in ExtIds \ {inw[p].id} : inJob'[i] = inJob[i]
    BY <1>3, <2>1 DEF InboundThrow, TypeOK
  <2>3. ASSUME NEW job \in InboundJob
        PROVE  /\ FailAttempt(job).event = job.event
               /\ FailAttempt(job).state \in {"queued", "failed"}
    <3>1. ASSUME NEW s \in JobState, NEW n \in Nat
          PROVE  /\ [job EXCEPT !.state = s, !.attempts = n].event = job.event
                 /\ [job EXCEPT !.state = s, !.attempts = n].state = s
      BY DEF InboundJob
    <3> QED
      BY <3>1 DEF FailAttempt, InboundJob, JobState
  <2>4. inw'[p].pc = "idle" /\ inw[p].pc # "idle" /\ row' = row
    BY <1>3 DEF InboundThrow, TypeOK, IdleInbound
  <2> QED
    BY <1>3, <2>1, <2>2, <2>3, <2>4 DEF InboundThrow, TypeOK
<1>4. ASSUME NEW pc, Goto(p, pc) PROVE inw'[p].pc = pc
  BY <1>4 DEF Goto, TypeOK, InboundWorker
<1>5. CASE ResolveContact(p) \/ PersistMessage(p) \/ TouchConversation(p) \/ ProcessMedia(p)
           \/ TranscribeMedia(p) \/ RemoveAiJob(p) \/ AddAiJob(p)
  BY <1>4, <1>5 DEF ResolveContact, PersistMessage, TouchConversation, ProcessMedia,
     TranscribeMedia, RemoveAiJob, AddAiJob, InboundPick
<1>6. CASE FindConversation(p) \/ CreateConversation(p)
  <2>1. ASSUME NEW c, NEW ai,
               inw' = [inw EXCEPT ![p] = [@ EXCEPT !.pc = "persist", !.conv = c,
                                                   !.ai = ai]]
        PROVE  inw'[p].pc = "persist"
    BY <2>1 DEF TypeOK, InboundWorker
  <2>2. inw'[p].pc \in {"create", "persist"}
    BY <1>4, <1>6, <2>1 DEF FindConversation, CreateConversation
  <2> QED
    BY <1>6, <2>2 DEF FindConversation, CreateConversation, InboundPick
<1> QED
  BY <1>1, <1>2, <1>3, <1>5, <1>6 DEF InboundStep

\* An inbound worker keeps its job to itself.
LEMMA InboundHoldsStep ==
  ASSUME TypeOK, InboundHolds, KeysMatch, NEW p \in Procs, InboundStep(p)
  PROVE  InboundHolds'
<1>1. \A q \in Procs \ {p} : inw'[q] = inw[q]
  BY InboundEffects
<1>2. CASE InboundPick(p)
  <2> PICK id \in ExtIds :
                 /\ inJob[id].state = "queued" /\ inJob'[id].state = "active"
                 /\ \A i \in ExtIds \ {id} : inJob'[i] = inJob[i]
                 /\ inw'[p].id = id /\ inw'[p].pc = "contact"
    BY <1>2, InboundJobs DEF InboundPick
  <2>1. \A q \in Procs \ {p} : inw[q].pc # "idle" => inw[q].id # id
    BY DEF InboundHolds
  <2> QED
    BY <1>1, <2>1 DEF InboundHolds, HoldsInbound
<1>3. CASE inw'[p].pc = "idle"
  <2>1. inw[p].pc # "idle" /\ \A i \in ExtIds \ {inw[p].id} : inJob'[i] = inJob[i]
    BY <1>3, InboundJobs
  <2>2. \A q \in Procs \ {p} : inw[q].pc # "idle" => inw[q].id # inw[p].id
    BY <2>1 DEF InboundHolds, HoldsInbound
  <2> QED
    BY <1>1, <1>3, <2>1, <2>2 DEF InboundHolds, HoldsInbound
<1>4. CASE inJob' = inJob /\ ~InboundPick(p) /\ inw'[p].pc # "idle"
  <2>1. /\ inw'[p].id = inw[p].id /\ inw[p].pc # "idle"
        /\ inw'[p].pc \notin {"contact", "find", "create"} => inw'[p].conv \in Convs
    BY <1>4, InboundLocals DEF InboundHolds
  <2> QED
    BY <1>1, <1>4, <2>1 DEF InboundHolds, HoldsInbound
<1> QED
  BY <1>2, <1>3, <1>4, InboundJobs

\* InboundHolds is kept by every step.
LEMMA InboundHoldsNext ==
  ASSUME TypeOK, InboundHolds, KeysMatch, Next
  PROVE  InboundHolds'
<1> USE DEF chatVars, replyVars, AiFrame, EnvFrame
<1>1. CASE UNCHANGED inw /\ \A id \in ExtIds : inJob[id].state = "active" /\ ~OrphanInbound(id) => inJob'[id] = inJob[id]
  BY <1>1 DEF InboundHolds, OrphanInbound, HoldsInbound
<1>2. ASSUME NEW e \in Events, Deliver(e) PROVE InboundHolds'
  BY <1>1, <1>2 DEF Deliver, TypeOK
<1>3. ASSUME NEW id \in ExtIds, EvictInbound(id) \/ InboundStalled(id) PROVE InboundHolds'
  BY <1>1, <1>3 DEF EvictInbound, InboundStalled, TypeOK
<1>4. ASSUME NEW p \in Procs, Crash(p) PROVE InboundHolds'
  BY <1>4 DEF Crash, InboundHolds, HoldsInbound, TypeOK, IdleInbound
<1>5. ASSUME NEW p \in Procs, AiStep(p) PROVE InboundHolds'
  BY <1>1, <1>5, AiEffects
<1>6. CASE \E c \in Convs : UpdateConversation(c) \/ CloseConversation(c) \/ AiStalled(c)
  BY <1>1, <1>6 DEF UpdateConversation, CloseConversation, AiStalled
<1> QED
  BY <1>2, <1>3, <1>4, <1>5, <1>6, InboundHoldsStep DEF Next, Environment, InboundQueue

\* The jobs keep their events, whatever a worker does to them.
\* A worker changes neither the event of a job nor makes a job appear.
LEMMA JobEvents ==
  ASSUME TypeOK, InboundHolds, KeysMatch, NEW p \in Procs, InboundStep(p),
         NEW id \in ExtIds
  PROVE  /\ inJob'[id].event = inJob[id].event
         /\ inJob'[id].state # "absent" => inJob[id].state # "absent"
<1>1. inw[p].pc # "idle" => inJob[inw[p].id].state = "active"
  BY DEF InboundHolds
<1> QED
  BY <1>1, InboundJobs

\* The stalled checker keeps a job's event.
LEMMA StallKeeps ==
  ASSUME NEW job \in InboundJob
  PROVE  /\ Stall(job).event = job.event
         /\ Stall(job).state \in {"queued", "failed"}
<1>1. ASSUME NEW s \in JobState, NEW n \in Nat
      PROVE  /\ [job EXCEPT !.state = s, !.stalls = n].event = job.event
             /\ [job EXCEPT !.state = s, !.stalls = n].state = s
  BY DEF InboundJob
<1> QED
  BY <1>1 DEF Stall, InboundJob, JobState

\* Rows and jobs keep the key of their event.
LEMMA KeysMatchNext ==
  ASSUME TypeOK, InboundHolds, KeysMatch, Next
  PROVE  KeysMatch'
<1> USE DEF chatVars, replyVars, AiFrame, EnvFrame
<1>1. CASE UNCHANGED <<row, inJob>>
  BY <1>1 DEF KeysMatch, Exists
<1>2. ASSUME NEW p \in Procs, InboundStep(p) PROVE KeysMatch'
  <2>1. \A id \in ExtIds :
          inJob'[id].state # "absent" => /\ inJob'[id].event \in Events
                                         /\ ExtIdOf[inJob'[id].event] = id
    BY <1>2, JobEvents DEF KeysMatch
  <2>2. CASE PersistMessage(p)
    <3>1. /\ inw[p].id \in ExtIds /\ inw[p].conv \in Convs
          /\ inJob[inw[p].id].event \in Events
          /\ ExtIdOf[inJob[inw[p].id].event] = inw[p].id
      BY <2>2 DEF PersistMessage, InboundHolds, KeysMatch
    <3>2. \A id \in ExtIds : row'[id] = row[id]
            \/ /\ id = inw[p].id
               /\ row'[id].event = inJob[id].event /\ row'[id].conv = inw[p].conv
      BY <2>2, <3>1 DEF PersistMessage, TypeOK, NoMessage
    <3> QED
      BY <2>1, <3>1, <3>2 DEF KeysMatch, Exists
  <2>3. CASE ProcessMedia(p) \/ TranscribeMedia(p)
    <3>1. ASSUME NEW status, row' = [row EXCEPT ![inw[p].id].media = status],
                 NEW id \in ExtIds
          PROVE  row'[id].event = row[id].event /\ row'[id].conv = row[id].conv
      BY <3>1 DEF TypeOK, Message
    <3>2. \A id \in ExtIds :
            row'[id].event = row[id].event /\ row'[id].conv = row[id].conv
      BY <2>3, <3>1 DEF ProcessMedia, TranscribeMedia
    <3> QED
      BY <2>1, <3>2 DEF KeysMatch, Exists
  <2>4. CASE UNCHANGED row
    BY <2>1, <2>4 DEF KeysMatch, Exists
  <2> QED
    BY <1>2, <2>2, <2>3, <2>4
    DEF InboundStep, InboundPick, ResolveContact, FindConversation,
        CreateConversation, TouchConversation, RemoveAiJob, AddAiJob,
        FinishInbound, InboundThrow
<1>3. ASSUME NEW p \in Procs, AiStep(p) PROVE KeysMatch'
  BY <1>3, AiEffects DEF KeysMatch, Exists
<1>4. ASSUME NEW e \in Events, Deliver(e) PROVE KeysMatch'
  <2>1. ExtIdOf[e] \in ExtIds
    BY StoreAssumption DEF StoreAssumption
  <2>2. \A id \in ExtIds : 
          \/ inJob'[id] = inJob[id]
          \/ id = ExtIdOf[e] /\ inJob'[id].event = e
    BY <1>4, <2>1 DEF Deliver, TypeOK, NoInboundJob
  <2> QED
    BY <1>4, <2>2 DEF KeysMatch, Exists, Deliver
<1>5. ASSUME NEW id \in ExtIds, EvictInbound(id) PROVE KeysMatch'
  BY <1>5 DEF EvictInbound, KeysMatch, Exists, TypeOK, NoInboundJob
<1>6. ASSUME NEW id \in ExtIds, InboundStalled(id) PROVE KeysMatch'
  <2>1. \A i \in ExtIds : 
          \/ inJob'[i] = inJob[i]
          \/ i = id /\ inJob'[i].event = inJob[i].event
    BY <1>6, StallKeeps DEF InboundStalled, TypeOK
  <2> QED
    BY <1>6, <2>1 DEF KeysMatch, Exists, InboundStalled, OrphanInbound
<1> QED
  BY <1>1, <1>2, <1>3, <1>4, <1>5, <1>6
  DEF Next, Environment, InboundQueue, UpdateConversation, CloseConversation,
      Crash, AiStalled

\* A job completes only when its message is stored, and fails only when it is
\* exhausted.
LEMMA JobProgressNext ==
  ASSUME TypeOK, InboundHolds, KeysMatch, JobProgress, Next
  PROVE  JobProgress'
<1> USE DEF chatVars, replyVars, AiFrame, EnvFrame
<1> DEFINE Stored == InboundPc \ {"idle", "contact", "find", "create", "persist"}
<1>1. \A id \in ExtIds : Exists(id) => Exists(id)'
  <2> SUFFICES ASSUME NEW id \in ExtIds, Exists(id) PROVE Exists(id)'
    OBVIOUS
  <2>1. row'[id].event = row[id].event
    BY RowsNext
  <2> QED
    BY <2>1 DEF Exists
<1>2. \A e \in accepted : ExtIdOf[e] \in ExtIds
  BY StoreAssumption DEF StoreAssumption, TypeOK
<1>3. CASE UNCHANGED <<inw, inJob, accepted, exhausted>>
  BY <1>1, <1>2, <1>3 DEF JobProgress, InboundHolds, InboundPc
<1>4. ASSUME NEW p \in Procs, InboundStep(p) PROVE JobProgress'
  <2>1. accepted' = accepted /\ \A q \in Procs \ {p} : inw'[q] = inw[q]
    BY <1>4, InboundEffects
  <2>2. inw'[p].pc \in Stored => Exists(inw[p].id)'
    <3> SUFFICES ASSUME inw'[p].pc \in Stored PROVE Exists(inw[p].id)'
      OBVIOUS
    <3>1. ~InboundPick(p)
      <4> SUFFICES ASSUME InboundPick(p) PROVE FALSE
        OBVIOUS
      <4> PICK id \in ExtIds :
            inw' = [inw EXCEPT ![p] = [IdleInbound EXCEPT !.pc = "contact", !.id = id]]
        BY DEF InboundPick
      <4>1. inw'[p].pc = "contact"
        BY DEF TypeOK, IdleInbound
      <4> QED
        BY <4>1
    <3>2. /\ inw'[p].id = inw[p].id /\ inw[p].pc # "idle"
          /\ PersistMessage(p) \/ inw[p].pc \in Stored
      BY <1>4, <3>1, InboundLocals DEF InboundPc
    <3>3. inw[p].id \in ExtIds
      BY <3>2 DEF InboundHolds
    <3>4. CASE inw[p].pc \in Stored
      BY <1>1, <3>2, <3>3, <3>4 DEF JobProgress, Exists
    <3>5. CASE PersistMessage(p)
      <4>1. inJob[inw[p].id].event # None
        BY <3>3, <3>5, StoreAssumption
        DEF PersistMessage, InboundHolds, KeysMatch, StoreAssumption
      <4>2. row'[inw[p].id].event # None
        BY <3>3, <3>5, <4>1 DEF PersistMessage, Exists, TypeOK, NoMessage
      <4> QED
        BY <3>2, <4>2 DEF Exists
    <3> QED
      BY <3>2, <3>4, <3>5
  <2>3. \A q \in Procs \ {p} : inw'[q].pc \in Stored => Exists(inw[q].id)'
    BY <1>1, <2>1 DEF JobProgress, InboundHolds, InboundPc, Exists
  <2>4. inw[p].pc # "idle" => inw[p].id \in ExtIds /\ inJob[inw[p].id].state = "active"
    BY DEF InboundHolds
  <2>5. FinishInbound(p) => Exists(inw[p].id)
    BY DEF FinishInbound, JobProgress, InboundPc
  <2>6. \A id \in ExtIds : 
          \/ inJob'[id] = inJob[id]
          \/ inJob'[id].state \in {"active", "queued"}
          \/ inJob'[id].state = "completed" /\ Exists(id)
          \/ inJob'[id].state = "failed" /\ id \in exhausted'
    BY <1>4, <2>4, <2>5, InboundJobs
  <2>7. \A id \in ExtIds : id \in exhausted => id \in exhausted'
    BY <1>4, InboundJobs
  <2>8. \A id \in ExtIds : inJob'[id].state = "completed" => Exists(id)'
    BY <1>1, <2>6 DEF JobProgress
  <2>9. \A id \in ExtIds : inJob'[id].state = "failed" => id \in exhausted'
    BY <2>6, <2>7 DEF JobProgress
  <2>10. \A id \in ExtIds : inJob[id].state \in {"queued", "active"} =>
           \/ Exists(id)' \/ inJob'[id].state \in {"queued", "active"}
           \/ id \in exhausted'
    BY <1>1, <2>6
  <2>11. \A e \in accepted' : \/ Exists(ExtIdOf[e])'
                              \/ inJob'[ExtIdOf[e]].state \in {"queued", "active"}
                              \/ ExtIdOf[e] \in exhausted'
    BY <1>1, <1>2, <2>1, <2>7, <2>10 DEF JobProgress
  <2> QED
    BY <2>2, <2>3, <2>8, <2>9, <2>11 DEF JobProgress
<1>5. ASSUME NEW e \in Events, Deliver(e) PROVE JobProgress'
  <2>1. ExtIdOf[e] \in ExtIds /\ accepted' = accepted \cup {e}
    BY <1>5, StoreAssumption DEF StoreAssumption, Deliver
  <2>2. \A id \in ExtIds :
          \/ inJob'[id] = inJob[id]
          \/ inJob[id].state = "absent" /\ inJob'[id].state = "queued"
    BY <1>5 DEF Deliver, TypeOK, NoInboundJob
  <2>3. \A id \in ExtIds : inJob[id].state \in JobState
    BY DEF TypeOK, InboundJob
  <2>4. inJob'[ExtIdOf[e]].state # "absent"
    BY <1>5, <2>1 DEF Deliver, TypeOK, NoInboundJob
  <2>5. UNCHANGED <<row, inw, exhausted>>
    BY <1>5 DEF Deliver
  <2>6. /\ \A id \in ExtIds : inJob'[id].state = "completed" => Exists(id)'
        /\ \A id \in ExtIds : inJob'[id].state = "failed" => id \in exhausted'
    BY <2>2, <2>5 DEF JobProgress, Exists
  <2>7. inJob'[ExtIdOf[e]].state \in JobState
    BY <2>1, <2>2, <2>3 DEF JobState
  <2>8. \A f \in accepted' : \/ Exists(ExtIdOf[f])'
                             \/ inJob'[ExtIdOf[f]].state \in {"queued", "active"}
                             \/ ExtIdOf[f] \in exhausted'
    BY <1>2, <2>1, <2>2, <2>4, <2>5, <2>6, <2>7 DEF JobProgress, JobState, Exists
  <2> QED
    BY <2>5, <2>6, <2>8 DEF JobProgress, Exists
<1>6. ASSUME NEW id \in ExtIds, EvictInbound(id) PROVE JobProgress'
  <2>1. /\ inJob'[id].state = "absent" /\ \A i \in ExtIds \ {id} : inJob'[i] = inJob[i]
        /\ UNCHANGED <<row, inw, accepted, exhausted>>
    BY <1>6 DEF EvictInbound, TypeOK, NoInboundJob
  <2>2. Exists(id) \/ id \in exhausted
    BY <1>6 DEF EvictInbound, JobProgress
  <2>3. \A i \in ExtIds : Exists(i)' = Exists(i)
    BY <2>1 DEF Exists
  <2>4. \A e \in accepted : \/ Exists(ExtIdOf[e])'
                            \/ inJob'[ExtIdOf[e]].state \in {"queued", "active"}
                            \/ ExtIdOf[e] \in exhausted'
    BY <1>2, <2>1, <2>2, <2>3 DEF JobProgress
  <2> QED
    BY <2>1, <2>3, <2>4 DEF JobProgress, Exists
<1>7. ASSUME NEW id \in ExtIds, InboundStalled(id) PROVE JobProgress'
  <2>1. /\ inJob'[id].state \in {"queued", "failed"}
        /\ \A i \in ExtIds \ {id} : inJob'[i] = inJob[i]
        /\ UNCHANGED <<row, inw, accepted>>
        /\ exhausted \subseteq exhausted'
        /\ inJob'[id].state = "failed" => id \in exhausted'
    BY <1>7, StallKeeps DEF InboundStalled, TypeOK
  <2> QED
    BY <1>2, <1>7, <2>1 DEF JobProgress, Exists, InboundStalled, OrphanInbound
<1>8. ASSUME NEW p \in Procs, Crash(p) PROVE JobProgress'
  <2>1. /\ UNCHANGED <<row, inJob, accepted, exhausted>>
        /\ inw'[p].pc = "idle"
        /\ \A q \in Procs \ {p} : inw'[q] = inw[q]
    BY <1>8 DEF Crash, TypeOK, IdleInbound
  <2> QED
    BY <2>1 DEF JobProgress, Exists
<1>9. ASSUME NEW p \in Procs, AiStep(p) PROVE JobProgress'
  BY <1>3, <1>9, AiEffects
<1> QED
  BY <1>3, <1>4, <1>5, <1>6, <1>7, <1>8, <1>9
  DEF Next, Environment, InboundQueue, UpdateConversation, CloseConversation,
      AiStalled

\* The actions after which nothing of replyVars has changed.
LEMMA ReplyVarsNext ==
  ASSUME TypeOK, Next
  PROVE  \/ UNCHANGED <<outbox, log, answered>>
         \/ \E p \in Procs : SkipLog(p) \/ SendReply(p) \/ RecordOutbound(p)
                             \/ LogOutbound(p) \/ LogRun(p) \/ LogError(p)
<1> USE DEF chatVars, replyVars, AiFrame, EnvFrame
<1>1. ASSUME NEW p \in Procs, InboundStep(p) PROVE UNCHANGED <<outbox, log, answered>>
  BY <1>1 DEF InboundStep, InboundPick, ResolveContact, FindConversation,
     CreateConversation, PersistMessage, TouchConversation, ProcessMedia,
     TranscribeMedia, RemoveAiJob, AddAiJob, FinishInbound, InboundThrow
<1>2. ASSUME NEW p \in Procs, AiStep(p)
      PROVE  \/ UNCHANGED <<outbox, log, answered>>
             \/ SkipLog(p) \/ SendReply(p) \/ RecordOutbound(p)
             \/ LogOutbound(p) \/ LogRun(p) \/ LogError(p)
  BY <1>2 DEF AiStep, AiPick, LoadConversation, SkipRead, SkipMark,
     ReadPending, ReadFallback, RunEngine, MarkBatch, AiFinish, AiCatch, AiThrow
<1> QED
  BY <1>1, <1>2
  DEF Next, Environment, InboundQueue, Deliver, EvictInbound, InboundStalled,
      AiStalled, UpdateConversation, CloseConversation, Crash

\* Replies to a message are never taken back, nor are OUTBOUND rows: where there
\* was one reply, there still is exactly one.
LEMMA DeliveryStays ==
  ASSUME TypeOK, AnsweredAtMostOnce', Next
  PROVE  /\ \A id \in ExtIds : answered[id] = 1 => answered'[id] = 1
         /\ outbox \subseteq outbox'
<1>1. outbox \subseteq outbox'
  BY ReplyVarsNext DEF SkipLog, SendReply, RecordOutbound, LogOutbound, LogRun, LogError
<1>2. \A id \in ExtIds : answered'[id] = answered[id] \/ answered'[id] = answered[id] + 1
  BY AnswersNext
<1> QED
  BY <1>1, <1>2 DEF AnsweredAtMostOnce

\* A run whose locals stay keeps what it knows of its reply.
LEMMA DeliveryOfIdle ==
  ASSUME TypeOK, AnsweredAtMostOnce', Next, NEW p \in Procs, DeliveryOf(p),
         aiw'[p] = aiw[p]
  PROVE  DeliveryOf(p)'
<1>1. aiw[p].batch \subseteq ExtIds
  BY DEF TypeOK, AiWorker
<1> QED
  BY <1>1, DeliveryStays DEF DeliveryOf

\* A run records a reply before it logs it, and only after the provider
\* acknowledged it.
LEMMA DeliveryOfSelf ==
  ASSUME TypeOK, BatchState, DeliveryState, AnsweredAtMostOnce', Next,
         NEW p \in Procs, AiStep(p)
  PROVE  DeliveryOf(p)'
<1>1. aiw[p] \in AiWorker /\ aiw[p].batch \subseteq ExtIds /\ DeliveryOf(p)
  BY DEF TypeOK, AiWorker, DeliveryState
<1>2. CASE aiw'[p].ack # "SENT" \/ aiw'[p].pc = "idle"
  BY <1>2 DEF DeliveryOf
<1>3. ASSUME NEW pc, AiGoto(p, pc)
      PROVE  /\ aiw'[p].pc = pc /\ aiw'[p].conv = aiw[p].conv
             /\ aiw'[p].batch = aiw[p].batch /\ aiw'[p].ack = aiw[p].ack
  BY <1>1, <1>3 DEF AiGoto, TypeOK, AiWorker
<1>4. CASE AiPick(p) \/ AiFinish(p) \/ AiThrow(p)
  <2>1. CASE AiPick(p)
    <3> PICK c \in Convs :
          aiw' = [aiw EXCEPT ![p] = [IdleAi EXCEPT !.pc = "load", !.conv = c]]
      BY <2>1 DEF AiPick, AiUpdate
    <3> QED
      BY <1>2 DEF IdleAi, TypeOK
  <2>2. CASE AiFinish(p) \/ AiThrow(p)
    BY <1>2, <2>2 DEF AiFinish, AiThrow, AiUpdate, IdleAi, TypeOK
  <2> QED
    BY <1>4, <2>1, <2>2
<1>5. CASE LoadConversation(p) \/ SkipMark(p) \/ SkipLog(p) \/ MarkBatch(p)
  <2>1. aiw'[p].ack = aiw[p].ack
    BY <1>3, <1>5 DEF LoadConversation, SkipMark, SkipLog, MarkBatch
  <2>2. aiw[p].ack # "SENT"
    BY <1>1, <1>5 DEF LoadConversation, SkipMark, SkipLog, MarkBatch, DeliveryOf
  <2> QED
    BY <1>2, <2>1, <2>2
<1>6. CASE SkipRead(p) \/ ReadPending(p) \/ ReadFallback(p) \/ RunEngine(p)
  <2>1. ASSUME NEW pc, NEW batch, NEW kind, NEW text,
               \/ aiw' = [aiw EXCEPT ![p] = [aiw[p] EXCEPT !.batch = batch, !.pc = pc]]
               \/ aiw' = [aiw EXCEPT ![p] = [aiw[p] EXCEPT !.batch = batch, !.kind = kind,
                                                           !.pc = pc]]
               \/ aiw' = [aiw EXCEPT ![p] = [aiw[p] EXCEPT !.text = text, !.pc = pc]]
        PROVE  aiw'[p].ack = aiw[p].ack
    <3>1. aiw[p] \in AiWorker /\ aiw \in [Procs -> AiWorker]
      BY <1>1 DEF TypeOK
    <3>2. \/ aiw'[p] = [aiw[p] EXCEPT !.batch = batch, !.pc = pc]
          \/ aiw'[p] = [aiw[p] EXCEPT !.batch = batch, !.kind = kind, !.pc = pc]
          \/ aiw'[p] = [aiw[p] EXCEPT !.text = text, !.pc = pc]
      BY <2>1, <3>1
    <3> QED
      BY <3>1, <3>2 DEF AiWorker
  <2>2. aiw'[p].ack = aiw[p].ack
    <3>1. CASE SkipRead(p)
      BY <2>1, <3>1 DEF SkipRead, AiUpdate
    <3>2. CASE ReadPending(p)
      BY <2>1, <3>2 DEF ReadPending, AiUpdate
    <3>3. CASE ReadFallback(p)
      BY <2>1, <3>3 DEF ReadFallback, AiUpdate
    <3>4. CASE RunEngine(p)
      BY <2>1, <3>4 DEF RunEngine, AiUpdate
    <3> QED
      BY <1>6, <3>1, <3>2, <3>3, <3>4
  <2>3. aiw[p].ack # "SENT"
    BY <1>1, <1>6 DEF SkipRead, ReadPending, ReadFallback, RunEngine, DeliveryOf
  <2> QED
    BY <1>2, <2>2, <2>3
<1>7. CASE SendReply(p)
  <2> PICK o \in SendOutcomes :
        /\ answered' = [id \in ExtIds |->
                          IF o.delivered /\ id \in aiw[p].batch
                          THEN answered[id] + 1 ELSE answered[id]]
        /\ aiw' = [aiw EXCEPT ![p] = [aiw[p] EXCEPT !.ack = o.ack, !.pc = "record"]]
    BY <1>7 DEF SendReply, AiUpdate
  <2>1. /\ aiw'[p].pc = "record" /\ aiw'[p].ack = o.ack
        /\ aiw'[p].batch = aiw[p].batch
    BY <1>1 DEF TypeOK, AiWorker
  <2>2. o.ack = "SENT" => o.delivered
    BY DEF SendOutcomes
  <2>3. \A id \in aiw[p].batch : answered[id] = 0
    BY <1>7 DEF SendReply, BatchState, BatchOf
  <2>4. o.delivered => \A id \in aiw[p].batch : answered'[id] = 1
    BY <1>1, <2>3
  <2> QED
    BY <2>1, <2>2, <2>4 DEF DeliveryOf
<1>8. CASE RecordOutbound(p)
  <2>1. /\ aiw'[p].pc \in {"logSend", "logRun"} /\ aiw'[p].conv = aiw[p].conv
        /\ aiw'[p].batch = aiw[p].batch /\ aiw'[p].ack = aiw[p].ack
    BY <1>3, <1>8 DEF RecordOutbound
  <2>2. aiw[p].ack = "SENT" =>
          [conv |-> aiw[p].conv, batch |-> aiw[p].batch, status |-> "SENT"] \in outbox'
    BY <1>8 DEF RecordOutbound, RowStatus
  <2>3. aiw[p].ack = "SENT" => \A id \in aiw[p].batch : answered'[id] = 1
    BY <1>1, <1>8, DeliveryStays DEF RecordOutbound, DeliveryOf
  <2> QED
    BY <2>1, <2>2, <2>3 DEF DeliveryOf
<1>9. CASE LogOutbound(p)
  <2>1. /\ aiw'[p].pc = "logRun" /\ aiw'[p].conv = aiw[p].conv
        /\ aiw'[p].batch = aiw[p].batch /\ aiw'[p].ack = aiw[p].ack
    BY <1>3, <1>9 DEF LogOutbound
  <2> QED
    BY <1>1, <1>9, <2>1, DeliveryStays DEF LogOutbound, DeliveryOf
<1>10. CASE LogRun(p) \/ AiCatch(p) \/ LogError(p)
  <2>1. aiw'[p].pc \in {"finish", "logError"}
    BY <1>3, <1>10 DEF LogRun, AiCatch, LogError
  <2> QED
    BY <2>1 DEF DeliveryOf
<1> QED
  BY <1>4, <1>5, <1>6, <1>7, <1>8, <1>9, <1>10 DEF AiStep

\* DeliveryState is kept by every step.
LEMMA DeliveryStateNext ==
  ASSUME TypeOK, InboundHolds, KeysMatch, BatchState, DeliveryState,
         AnsweredAtMostOnce', Next
  PROVE  DeliveryState'
<1> USE DEF chatVars, replyVars, AiFrame, EnvFrame
<1>1. CASE aiw' = aiw
  BY <1>1, DeliveryOfIdle DEF DeliveryState
<1>2. ASSUME NEW p \in Procs, InboundStep(p) PROVE DeliveryState'
  BY <1>1, <1>2, InboundEffects
<1>3. ASSUME NEW p \in Procs, AiStep(p) PROVE DeliveryState'
  BY <1>3, AiEffects, DeliveryOfSelf, DeliveryOfIdle DEF DeliveryState
<1>4. ASSUME NEW p \in Procs, Crash(p) PROVE DeliveryState'
  <2>1. aiw'[p].pc = "idle" /\ \A q \in Procs \ {p} : aiw'[q] = aiw[q]
    BY <1>4 DEF Crash, TypeOK, IdleAi
  <2>2. DeliveryOf(p)'
    BY <2>1 DEF DeliveryOf
  <2> QED
    BY <2>1, <2>2, DeliveryOfIdle DEF DeliveryState
<1> QED
  BY <1>1, <1>2, <1>3, <1>4
  DEF Next, Environment, InboundQueue, Deliver, EvictInbound, InboundStalled,
      AiStalled, UpdateConversation, CloseConversation

\* A run is logged as a success only when its reply was delivered and stored.
LEMMA SuccessNext ==
  ASSUME TypeOK, DeliveryState, SuccessMeansDelivered, AnsweredAtMostOnce', Next
  PROVE  SuccessMeansDelivered'
<1> DEFINE Delivered(l) ==
             l.type \in {"AI_RESPONSE", "AI_UNSUPPORTED_MEDIA_FALLBACK"} /\ l.status = "SUCCESS"
               => /\ [conv |-> l.conv, batch |-> l.batch, status |-> "SENT"] \in outbox
                  /\ \A id \in l.batch : answered[id] = 1
<1>1. \A l \in log : l.batch \subseteq ExtIds /\ Delivered(l)
  BY DEF TypeOK, ActionLog, SuccessMeansDelivered
<1>2. \A l \in log : Delivered(l)'
  BY <1>1, DeliveryStays
<1>3. ASSUME NEW p \in Procs, NEW type, NEW status, AddLog(p, type, status),
             type \notin {"AI_RESPONSE", "AI_UNSUPPORTED_MEDIA_FALLBACK"}
      PROVE  SuccessMeansDelivered'
  BY <1>2, <1>3 DEF AddLog, SuccessMeansDelivered
<1>4. ASSUME NEW p \in Procs, LogRun(p) PROVE SuccessMeansDelivered'
  <2> DEFINE l == [type |-> RunAction(aiw[p]), conv |-> aiw[p].conv,
                   batch |-> aiw[p].batch,
                   status |-> IF aiw[p].text /\ aiw[p].ack # "SENT"
                              THEN "FAILED" ELSE "SUCCESS"]
  <2>1. log' = log \cup {l}
    BY <1>4 DEF LogRun, AddLog
  <2>2. aiw[p].batch \subseteq ExtIds
    BY DEF TypeOK, AiWorker
  <2>3. CASE aiw[p].text /\ aiw[p].ack = "SENT"
    <3>1. /\ [conv |-> aiw[p].conv, batch |-> aiw[p].batch, status |-> "SENT"] \in outbox
          /\ \A id \in aiw[p].batch : answered[id] = 1
      BY <1>4, <2>3 DEF LogRun, DeliveryState, DeliveryOf
    <3>2. /\ [conv |-> aiw[p].conv, batch |-> aiw[p].batch, status |-> "SENT"] \in outbox'
          /\ \A id \in aiw[p].batch : answered'[id] = 1
      BY <2>2, <3>1, DeliveryStays
    <3> QED
      BY <1>2, <2>1, <3>2 DEF SuccessMeansDelivered
  <2>4. CASE aiw[p].text /\ aiw[p].ack # "SENT"
    BY <1>2, <2>1, <2>4 DEF SuccessMeansDelivered
  <2>5. CASE ~aiw[p].text
    BY <1>2, <2>1, <2>5 DEF SuccessMeansDelivered, RunAction
  <2> QED
    BY <2>3, <2>4, <2>5
<1>5. CASE log' = log
  BY <1>2, <1>5 DEF SuccessMeansDelivered
<1> QED
  BY <1>3, <1>4, <1>5, ReplyVarsNext
  DEF SkipLog, SendReply, RecordOutbound, LogOutbound, LogError

\* The inductive invariant holds initially.
LEMMA PipelineInvInit == Init => PipelineInv
<1> SUFFICES ASSUME Init PROVE PipelineInv
  OBVIOUS
<1>1. TypeOK
  BY TypeInit
<1>2. InboundHolds /\ AiHolds /\ BatchState
  BY DEF Init, InboundHolds, AiHolds, BatchState, BatchOf, IdleInbound, IdleAi
<1>3. KeysMatch /\ JobProgress
  BY DEF Init, KeysMatch, JobProgress, Exists, NoMessage, NoInboundJob, IdleInbound
<1>4. AnsweredIsSettled /\ AnsweredAtMostOnce
  BY DEF Init, AnsweredIsSettled, AnsweredAtMostOnce
<1>5. DeliveryState /\ SuccessMeansDelivered
  BY DEF Init, DeliveryState, DeliveryOf, IdleAi, SuccessMeansDelivered
<1> QED
  BY <1>1, <1>2, <1>3, <1>4, <1>5 DEF PipelineInv

\* The inductive invariant is kept by every step.
LEMMA PipelineInvNext == PipelineInv /\ [Next]_vars => PipelineInv'
<1> SUFFICES ASSUME PipelineInv, [Next]_vars PROVE PipelineInv'
  OBVIOUS
<1> USE DEF PipelineInv
<1>1. CASE UNCHANGED vars
  BY <1>1 DEF vars, chatVars, replyVars, TypeOK, InboundHolds, KeysMatch, JobProgress,
     AiHolds, BatchState, BatchOf, AnsweredIsSettled, AnsweredAtMostOnce,
     DeliveryState, DeliveryOf, SuccessMeansDelivered, Exists, HoldsInbound, HoldsAi
<1>2. CASE Next
  <2>1. TypeOK'
    BY <1>2, TypeInboundStep, TypeAiStep, TypeEnvironment DEF Next
  <2>2. InboundHolds' /\ KeysMatch' /\ JobProgress'
    BY <1>2, InboundHoldsNext, KeysMatchNext, JobProgressNext
  <2>3. AiHolds' /\ BatchState'
    BY <1>2, AiHoldsNext, BatchStateNext
  <2>4. AnsweredIsSettled' /\ AnsweredAtMostOnce'
    BY <1>2, AnsweredNext
  <2>5. DeliveryState' /\ SuccessMeansDelivered'
    BY <1>2, <2>4, DeliveryStateNext, SuccessNext
  <2> QED
    BY <2>1, <2>2, <2>3, <2>4, <2>5
<1> QED
  BY <1>1, <1>2

\* The inductive invariant of the message pipeline holds in every behaviour,
\* for any number of events, contacts, conversations and processes.
THEOREM PipelineInvariant == Spec => []PipelineInv
  BY PipelineInvInit, PipelineInvNext, PTL DEF Spec

\* Every table, queue and local stays in its domain.
THEOREM TypeCorrect == Spec => []TypeOK
<1>1. PipelineInv => TypeOK
  BY DEF PipelineInv
<1> QED
  BY <1>1, PipelineInvariant, PTL

\* No inbound message is covered by two delivered replies, whatever crashes,
\* stalls, retries and redeliveries happen: AiResponseProcessor.process marks
\* the batch before it dispatches.
THEOREM ReplyAtMostOnce == Spec => []AnsweredAtMostOnce
<1>1. PipelineInv => AnsweredAtMostOnce
  BY DEF PipelineInv
<1> QED
  BY <1>1, PipelineInvariant, PTL

\* An AI_RESPONSE or AI_UNSUPPORTED_MEDIA_FALLBACK log with status SUCCESS names
\* a batch whose reply the provider accepted, once, and whose OUTBOUND row is
\* SENT (AiResponseProcessor.process logs the status of the dispatched message).
THEOREM SuccessIsDelivered == Spec => []SuccessMeansDelivered
<1>1. PipelineInv => SuccessMeansDelivered
  BY DEF PipelineInv
<1> QED
  BY <1>1, PipelineInvariant, PTL

\* When no two events share an externalId, an event the webhook acknowledged
\* is stored, or its job will still run, or its attempts are exhausted.
THEOREM NoAcceptedEventLost ==
  ASSUME \A e, f \in Events : ExtIdOf[e] = ExtIdOf[f] => e = f
  PROVE  Spec => []AcceptedNotLost
<1>1. PipelineInv => AcceptedNotLost
  <2> SUFFICES ASSUME PipelineInv, NEW e \in accepted
               PROVE  \/ row[ExtIdOf[e]].event = e
                      \/ /\ inJob[ExtIdOf[e]].state \in {"queued", "active"}
                         /\ inJob[ExtIdOf[e]].event = e
                      \/ ExtIdOf[e] \in exhausted
    BY DEF AcceptedNotLost
  <2>1. e \in Events /\ ExtIdOf[e] \in ExtIds
    BY StoreAssumption DEF StoreAssumption, PipelineInv, TypeOK
  <2>2. CASE Exists(ExtIdOf[e])
    BY <2>1, <2>2 DEF PipelineInv, KeysMatch
  <2>3. CASE inJob[ExtIdOf[e]].state \in {"queued", "active"}
    BY <2>1, <2>3 DEF PipelineInv, KeysMatch
  <2> QED
    BY <2>1, <2>2, <2>3 DEF PipelineInv, JobProgress
<1> QED
  BY <1>1, PipelineInvariant, PTL

\* MessagePersister never moves a stored message to another conversation or
\* event, and nothing resets aiProcessed.
THEOREM RowsStayPut == Spec => StoredOnce
<1> DEFINE A == \A id \in ExtIds : Exists(id) =>
       /\ row'[id].event = row[id].event /\ row'[id].conv = row[id].conv
       /\ row[id].processed => row'[id].processed
<1>1. PipelineInv /\ [Next]_vars => [A]_vars
  <2> SUFFICES ASSUME PipelineInv, Next PROVE A
    OBVIOUS
  <2> QED
    BY RowsNext DEF PipelineInv
<1> QED
  BY <1>1, PipelineInvariant, PTL DEF Spec, StoredOnce

\* The initial state refines the contract's.
LEMMA ContractInitially == Init => Contract!ContractInit
  BY DEF Init, Contract!ContractInit, StageOf, Exists, NoMessage

\* Every step is Store, Settle or Answer of the contract, or a stutter.
LEMMA ContractStep ==
  PipelineInv /\ [Next]_vars => [Contract!ContractNext]_(Contract!cvars)
<1> SUFFICES ASSUME PipelineInv, [Next]_vars
             PROVE  Contract!ContractNext \/ UNCHANGED Contract!cvars
  BY DEF Contract!cvars
<1> USE DEF chatVars, replyVars, AiFrame, EnvFrame
<1>1. ASSUME answered' = answered,
             \A id \in ExtIds : /\ row'[id].event = row[id].event
                                /\ row'[id].processed = row[id].processed
      PROVE  UNCHANGED Contract!cvars
  BY <1>1 DEF Contract!cvars, StageOf, Exists
<1>2. ASSUME UNCHANGED <<row, answered>> PROVE UNCHANGED Contract!cvars
  BY <1>1, <1>2
<1>3. ASSUME NEW p \in Procs, PersistMessage(p)
      PROVE  Contract!ContractNext \/ UNCHANGED Contract!cvars
  <2> DEFINE id == inw[p].id
  <2>1. id \in ExtIds /\ inJob[id].event # None
    BY <1>3, StoreAssumption
    DEF PersistMessage, PipelineInv, InboundHolds, KeysMatch, StoreAssumption
  <2>2. CASE Exists(id)
    BY <1>2, <1>3, <2>2 DEF PersistMessage
  <2>3. CASE ~Exists(id)
    <3>1. /\ row'[id].event # None /\ ~row'[id].processed
          /\ \A i \in ExtIds \ {id} : row'[i] = row[i]
      BY <1>3, <2>1, <2>3 DEF PersistMessage, PipelineInv, TypeOK, NoMessage
    <3>2. answered' = answered
      BY <1>3 DEF PersistMessage
    <3>3. Contract!Store(id)
      BY <2>1, <2>3, <3>1, <3>2 DEF Contract!Store, StageOf, Exists
    <3> QED
      BY <2>1, <3>3 DEF Contract!ContractNext
  <2> QED
    BY <2>2, <2>3
<1>4. ASSUME NEW p \in Procs, InboundStep(p), ~PersistMessage(p)
      PROVE  UNCHANGED Contract!cvars
  <2>1. ASSUME NEW status, row' = [row EXCEPT ![inw[p].id].media = status],
               NEW i \in ExtIds
        PROVE  row'[i].event = row[i].event /\ row'[i].processed = row[i].processed
    BY <2>1 DEF PipelineInv, TypeOK, Message
  <2>2. answered' = answered
    BY <1>4, InboundEffects DEF PipelineInv
  <2>3. CASE ProcessMedia(p) \/ TranscribeMedia(p)
    BY <1>1, <2>1, <2>2, <2>3 DEF ProcessMedia, TranscribeMedia
  <2> QED
    BY <1>2, <1>4, <2>2, <2>3
    DEF InboundStep, InboundPick, ResolveContact, FindConversation,
        CreateConversation, TouchConversation, RemoveAiJob, AddAiJob,
        FinishInbound, InboundThrow
<1>5. ASSUME NEW p \in Procs, SkipMark(p) \/ MarkBatch(p)
      PROVE  Contract!ContractNext
  <2> DEFINE S == aiw[p].batch
  <2>1. S \in SUBSET ExtIds
    BY DEF PipelineInv, TypeOK, AiWorker
  <2>2. \A i \in S : Exists(i) /\ ~row[i].processed
    BY <1>5 DEF SkipMark, MarkBatch, PipelineInv, BatchState, BatchOf
  <2>3. \A i \in ExtIds : row[i] \in Message
    BY DEF PipelineInv, TypeOK
  <2>4. /\ \A i \in S : row'[i].event = row[i].event /\ row'[i].processed
        /\ \A i \in ExtIds \ S : row'[i] = row[i]
        /\ answered' = answered
    BY <1>5, <2>1, <2>3 DEF SkipMark, MarkBatch, MarkProcessed, Message
  <2>5. \A i \in S : answered[i] = 0
    BY <2>1, <2>2 DEF PipelineInv, AnsweredIsSettled, TypeOK
  <2>6. Contract!Settle(S)
    BY <2>1, <2>2, <2>4, <2>5 DEF Contract!Settle, StageOf, Exists
  <2> QED
    BY <2>1, <2>6 DEF Contract!ContractNext
<1>6. ASSUME NEW p \in Procs, SendReply(p)
      PROVE  Contract!ContractNext \/ UNCHANGED Contract!cvars
  <2> DEFINE S == aiw[p].batch
  <2>1. S \in SUBSET ExtIds
    BY DEF PipelineInv, TypeOK, AiWorker
  <2>2. \A i \in S : Exists(i) /\ row[i].processed /\ answered[i] = 0
    BY <1>6 DEF SendReply, PipelineInv, BatchState, BatchOf
  <2> PICK o \in SendOutcomes :
        answered' = [i \in ExtIds |-> IF o.delivered /\ i \in S
                                      THEN answered[i] + 1 ELSE answered[i]]
    BY <1>6 DEF SendReply
  <2>3. row' = row
    BY <1>6 DEF SendReply
  <2>4. answered \in [ExtIds -> Nat]
    BY DEF PipelineInv, TypeOK
  <2>5. CASE o.delivered
    <3>1. Contract!Answer(S)
      BY <2>1, <2>2, <2>3, <2>4, <2>5 DEF Contract!Answer, StageOf, Exists
    <3> QED
      BY <2>1, <3>1 DEF Contract!ContractNext
  <2>6. CASE ~o.delivered
    <3>1. answered' = answered
      BY <2>4, <2>6
    <3> QED
      BY <1>2, <2>3, <3>1
  <2> QED
    BY <2>5, <2>6
<1>7. ASSUME NEW p \in Procs, AiStep(p), ~SkipMark(p), ~MarkBatch(p), ~SendReply(p)
      PROVE  UNCHANGED Contract!cvars
  BY <1>2, <1>7
  DEF AiStep, AiPick, LoadConversation, SkipRead, SkipLog, ReadPending,
      ReadFallback, RunEngine, RecordOutbound, LogOutbound, LogRun, AiFinish,
      AiCatch, LogError, AiThrow
<1> QED
  BY <1>2, <1>3, <1>4, <1>5, <1>6, <1>7
  DEF Next, vars, Environment, InboundQueue, Deliver, EvictInbound, InboundStalled,
      AiStalled, UpdateConversation, CloseConversation, Crash

\* The pipeline implements ReplyContract: a message is stored, settled with its
\* batch, and only then answered, once.
THEOREM ImplementsContract == Spec => ContractHolds
  BY PipelineInvariant, ContractInitially, ContractStep, PTL
  DEF Spec, ContractHolds, Contract!ContractSpec
=============================================================================
