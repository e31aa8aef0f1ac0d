----------------------- MODULE PipelineSettling_proofs -----------------------
(***************************************************************************)
(* Proofs that a scheduled message loses its run only through a known       *)
(* window, and that every message settled by an undisturbed pipeline is     *)
(* named by an action log.                                                  *)
(***************************************************************************)
EXTENDS MessagePipeline_proofs

(***************************************************************************)
(* Which message waits, and for whom.                                      *)
(***************************************************************************)
\* The stages of a run before its batch is read, and those in which it holds an
\* unmarked batch.
Reading  == {"load", "skipRead", "read"}
Unmarked == {"skipMark", "context", "engine", "mark"}

\* Run p will settle message id.
Settles(p, id) ==
  \/ aiw[p].pc \in Reading
  \/ aiw[p].pc \in Unmarked /\ id \in aiw[p].batch

\* What keeps a waiting message from being stranded, worker by worker.
Safe(id) ==
  LET c == row[id].conv
  IN \/ id \in excused
     \/ aiJob[c].state = "queued"
     \/ OrphanAi(c)
     \/ AddCovers(c)
     \/ \E p \in Procs : HoldsAi(p, c) /\ Settles(p, id)

\* Safe is the alternative that WindowInv states.
LEMMA SafeMeans ==
  ASSUME NEW id
  PROVE  Safe(id) <=> \/ id \in excused
                      \/ WillRead(row[id].conv) \/ AddCovers(row[id].conv)
                      \/ RunCovers(id)
  BY DEF Safe, WillRead, RunCovers, Settles, Reading, Unmarked

\* A waiting message is pending in a conversation of its own.
LEMMA WaitingPends ==
  ASSUME KeysMatch, WindowInv, NEW id \in ExtIds, Waiting(id)
  PROVE  /\ Exists(id) /\ row[id].conv \in Convs
         /\ id \in Pending(row[id].conv)
  BY DEF WindowInv, Waiting, KeysMatch, Pending

\* excused and scheduled only grow.
LEMMA MarksGrow ==
  ASSUME Next
  PROVE  /\ excused \subseteq excused'
         /\ scheduled' = scheduled \/ \E p \in Procs : AddAiJob(p)
<1> USE DEF chatVars, replyVars, AiFrame, EnvFrame
<1>1. ASSUME NEW p \in Procs, InboundStep(p)
      PROVE  excused \subseteq excused' /\ (scheduled' = scheduled \/ AddAiJob(p))
  BY <1>1 DEF InboundStep, InboundPick, ResolveContact, FindConversation,
     CreateConversation, PersistMessage, TouchConversation, ProcessMedia,
     TranscribeMedia, RemoveAiJob, AddAiJob, FinishInbound, InboundThrow
<1>2. ASSUME NEW p \in Procs, AiStep(p)
      PROVE  excused \subseteq excused' /\ scheduled' = scheduled
  BY <1>2 DEF AiStep, AiPick, LoadConversation, SkipRead, SkipMark, SkipLog,
     ReadPending, ReadFallback, RunEngine, MarkBatch, SendReply, RecordOutbound,
     LogOutbound, LogRun, AiFinish, AiCatch, LogError, AiThrow
<1> QED
  BY <1>1, <1>2
  DEF Next, Environment, InboundQueue, Deliver, EvictInbound, InboundStalled,
      AiStalled, UpdateConversation, CloseConversation, Crash

\* A scheduled message is stored, and stays so.
LEMMA ScheduledNext ==
  ASSUME PipelineInv, WindowInv, Next, NEW id \in scheduled'
  PROVE  id \in ExtIds /\ Exists(id) /\ Exists(id)'
<1>1. id \in ExtIds /\ Exists(id)
  <2>1. CASE id \in scheduled
    BY <2>1 DEF WindowInv, PipelineInv, TypeOK
  <2>2. ASSUME NEW p \in Procs, AddAiJob(p), id \notin scheduled
        PROVE  id \in ExtIds /\ Exists(id)
    <3>1. id = inw[p].id /\ inw[p].pc = "add"
      BY <2>2 DEF AddAiJob
    <3> QED
      BY <3>1 DEF PipelineInv, InboundHolds, JobProgress, InboundPc
  <2> QED
    BY <2>1, <2>2, MarksGrow
<1> QED
  BY <1>1, RowsNext DEF Exists, PipelineInv

(***************************************************************************)
(* Steps of inbound workers.                                               *)
(***************************************************************************)
\* An inbound worker takes a conversation's job away only to add it again, and
\* one that gives up at that point excuses what is pending.
LEMMA InboundAiJobs ==
  ASSUME TypeOK, NEW p \in Procs, InboundStep(p), NEW c \in Convs
  PROVE  /\ \/ aiJob'[c] = aiJob[c]
            \/ aiJob'[c].state = "absent" /\ inw'[p].pc = "add" /\ inw'[p].conv = c
            \/ aiJob'[c].state = "queued"
         /\ inw[p].pc = "add" /\ inw[p].conv = c /\ aiJob[c].state = "absent" =>
              aiJob'[c].state = "queued" \/ Pending(c) \subseteq excused'
<1> USE DEF chatVars, replyVars
<1>0. inw[p] \in InboundWorker
  BY DEF TypeOK
<1>1. CASE AddAiJob(p)
  BY <1>1 DEF AddAiJob, TypeOK
<1>2. CASE RemoveAiJob(p)
  <2>1. inw'[p].pc = "add" /\ inw'[p].conv = inw[p].conv
    BY <1>0, <1>2 DEF RemoveAiJob, Goto, TypeOK, InboundWorker
  <2>2. aiJob' = aiJob \/ aiJob' = [aiJob EXCEPT ![inw[p].conv] = NoAiJob]
    BY <1>2 DEF RemoveAiJob
  <2>3. aiJob'[c] = aiJob[c] \/ (inw[p].conv = c /\ aiJob'[c].state = "absent")
    BY <2>2 DEF TypeOK, NoAiJob
  <2> QED
    BY <1>2, <2>1, <2>3 DEF RemoveAiJob
<1>3. CASE InboundThrow(p)
  BY <1>3 DEF InboundThrow, Unscheduled
<1> QED
  BY <1>1, <1>2, <1>3
  DEF InboundStep, InboundPick, ResolveContact, FindConversation,
     CreateConversation, PersistMessage, TouchConversation, ProcessMedia,
     TranscribeMedia, FinishInbound

\* A step of an inbound worker strands no message that was safe.
LEMMA SafeInbound ==
  ASSUME PipelineInv, NEW p \in Procs, InboundStep(p), NEW id \in ExtIds,
         Exists(id), row[id].conv \in Convs, id \in Pending(row[id].conv), Safe(id),
         excused \subseteq excused'
  PROVE  Safe(id)'
<1> DEFINE c == row[id].conv
<1> USE DEF PipelineInv
<1>1. row'[id].conv = c /\ aiw' = aiw /\ \A q \in Procs \ {p} : inw'[q] = inw[q]
  BY InboundEffects
<1>2. CASE aiJob'[c] = aiJob[c]
  <2>1. CASE AddCovers(c)
    BY <1>1, <1>2, <2>1, InboundAiJobs DEF Safe, AddCovers
  <2>2. CASE ~AddCovers(c)
    BY <1>1, <1>2, <2>2 DEF Safe, OrphanAi, HoldsAi, Settles
  <2> QED
    BY <2>1, <2>2
<1>3. CASE aiJob'[c].state = "absent" /\ inw'[p].pc = "add" /\ inw'[p].conv = c
  BY <1>1, <1>3 DEF Safe, AddCovers
<1>4. CASE aiJob'[c].state = "queued"
  BY <1>1, <1>4 DEF Safe
<1> QED
  BY <1>2, <1>3, <1>4, InboundAiJobs

\* The message that scheduleAiResponse runs for is safe afterwards.
LEMMA SafeAdded ==
  ASSUME PipelineInv, NEW p \in Procs, AddAiJob(p), NEW id \in ExtIds,
         id \notin scheduled, Waiting(id)', Exists(id)
  PROVE  Safe(id)'
<1> DEFINE c == inw[p].conv
<1> USE DEF chatVars, replyVars
<1>1. row' = row /\ aiw' = aiw /\ id = inw[p].id /\ row[id].conv = c
  BY DEF AddAiJob, Waiting
<1>2. c \in Convs /\ id \in Pending(c)
  BY <1>1 DEF AddAiJob, Waiting, Pending, PipelineInv, InboundHolds
<1>3. CASE aiJob[c].state = "absent"
  BY <1>1, <1>2, <1>3 DEF AddAiJob, Safe, PipelineInv, TypeOK
<1>4. CASE aiJob[c].state # "absent" /\ WillRead(c)
  <2>1. aiJob' = aiJob
    BY <1>4 DEF AddAiJob
  <2> QED
    BY <1>1, <1>4, <2>1 DEF WillRead, Safe, OrphanAi, HoldsAi, Settles, Reading
<1>5. CASE aiJob[c].state # "absent" /\ ~WillRead(c)
  BY <1>1, <1>2, <1>5 DEF AddAiJob, Safe
<1> QED
  BY <1>3, <1>4, <1>5

(***************************************************************************)
(* Steps of AI workers.                                                    *)
(***************************************************************************)
\* The locals of a run after a step that only moves it on.
LEMMA RunGoes ==
  ASSUME TypeOK, NEW p \in Procs, NEW pc, AiGoto(p, pc)
  PROVE  /\ aiw'[p].pc = pc /\ aiw'[p].conv = aiw[p].conv
         /\ aiw'[p].batch = aiw[p].batch
<1>1. aiw[p] \in AiWorker
  BY DEF TypeOK
<1> QED
  BY <1>1 DEF AiGoto, TypeOK, AiWorker

\* A step of an AI worker starts a run, goes on with one, or ends it, and
\* touches no job but the run's own.
LEMMA RunShape ==
  ASSUME TypeOK, NEW p \in Procs, AiStep(p)
  PROVE  \/ \E d \in Convs :
              /\ aiw[p].pc = "idle" /\ aiw'[p].pc = "load" /\ aiw'[p].conv = d
              /\ \A e \in Convs \ {d} : aiJob'[e] = aiJob[e]
         \/ /\ aiw[p].pc # "idle" /\ aiw'[p].pc # "idle"
            /\ aiw'[p].conv = aiw[p].conv /\ aiJob' = aiJob
         \/ /\ AiFinish(p) \/ AiThrow(p)
            /\ aiw[p].pc # "idle" /\ aiw'[p].pc = "idle"
            /\ \A e \in Convs \ {aiw[p].conv} : aiJob'[e] = aiJob[e]
<1>1. CASE AiPick(p)
  <2> PICK d \in Convs :
        /\ aiw[p].pc = "idle"
        /\ aiJob' = [aiJob EXCEPT ![d].state = "active"]
        /\ aiw' = [aiw EXCEPT ![p] = [IdleAi EXCEPT !.pc = "load", !.conv = d]]
    BY <1>1 DEF AiPick, AiUpdate
  <2>1. aiw'[p].pc = "load" /\ aiw'[p].conv = d
    BY DEF IdleAi, TypeOK
  <2>2. \A e \in Convs \ {d} : aiJob'[e] = aiJob[e]
    BY DEF TypeOK
  <2> QED
    BY <2>1, <2>2
<1>2. CASE AiFinish(p) \/ AiThrow(p)
  <2>1. aiw[p].pc # "idle" /\ aiw' = [aiw EXCEPT ![p] = IdleAi]
    BY <1>2 DEF AiFinish, AiThrow, AiUpdate
  <2>2. aiw'[p].pc = "idle"
    BY <2>1 DEF IdleAi, TypeOK
  <2>3. \A e \in Convs \ {aiw[p].conv} : aiJob'[e] = aiJob[e]
    BY <1>2 DEF AiFinish, AiThrow, TypeOK
  <2> QED
    BY <1>2, <2>1, <2>2, <2>3
<1>3. CASE SkipRead(p) \/ ReadPending(p)
  <2>1. ASSUME SkipRead(p) PROVE aiw'[p].pc # "idle"
    <3>1. PICK pc \in {"skipLog", "skipMark"} :
            aiw' = [aiw EXCEPT ![p] = [aiw[p] EXCEPT !.batch = Pending(aiw[p].conv),
                                                     !.pc = pc]]
      BY <2>1 DEF SkipRead, AiUpdate
    <3>2. aiw'[p].pc # "idle"
      BY <3>1 DEF TypeOK, AiWorker
    <3> QED
      BY <2>1, <3>2
  <2>2. ASSUME ReadPending(p) PROVE aiw'[p].pc # "idle"
    <3>1. PICK pc \in {"finish", "context", "engine"}, kind \in {"ai", "media"} :
            aiw' = [aiw EXCEPT ![p] = [aiw[p] EXCEPT !.batch = Pending(aiw[p].conv),
                                                     !.kind = kind, !.pc = pc]]
      BY <2>2 DEF ReadPending, AiUpdate
    <3>2. aiw'[p].pc # "idle"
      BY <3>1 DEF TypeOK, AiWorker
    <3> QED
      BY <2>2, <3>2
  <2>3. aiw'[p].conv = aiw[p].conv /\ aiw[p].pc # "idle" /\ aiJob' = aiJob
    BY <1>3, RunReads DEF SkipRead, ReadPending
  <2> QED
    BY <1>3, <2>1, <2>2, <2>3
<1>4. CASE ReadFallback(p) \/ RunEngine(p) \/ SendReply(p)
  BY <1>4, RunReads DEF ReadFallback, RunEngine, SendReply
<1>5. ASSUME NEW pc, AiGoto(p, pc), pc # "idle", aiw[p].pc # "idle", aiJob' = aiJob
      PROVE  /\ aiw[p].pc # "idle" /\ aiw'[p].pc # "idle"
             /\ aiw'[p].conv = aiw[p].conv /\ aiJob' = aiJob
  BY <1>5, RunGoes
<1> QED
  BY <1>1, <1>2, <1>3, <1>4, <1>5
  DEF AiStep, LoadConversation, SkipMark, SkipLog, MarkBatch, RecordOutbound,
      LogOutbound, LogRun, AiCatch, LogError, InTry

\* A run that will settle a pending message still will after its next step,
\* unless it has settled it or excuses it.
LEMMA SettlesOn ==
  ASSUME TypeOK, NEW p \in Procs, AiStep(p), NEW id \in Pending(aiw[p].conv),
         Settles(p, id), ~row'[id].processed
  PROVE  id \in excused' \/ Settles(p, id)'
<1> USE DEF Reading, Unmarked
<1>0. aiw[p] \in AiWorker /\ id \in ExtIds
  BY DEF TypeOK, Pending
<1>1. CASE LoadConversation(p)
  BY <1>1, RunGoes DEF LoadConversation, Settles
<1>2. CASE SkipRead(p)
  <2>1. aiw' = [aiw EXCEPT ![p] = [aiw[p] EXCEPT !.batch = Pending(aiw[p].conv),
                                                 !.pc = "skipMark"]]
    BY <1>2 DEF SkipRead, AiUpdate
  <2> QED
    BY <1>0, <2>1 DEF Settles, TypeOK, AiWorker
<1>3. CASE ReadPending(p)
  <2>1. PICK pc \in {"context", "engine"}, kind \in {"ai", "media"} :
          aiw' = [aiw EXCEPT ![p] = [aiw[p] EXCEPT !.batch = Pending(aiw[p].conv),
                                                   !.kind = kind, !.pc = pc]]
    BY <1>3 DEF ReadPending, AiUpdate
  <2> QED
    BY <1>0, <2>1 DEF Settles, TypeOK, AiWorker
<1>4. CASE SkipMark(p) \/ MarkBatch(p)
  <2>1. id \in aiw[p].batch /\ MarkProcessed(aiw[p].batch)
    BY <1>4 DEF SkipMark, MarkBatch, Settles
  <2>2. row'[id] = [row[id] EXCEPT !.processed = TRUE]
    BY <1>0, <2>1 DEF MarkProcessed
  <2> QED
    BY <1>0, <2>2 DEF TypeOK, Message
<1>5. CASE ReadFallback(p) \/ RunEngine(p)
  BY <1>5, RunReads DEF Settles, ReadFallback, RunEngine
<1>6. CASE AiCatch(p) \/ AiThrow(p)
  BY <1>6 DEF AiCatch, AiThrow, Abandoned, Settles
<1> QED
  BY <1>1, <1>2, <1>3, <1>4, <1>5, <1>6
  DEF AiStep, AiPick, SkipLog, SendReply, RecordOutbound, LogOutbound, LogRun,
      AiFinish, LogError, Settles

\* A step of an AI worker strands no message that was safe.
LEMMA SafeRun ==
  ASSUME PipelineInv, NEW p \in Procs, AiStep(p), NEW id \in ExtIds,
         row[id].conv \in Convs, id \in Pending(row[id].conv), Safe(id),
         ~row'[id].processed, excused \subseteq excused'
  PROVE  Safe(id)'
<1> DEFINE c == row[id].conv
<1> USE DEF PipelineInv
<1>1. row'[id].conv = c /\ inw' = inw /\ \A q \in Procs \ {p} : aiw'[q] = aiw[q]
  BY AiEffects
<1>2. CASE id \in excused'
  BY <1>2 DEF Safe
<1>3. CASE \E q \in Procs \ {p} : HoldsAi(q, c) /\ Settles(q, id)
  BY <1>1, <1>3 DEF Safe, HoldsAi, Settles
<1>4. CASE HoldsAi(p, c)
  <2>1. /\ aiJob[c].state = "active" /\ ~AddCovers(c) /\ ~OrphanAi(c)
        /\ \A q \in Procs \ {p} : ~HoldsAi(q, c)
    BY <1>4 DEF AiHolds, HoldsAi, AddCovers, OrphanAi
  <2>2. CASE id \notin excused'
    <3>1. Settles(p, id)
      BY <2>1, <2>2 DEF Safe
    <3>2. Settles(p, id)'
      BY <1>4, <2>2, <3>1, SettlesOn DEF HoldsAi
    <3>3. aiw'[p].pc # "idle"
      BY <3>2, <2>2 DEF Settles, Reading, Unmarked
    <3>4. aiw'[p].conv = c
      BY <1>4, <3>3, RunShape DEF HoldsAi
    <3> QED
      BY <1>1, <3>2, <3>3, <3>4 DEF Safe, HoldsAi
  <2> QED
    BY <1>2, <2>2
<1>5. CASE /\ ~HoldsAi(p, c) /\ id \notin excused
           /\ ~\E q \in Procs \ {p} : HoldsAi(q, c) /\ Settles(q, id)
  <2>1. aiJob[c].state = "queued" \/ OrphanAi(c) \/ AddCovers(c)
    BY <1>5 DEF Safe
  <2>2. CASE aiw'[p].pc = "load" /\ aiw'[p].conv = c
    BY <1>1, <2>2 DEF Safe, HoldsAi, Settles, Reading
  <2>3. CASE aiJob'[c] = aiJob[c] /\ ~HoldsAi(p, c)'
    BY <1>1, <2>1, <2>3 DEF Safe, OrphanAi, AddCovers, HoldsAi
  <2>4. \/ aiw'[p].pc = "load" /\ aiw'[p].conv = c
        \/ aiJob'[c] = aiJob[c] /\ ~HoldsAi(p, c)'
    BY <1>1, <1>5, RunShape DEF HoldsAi
  <2> QED
    BY <2>2, <2>3, <2>4
<1>6. CASE id \in excused
  BY <1>2, <1>6
<1> QED
  BY <1>3, <1>4, <1>5, <1>6

(***************************************************************************)
(* The other steps, and the theorem.                                       *)
(***************************************************************************)
\* The stalled checker starts an orphaned run again or excuses what it left.
LEMMA SafeStalled ==
  ASSUME TypeOK, NEW d \in Convs, AiStalled(d), NEW id \in ExtIds,
         row[id].conv \in Convs, id \in Pending(row[id].conv), Safe(id)
  PROVE  Safe(id)'
<1> DEFINE c == row[id].conv
<1>1. row' = row /\ aiw' = aiw /\ inw' = inw /\ excused \subseteq excused'
  BY DEF AiStalled, AiFrame
<1>2. CASE d = c
  <2>1. CASE Stall(aiJob[d]).state = "queued"
    BY <1>1, <1>2, <2>1 DEF AiStalled, Safe, TypeOK
  <2>2. CASE Stall(aiJob[d]).state # "queued"
    BY <1>1, <1>2, <2>2 DEF AiStalled, Safe
  <2> QED
    BY <2>1, <2>2
<1>3. CASE d # c
  <2>1. aiJob'[c] = aiJob[c]
    BY <1>3 DEF AiStalled, TypeOK
  <2> QED
    BY <1>1, <2>1 DEF Safe, OrphanAi, AddCovers, HoldsAi, Settles
<1> QED
  BY <1>2, <1>3

\* A crash orphans the jobs of the dead process, and excuses what it had taken
\* the job away from.
LEMMA SafeCrash ==
  ASSUME PipelineInv, NEW p \in Procs, Crash(p), NEW id \in ExtIds,
         row[id].conv \in Convs, id \in Pending(row[id].conv), Safe(id)
  PROVE  Safe(id)'
<1> DEFINE c == row[id].conv
<1> USE DEF PipelineInv
<1>1. /\ row' = row /\ aiJob' = aiJob
      /\ excused' = excused \cup Unscheduled(p)
      /\ aiw'[p].pc = "idle"
      /\ \A q \in Procs \ {p} : aiw'[q] = aiw[q] /\ inw'[q] = inw[q]
  BY DEF Crash, EnvFrame, TypeOK, IdleAi
<1>2. CASE id \in excused \/ aiJob[c].state = "queued"
  BY <1>1, <1>2 DEF Safe
<1>3. CASE OrphanAi(c)
  BY <1>1, <1>3 DEF Safe, OrphanAi, HoldsAi
<1>4. CASE AddCovers(c)
  <2>1. CASE inw[p].pc = "add" /\ inw[p].conv = c
    BY <1>1, <2>1 DEF Unscheduled, Safe
  <2>2. CASE \E q \in Procs \ {p} : inw[q].pc = "add" /\ inw[q].conv = c
    BY <1>1, <1>4, <2>2 DEF AddCovers, Safe
  <2> QED
    BY <1>4, <2>1, <2>2 DEF AddCovers
<1>5. ASSUME NEW q \in Procs, HoldsAi(q, c), Settles(q, id) PROVE Safe(id)'
  <2>1. CASE q = p
    <3>1. aiJob[c].state = "active" /\ \A r \in Procs \ {p} : ~HoldsAi(r, c)
      BY <1>5, <2>1 DEF AiHolds, HoldsAi
    <3>2. OrphanAi(c)'
      BY <1>1, <3>1 DEF OrphanAi, HoldsAi
    <3> QED
      BY <1>1, <3>2 DEF Safe, OrphanAi, HoldsAi
  <2>2. CASE q # p
    BY <1>1, <1>5, <2>2 DEF Safe, HoldsAi, Settles
  <2> QED
    BY <2>1, <2>2
<1> QED
  BY <1>2, <1>3, <1>4, <1>5 DEF Safe

\* A message that was waiting safely is safe while it waits.
LEMMA SafeNext ==
  ASSUME PipelineInv, WindowInv, Next, NEW id \in ExtIds, Waiting(id), Waiting(id)'
  PROVE  Safe(id)'
<1> USE DEF EnvFrame
<1>1. /\ Exists(id) /\ row[id].conv \in Convs /\ id \in Pending(row[id].conv)
      /\ Safe(id) /\ ~row'[id].processed /\ excused \subseteq excused'
  BY WaitingPends, SafeMeans, MarksGrow DEF PipelineInv, WindowInv, Waiting
<1>2. ASSUME NEW p \in Procs, InboundStep(p) PROVE Safe(id)'
  BY <1>1, <1>2, SafeInbound
<1>3. ASSUME NEW p \in Procs, AiStep(p) PROVE Safe(id)'
  BY <1>1, <1>3, SafeRun
<1>4. ASSUME NEW d \in Convs, AiStalled(d) PROVE Safe(id)'
  BY <1>1, <1>4, SafeStalled DEF PipelineInv
<1>5. ASSUME NEW p \in Procs, Crash(p) PROVE Safe(id)'
  BY <1>1, <1>5, SafeCrash
<1>6. CASE UNCHANGED <<row, inw, aiw, aiJob, excused>>
  BY <1>1, <1>6 DEF Safe, OrphanAi, AddCovers, HoldsAi, Settles
<1> QED
  BY <1>2, <1>3, <1>4, <1>5, <1>6
  DEF Next, Environment, InboundQueue, Deliver, EvictInbound, InboundStalled,
      UpdateConversation, CloseConversation

\* WindowInv is kept by every step.
LEMMA WindowInvNext == PipelineInv /\ WindowInv /\ [Next]_vars => WindowInv'
<1> SUFFICES ASSUME PipelineInv, WindowInv, [Next]_vars PROVE WindowInv'
  OBVIOUS
<1>1. CASE UNCHANGED vars
  BY <1>1 DEF vars, chatVars, WindowInv, Waiting, WillRead, AddCovers, RunCovers,
     OrphanAi, HoldsAi, Exists
<1>2. CASE Next
  <2>1. \A id \in scheduled' : Exists(id)'
    BY <1>2, ScheduledNext
  <2>2. ASSUME NEW id \in ExtIds, Waiting(id)' PROVE Safe(id)'
    <3>1. CASE id \in scheduled
      <4>1. Exists(id)
        BY <3>1 DEF WindowInv
      <4>2. Waiting(id)
        BY <1>2, <2>2, <3>1, <4>1, RowsNext DEF Waiting, PipelineInv
      <4> QED
        BY <1>2, <2>2, <4>2, SafeNext
    <3>2. CASE id \notin scheduled
      <4>1. Exists(id)
        BY <1>2, <2>2, ScheduledNext DEF Waiting
      <4>2. PICK p \in Procs : AddAiJob(p)
        BY <1>2, <2>2, <3>2, MarksGrow DEF Waiting
      <4> QED
        BY <2>2, <3>2, <4>1, <4>2, SafeAdded
    <3> QED
      BY <3>1, <3>2
  <2>3. \A id : Safe(id)' => (\/ id \in excused
                             \/ WillRead(row[id].conv) \/ AddCovers(row[id].conv)
                             \/ RunCovers(id))'
    BY DEF Safe, WillRead, RunCovers, AddCovers, OrphanAi, HoldsAi, Settles,
       Reading, Unmarked
  <2> QED
    BY <2>1, <2>2, <2>3 DEF WindowInv
<1> QED
  BY <1>1, <1>2

\* A message whose response was scheduled stays unprocessed without a run to
\* come only when a known window excused it: an add that found the job past its
\* read, an error, a second stall, or a worker lost between remove and add
\* (MessageInboundProcessor.scheduleAiResponse).
THEOREM WindowsAreKnown == Spec => []OnlyKnownWindowsStrand
<1>1. Init => WindowInv
  BY DEF Init, WindowInv, Waiting
<1>2. WindowInv => OnlyKnownWindowsStrand
  BY DEF WindowInv, OnlyKnownWindowsStrand, Covered, AddCovers, RunCovers
<1> QED
  BY <1>1, <1>2, WindowInvNext, PipelineInvariant, PTL DEF Spec

(***************************************************************************)
(* Settled messages are logged.                                            *)
(***************************************************************************)
\* Spending makes a budget smaller.
LEMMA SpendLess ==
  ASSUME TypeOK, NEW k \in BudgetKinds, Spend(k)
  PROVE  /\ budget'[k] < budget[k]
         /\ \A j \in BudgetKinds : budget'[j] <= budget[j]
  BY DEF TypeOK, Spend

\* Budgets never grow; a crash and an error each spend one.
LEMMA BudgetNext ==
  ASSUME TypeOK, Next
  PROVE  /\ \A j \in BudgetKinds : budget'[j] <= budget[j]
         /\ \A p \in Procs : Crash(p) => budget'["crash"] < budget["crash"]
         /\ \A p \in Procs : AiCatch(p) \/ AiThrow(p) => budget'["fault"] < budget["fault"]
<1> USE DEF BudgetKinds, chatVars, replyVars, AiFrame, EnvFrame
<1>0. \A j \in BudgetKinds : budget[j] <= budget[j]
  BY DEF TypeOK
<1>1. ASSUME NEW p \in Procs, InboundStep(p)
      PROVE  \A j \in BudgetKinds : budget'[j] <= budget[j]
  <2>1. budget' = budget \/ Spend("fault")
    BY <1>1 DEF InboundStep, InboundPick, ResolveContact, FindConversation,
     CreateConversation, PersistMessage, TouchConversation, ProcessMedia,
     TranscribeMedia, RemoveAiJob, AddAiJob, FinishInbound, InboundThrow
  <2> QED
    BY <1>0, <2>1, SpendLess
<1>2. ASSUME NEW p \in Procs, AiStep(p)
      PROVE  \A j \in BudgetKinds : budget'[j] <= budget[j]
  <2>1. budget' = budget \/ Spend("fault")
    BY <1>2 DEF AiStep, AiPick, LoadConversation, SkipRead, SkipMark, SkipLog,
     ReadPending, ReadFallback, RunEngine, MarkBatch, SendReply, RecordOutbound,
     LogOutbound, LogRun, AiFinish, AiCatch, LogError, AiThrow
  <2> QED
    BY <1>0, <2>1, SpendLess
<1>3. ASSUME NEW p \in Procs, Crash(p)
      PROVE  /\ \A j \in BudgetKinds : budget'[j] <= budget[j]
             /\ budget'["crash"] < budget["crash"]
  BY <1>3, SpendLess DEF Crash
<1>4. ASSUME NEW p \in Procs, AiCatch(p) \/ AiThrow(p)
      PROVE  budget'["fault"] < budget["fault"]
  BY <1>4, SpendLess DEF AiCatch, AiThrow
<1>5. ASSUME \/ InboundQueue
             \/ \E c \in Convs : AiStalled(c) \/ UpdateConversation(c)
                                                \/ CloseConversation(c)
      PROVE  \A j \in BudgetKinds : budget'[j] <= budget[j]
  <2>1. budget' = budget \/ \E k \in BudgetKinds : Spend(k)
    BY <1>5 DEF InboundQueue, Deliver, EvictInbound, InboundStalled, AiStalled,
       UpdateConversation, CloseConversation
  <2> QED
    BY <1>0, <2>1, SpendLess
<1> QED
  BY <1>1, <1>2, <1>3, <1>4, <1>5 DEF Next, Environment

\* Until the first crash or error no run is broken off.
LEMMA UndisturbedNext ==
  ASSUME TypeOK, TypeOK', TraceInv, Next
  PROVE  /\ \A kind \in {"crash", "fault"} : budget'[kind] <= Budget[kind]
         /\ Undisturbed' =>
              /\ Undisturbed
              /\ \A p \in Procs : ~Crash(p) /\ ~AiCatch(p) /\ ~AiThrow(p)
<1>1. \A kind \in {"crash", "fault"} :
        /\ budget[kind] \in Nat /\ budget'[kind] \in Nat /\ Budget[kind] \in Nat
        /\ budget'[kind] <= budget[kind] /\ budget[kind] <= Budget[kind]
  BY BudgetNext, StoreAssumption DEF StoreAssumption, TypeOK, TraceInv, BudgetKinds
<1> QED
  BY <1>1, BudgetNext DEF Undisturbed

\* An inbound worker marks no message, neither a stored nor a new one.
LEMMA InboundMarksNone ==
  ASSUME PipelineInv, NEW p \in Procs, InboundStep(p), NEW id \in ExtIds,
         row'[id].processed
  PROVE  row[id].processed /\ row'[id].conv = row[id].conv
<1> USE DEF PipelineInv
<1>1. CASE Exists(id)
  BY <1>1, InboundEffects
<1>2. CASE ~Exists(id)
  <2>1. CASE UNCHANGED row
    BY <2>1
  <2>2. CASE PersistMessage(p)
    BY <1>2, <2>2 DEF PersistMessage, TypeOK, NoMessage
  <2>3. CASE ProcessMedia(p) \/ TranscribeMedia(p)
    <3>1. Exists(inw[p].id)
      BY <2>3 DEF ProcessMedia, TranscribeMedia, JobProgress, InboundPc
    <3>2. row'[id] = row[id]
      BY <1>2, <2>3, <3>1 DEF ProcessMedia, TranscribeMedia, TypeOK
    <3> QED
      BY <3>2
  <2> QED
    BY <2>1, <2>2, <2>3
    DEF InboundStep, InboundPick, ResolveContact, FindConversation,
        CreateConversation, TouchConversation, RemoveAiJob, AddAiJob,
        FinishInbound, InboundThrow, chatVars
<1> QED
  BY <1>1, <1>2

\* Run p will write the log that names message id.
Logs(p, id) ==
  \/ aiw[p].pc = "skipLog"
  \/ aiw[p].pc \in {"send", "record", "logSend", "logRun"} /\ id \in aiw[p].batch

\* A run that owes a message its log writes it, unless an error breaks it off.
LEMMA LogsOn ==
  ASSUME TypeOK, NEW p \in Procs, AiStep(p), ~AiCatch(p), ~AiThrow(p),
         NEW id \in ExtIds, row'[id].conv = row[id].conv, HoldsAi(p, row[id].conv),
         Logs(p, id)
  PROVE  Logged(id)' \/ Logs(p, id)'
<1>1. CASE SkipLog(p)
  <2>1. [type |-> "AI_SKIPPED_INACTIVE_CONVERSATION", conv |-> aiw[p].conv,
         batch |-> aiw[p].batch, status |-> "SUCCESS"] \in log'
    BY <1>1 DEF SkipLog, AddLog
  <2> QED
    BY <2>1 DEF Logged, HoldsAi
<1>2. CASE SendReply(p)
  BY <1>2, RunReads DEF SendReply, Logs
<1>3. CASE RecordOutbound(p) \/ LogOutbound(p)
  BY <1>3, RunGoes DEF RecordOutbound, LogOutbound, Logs
<1>4. CASE LogRun(p)
  <2> PICK status \in {"SUCCESS", "FAILED"} : AddLog(p, RunAction(aiw[p]), status)
    BY <1>4 DEF LogRun
  <2> DEFINE l == [type |-> RunAction(aiw[p]), conv |-> aiw[p].conv,
                   batch |-> aiw[p].batch, status |-> status]
  <2>1. l \in log' /\ l.batch = aiw[p].batch
    BY DEF AddLog
  <2> QED
    BY <1>4, <2>1 DEF LogRun, Logs, Logged
<1> QED
  BY <1>1, <1>2, <1>3, <1>4
  DEF AiStep, AiPick, LoadConversation, SkipRead, SkipMark, ReadPending, ReadFallback,
      RunEngine, MarkBatch, AiFinish, LogError, Logs

\* A run that marks a message owes it a log.
LEMMA MarksOwe ==
  ASSUME TypeOK, BatchState, NEW p \in Procs, AiStep(p), NEW id \in ExtIds,
         row'[id].processed, ~row[id].processed
  PROVE  Logs(p, id)' /\ HoldsAi(p, row[id].conv)'
<1>1. id \in aiw[p].batch
  BY AiEffects
<1>2. SkipMark(p) \/ MarkBatch(p)
  BY DEF AiStep, AiPick, LoadConversation, SkipRead, SkipLog, ReadPending,
     ReadFallback, RunEngine, SendReply, RecordOutbound, LogOutbound, LogRun,
     AiFinish, AiCatch, LogError, AiThrow
<1>3. /\ aiw'[p].pc \in {"skipLog", "send", "logRun"}
      /\ aiw'[p].batch = aiw[p].batch /\ aiw'[p].conv = aiw[p].conv
  BY <1>2, RunGoes DEF SkipMark, MarkBatch
<1>4. aiw[p].conv = row[id].conv
  BY <1>1, <1>2 DEF BatchState, BatchOf, SkipMark, MarkBatch
<1>5. row'[id].conv = row[id].conv
  BY AiEffects
<1> QED
  BY <1>1, <1>3, <1>4, <1>5 DEF Logs, HoldsAi

\* Logs are never deleted.
LEMMA LogGrows ==
  ASSUME TypeOK, Next
  PROVE  log \subseteq log'
  BY ReplyVarsNext DEF SkipLog, SendReply, RecordOutbound, LogOutbound, LogRun,
     LogError, AddLog

\* TraceInv is kept by every step.
LEMMA TraceInvNext == PipelineInv /\ TypeOK' /\ TraceInv /\ [Next]_vars => TraceInv'
<1> SUFFICES ASSUME PipelineInv, TypeOK', TraceInv, [Next]_vars PROVE TraceInv'
  OBVIOUS
<1> USE DEF PipelineInv
<1>1. CASE UNCHANGED vars
  BY <1>1 DEF vars, replyVars, TraceInv, Undisturbed, Logged, WillLog, HoldsAi
<1>2. CASE Next
  <2>1. \A kind \in {"crash", "fault"} : budget'[kind] <= Budget[kind]
    BY <1>2, UndisturbedNext
  <2>2. ASSUME Undisturbed', NEW id \in ExtIds, row'[id].processed
        PROVE  (Logged(id) \/ WillLog(id))'
    <3>1. /\ Undisturbed /\ log \subseteq log'
          /\ \A p \in Procs : ~Crash(p) /\ ~AiCatch(p) /\ ~AiThrow(p)
      BY <1>2, <2>2, UndisturbedNext, LogGrows
    <3>2. ASSUME row[id].processed, row'[id].conv = row[id].conv, aiw' = aiw
          PROVE  (Logged(id) \/ WillLog(id))'
      BY <3>1, <3>2 DEF TraceInv, Logged, WillLog, HoldsAi
    <3>3. ASSUME NEW p \in Procs, InboundStep(p) PROVE (Logged(id) \/ WillLog(id))'
      <4>1. aiw' = aiw
        BY <3>3, InboundEffects
      <4> QED
        BY <2>2, <3>2, <3>3, <4>1, InboundMarksNone
    <3>4. ASSUME NEW p \in Procs, AiStep(p) PROVE (Logged(id) \/ WillLog(id))'
      <4>1. row'[id].conv = row[id].conv /\ \A q \in Procs \ {p} : aiw'[q] = aiw[q]
        BY <3>4, AiEffects
      <4>2. CASE ~row[id].processed
        BY <2>2, <3>4, <4>1, <4>2, MarksOwe DEF WillLog, Logs, HoldsAi
      <4>3. CASE row[id].processed /\ Logged(id)
        BY <3>1, <4>1, <4>3 DEF Logged
      <4>4. ASSUME row[id].processed, NEW q \in Procs, HoldsAi(q, row[id].conv),
                   Logs(q, id)
            PROVE  (Logged(id) \/ WillLog(id))'
        <5>1. CASE q # p
          BY <4>1, <4>4, <5>1 DEF WillLog, HoldsAi, Logs
        <5>2. CASE q = p /\ Logged(id)'
          BY <5>2
        <5>3. CASE q = p /\ Logs(p, id)'
          <6>1. aiw'[p].pc # "idle"
            BY <5>3 DEF Logs
          <6>2. HoldsAi(p, row[id].conv)'
            BY <3>4, <4>1, <4>4, <5>3, <6>1, RunShape DEF HoldsAi
          <6> QED
            BY <4>1, <5>3, <6>1, <6>2 DEF WillLog, HoldsAi, Logs
        <5> QED
          BY <3>1, <3>4, <4>1, <4>4, <5>1, <5>2, <5>3, LogsOn
      <4> QED
        BY <3>1, <4>2, <4>3, <4>4 DEF TraceInv, WillLog, Logs
    <3>5. CASE UNCHANGED <<row, aiw>>
      BY <2>2, <3>2, <3>5
    <3> QED
      BY <1>2, <3>1, <3>3, <3>4, <3>5
      DEF Next, Environment, InboundQueue, Deliver, EvictInbound, InboundStalled,
          AiStalled, AiFrame, UpdateConversation, CloseConversation, EnvFrame
  <2> QED
    BY <2>1, <2>2 DEF TraceInv
<1> QED
  BY <1>1, <1>2

\* Until the first crash or error, a message that a finished run marked
\* aiProcessed is named by an action log of that run, or its conversation has
\* the log of a skipped run (AiResponseProcessor.process).
THEOREM SettledMessagesAreLogged == Spec => []SettledIsLogged
<1>1. Init => TraceInv
  BY StoreAssumption DEF StoreAssumption, Init, TraceInv, NoMessage, BudgetKinds
<1>2. PipelineInv /\ TraceInv => SettledIsLogged
  BY DEF TraceInv, SettledIsLogged, Undisturbed, Logged, WillLog
<1>3. PipelineInv => TypeOK
  BY DEF PipelineInv
<1> QED
  BY <1>1, <1>2, <1>3, TraceInvNext, PipelineInvariant, PTL DEF Spec
=============================================================================
