--------------------------- MODULE MessagePipeline ---------------------------
(***************************************************************************)
(* The two queue processors running together, in one or several backend    *)
(* processes that may crash, while agents edit conversations through the   *)
(* REST API and the provider repeats webhook calls.                        *)
(***************************************************************************)
EXTENDS InboundPipeline, AiResponder

EnvFrame == UNCHANGED <<contacts, newer, row, inJob, aiJob, replyVars, accepted,
                        scheduled, exhausted>>

-----------------------------------------------------------------------------
(* ConversationsService: an agent may set any status and aiEnabled at any   *)
(* time.                                                                    *)
HowEdited(c, status) ==
  IF status = "ACTIVE" /\ conv[c].status # "ACTIVE" THEN "AGENT" ELSE conv[c].opened

UpdateConversation(c) ==
  /\ conv[c].status # "NONE"
  /\ Spend("edit")
  /\ \E status \in ConversationStatus, ai \in BOOLEAN :
       conv' = [conv EXCEPT ![c] = [@ EXCEPT
                  !.status = status, !.ai = ai,
                  !.opened = HowEdited(c, status)]]
  /\ UNCHANGED <<inw, aiw, excused>> /\ EnvFrame

CloseConversation(c) ==
  /\ conv[c].status # "NONE"
  /\ Spend("edit")
  /\ conv' = [conv EXCEPT ![c].status = "CLOSED"]
  /\ UNCHANGED <<inw, aiw, excused>> /\ EnvFrame

\* The process dies: both of its workers lose their locals, their jobs stay
\* active until the stalled checker finds them.
Crash(p) ==
  /\ inw[p].pc # "idle" \/ aiw[p].pc # "idle"
  /\ Spend("crash")
  /\ inw' = [inw EXCEPT ![p] = IdleInbound]
  /\ aiw' = [aiw EXCEPT ![p] = IdleAi]
  /\ excused' = excused \cup Unscheduled(p)
  /\ UNCHANGED conv /\ EnvFrame

-----------------------------------------------------------------------------
Environment ==
  \/ \E c \in Convs : UpdateConversation(c) \/ CloseConversation(c)
  \/ \E p \in Procs : Crash(p)

Next ==
  \/ InboundQueue
  \/ \E p \in Procs : InboundStep(p) \/ AiStep(p)
  \/ \E c \in Convs : AiStalled(c)
  \/ Environment

Spec == Init /\ [][Next]_vars

\* Workers of a running process keep going, and the stalled checker runs in
\* every process; nothing is assumed of providers, agents or failures.
Fairness ==
  /\ \A p \in Procs : WF_vars(InboundStep(p)) /\ WF_vars(AiStep(p))
  /\ \A id \in ExtIds : WF_vars(InboundStalled(id))
  /\ \A c \in Convs : WF_vars(AiStalled(c))

FairSpec == Spec /\ Fairness

-----------------------------------------------------------------------------
(* Safety. *)

\* No contact receives two replies to one message, whatever crashes, stalls,
\* retries and redeliveries happen (AiResponseProcessor marks the batch before
\* it dispatches, and a conversation has one job).
AnsweredAtMostOnce == \A id \in ExtIds : answered[id] <= 1

\* The next or the present run for the message's conversation includes it.
Covered(id) ==
  LET c == row[id].conv
  IN \/ WillRead(c)
     \/ \E p \in Procs : inw[p].pc = "add" /\ inw[p].conv = c
     \/ \E p \in Procs : /\ HoldsAi(p, c) /\ id \in aiw[p].batch
                         /\ aiw[p].pc \in {"skipMark", "context", "engine", "mark"}

Waiting(id) == id \in scheduled /\ ~row[id].processed

\* A message for which a response was scheduled loses its run only through a
\* known window: an add while the run had already read its batch, an error, a
\* second stall, or a crash between remove and add.
OnlyKnownWindowsStrand ==
  \A id \in ExtIds : Waiting(id) => Covered(id) \/ id \in excused

\* docs/project-documentation.md:25 "Cada mensaje entrante es procesado
\* automaticamente por un asistente de IA": no scheduled message is left behind.
NothingStranded == \A id \in ExtIds : Waiting(id) => Covered(id)

\* An event acknowledged with 200 is stored, or its job will still run, or its
\* three attempts failed.
AcceptedNotLost ==
  \A e \in accepted :
    LET id == ExtIdOf[e]
    IN \/ row[id].event = e
       \/ inJob[id].state \in {"queued", "active"} /\ inJob[id].event = e
       \/ id \in exhausted

\* A SUCCESS log of a run names a reply that was delivered and stored as SENT.
SuccessMeansDelivered ==
  \A l \in log :
    l.type \in {"AI_RESPONSE", "AI_UNSUPPORTED_MEDIA_FALLBACK"} /\ l.status = "SUCCESS"
      => /\ [conv |-> l.conv, batch |-> l.batch, status |-> "SENT"] \in outbox
         /\ \A id \in l.batch : answered[id] = 1

\* Without a crash or an error, every message that a finished run settled is
\* named by an action log, or its conversation has a skip log.
SettledIsLogged ==
  budget.crash = Budget.crash /\ budget.fault = Budget.fault =>
    \A id \in ExtIds :
      row[id].processed /\ (\A p \in Procs : ~HoldsAi(p, row[id].conv)) =>
        \E l \in log :
          \/ id \in l.batch
          \/ l.conv = row[id].conv /\ l.type = "AI_SKIPPED_INACTIVE_CONVERSATION"

\* A contact's second ACTIVE conversation takes a race or an agent: of any two, one
\* became ACTIVE while another worker had already found that there was none, or by
\* an edit; no order of messages, retries and repeated calls opens one beside a
\* conversation that a worker could have found (ConversationResolver).
OnlyRacesSplit ==
  \A k \in Contacts : \A c, d \in ActiveOf(k) :
    c # d => conv[c].opened # "ALONE" \/ conv[d].opened # "ALONE"

\* The check-then-act of ConversationResolver gives a contact no more ACTIVE
\* conversations than processes that can race in it, and one more for each edit
\* of an agent, through any retries and restarts: one process opens only one.
ActiveChatsBounded ==
  \A k \in Contacts :
    Cardinality(ActiveOf(k)) + Cardinality(Creators(k))
      <= Cardinality(Procs) + (Budget["edit"] - budget["edit"])

\* Whichever of a contact's conversations a message ends up in, through races,
\* edits and repeated calls, it is the sender's own; so the reply, which goes to
\* the conversation's contact, goes to whoever wrote what it answers.
RepliesReachSender ==
  /\ \A id \in ExtIds :
       Exists(id) => conv[row[id].conv].contact = SenderOf[row[id].event]
  /\ \A p \in Procs : aiw[p].pc = "send" =>
       \A id \in aiw[p].batch :
         conv[aiw[p].conv].contact = SenderOf[row[id].event]

-----------------------------------------------------------------------------
(* Action properties. *)

\* A stored message keeps its event and its conversation for ever, and once
\* aiProcessed it stays so: a duplicate never moves or revives it.
StoredOnce ==
  [][\A id \in ExtIds : Exists(id) =>
       /\ row'[id].event = row[id].event /\ row'[id].conv = row[id].conv
       /\ row[id].processed => row'[id].processed]_vars

\* A run that has found its conversation live, and will reply; and its reply.
Committed(p)  == aiw[p].pc \in {"read", "context", "engine", "mark", "send"}
Dispatched(c) ==
  \E p \in Procs : aiw[p].pc = "send" /\ aiw[p].conv = c /\ aiw'[p].pc = "record"

\* While a conversation is out of the AI's hands (closed, taken over, AI switched
\* off) only the run that had looked at it before may still reply, and no other
\* after it: not the run that a late message, a retry, a restart or a repeated
\* webhook call schedules (AiResponseProcessor looks at 73-106, dispatches at
\* 156-213).
TakeoverEndsReplies ==
  [][\A c \in Convs : ~IsLive(c) /\ ~IsLive(c)' =>
       \A p \in Procs : Committed(p)' /\ aiw'[p].conv = c =>
         Committed(p) /\ aiw[p].conv = c /\ ~Dispatched(c)]_vars

-----------------------------------------------------------------------------
(* Liveness. *)

\* Every acknowledged event gets its response scheduled, or its job fails for
\* good.
AcceptedIsScheduled ==
  \A e \in Events : e \in accepted ~> \/ ExtIdOf[e] \in scheduled
                                      \/ ExtIdOf[e] \in exhausted

\* Every scheduled message is settled, unless it fell into a known window.
ScheduledIsSettled ==
  \A id \in ExtIds : id \in scheduled ~> row[id].processed \/ id \in excused

\* From end to end: every acknowledged event is settled, by its own run or another,
\* unless its job failed for good or it fell into a known window.
AcceptedIsSettled ==
  \A e \in Events :
    e \in accepted ~> \/ row[ExtIdOf[e]].processed
                     \/ ExtIdOf[e] \in excused \cup exhausted

-----------------------------------------------------------------------------
(* The inductive invariant behind AnsweredAtMostOnce, AcceptedNotLost,      *)
(* SuccessMeansDelivered and the refinement.                                *)

\* A running inbound worker holds an active job of its own, and knows the
\* conversation once it has resolved it.
InboundHolds ==
  \A p \in Procs : inw[p].pc # "idle" =>
    /\ inw[p].id \in ExtIds
    /\ inJob[inw[p].id].state = "active"
    /\ inw[p].pc \notin {"contact", "find", "create"} => inw[p].conv \in Convs
    /\ \A q \in Procs \ {p} : ~HoldsInbound(q, inw[p].id)

\* A job carries an event with its own jobId; so does a stored message.
KeysMatch ==
  \A id \in ExtIds :
    /\ inJob[id].state # "absent" => /\ inJob[id].event \in Events
                                    /\ ExtIdOf[inJob[id].event] = id
    /\ Exists(id) => /\ row[id].event \in Events
                     /\ row[id].conv \in Convs
                     /\ ExtIdOf[row[id].event] = id

\* Whatever the state of a job that is known, its message is stored, or it
\* will still run, or it is exhausted.
JobProgress ==
  /\ \A p \in Procs :
       inw[p].pc \in InboundPc \ {"idle", "contact", "find", "create", "persist"}
         => Exists(inw[p].id)
  /\ \A id \in ExtIds : inJob[id].state = "completed" => Exists(id)
  /\ \A id \in ExtIds : inJob[id].state = "failed" => id \in exhausted
  /\ \A e \in accepted : \/ Exists(ExtIdOf[e])
                          \/ inJob[ExtIdOf[e]].state \in {"queued", "active"}
                          \/ ExtIdOf[e] \in exhausted

\* A running AI worker holds its conversation's job alone.
AiHolds ==
  \A p \in Procs : aiw[p].pc # "idle" =>
    /\ aiw[p].conv \in Convs
    /\ aiJob[aiw[p].conv].state = "active"
    /\ \A q \in Procs \ {p} : ~HoldsAi(q, aiw[p].conv)

\* What a run knows of its batch, by how far it has come.
BatchOf(p) ==
  aiw[p].pc # "idle" =>
    \A id \in aiw[p].batch :
      /\ Exists(id) /\ row[id].conv = aiw[p].conv
      /\ aiw[p].pc \in {"skipMark", "context", "engine", "mark"} => ~row[id].processed
      /\ aiw[p].pc = "send" => row[id].processed /\ answered[id] = 0

BatchState == \A p \in Procs : BatchOf(p)

\* What a run whose reply was acknowledged has already written.
DeliveryOf(p) ==
  aiw[p].pc # "idle" /\ aiw[p].ack = "SENT" =>
    /\ aiw[p].pc \in {"record", "logSend", "logRun", "logError", "finish"}
    /\ aiw[p].pc \in {"record", "logSend", "logRun"} =>
         \A id \in aiw[p].batch : answered[id] = 1
    /\ aiw[p].pc \in {"logSend", "logRun"} =>
         [conv |-> aiw[p].conv, batch |-> aiw[p].batch, status |-> "SENT"] \in outbox

DeliveryState == \A p \in Procs : DeliveryOf(p)

\* Only settled messages are answered.
AnsweredIsSettled ==
  \A id \in ExtIds : answered[id] > 0 => Exists(id) /\ row[id].processed

PipelineInv ==
  /\ TypeOK /\ InboundHolds /\ KeysMatch /\ JobProgress
  /\ AiHolds /\ BatchState /\ AnsweredIsSettled /\ AnsweredAtMostOnce
  /\ DeliveryState /\ SuccessMeansDelivered

\* Behind OnlyKnownWindowsStrand: a waiting message of an idle conversation, one
\* without a job, is between the remove and the add of scheduleAiResponse; the
\* add then finds no job.
RunCovers(id) ==
  \E p \in Procs : /\ HoldsAi(p, row[id].conv) /\ id \in aiw[p].batch
                   /\ aiw[p].pc \in {"skipMark", "context", "engine", "mark"}

AddCovers(c) == /\ aiJob[c].state = "absent"
                /\ \E p \in Procs : inw[p].pc = "add" /\ inw[p].conv = c

WindowInv ==
  /\ \A id \in scheduled : Exists(id)
  /\ \A id \in ExtIds : Waiting(id) =>
       \/ id \in excused
       \/ WillRead(row[id].conv) \/ AddCovers(row[id].conv) \/ RunCovers(id)

\* Behind SettledIsLogged: until the first crash or error, a run that has marked
\* a message and not logged it yet is still under way.
WillLog(id) ==
  \E p \in Procs :
    /\ HoldsAi(p, row[id].conv)
    /\ \/ aiw[p].pc = "skipLog"
       \/ aiw[p].pc \in {"send", "record", "logSend", "logRun"} /\ id \in aiw[p].batch

Logged(id) ==
  \E l \in log : \/ id \in l.batch
               \/ /\ l.conv = row[id].conv
                  /\ l.type = "AI_SKIPPED_INACTIVE_CONVERSATION"

Undisturbed == budget.crash = Budget.crash /\ budget.fault = Budget.fault

TraceInv ==
  /\ \A kind \in {"crash", "fault"} : budget[kind] <= Budget[kind]
  /\ Undisturbed =>
       \A id \in ExtIds : row[id].processed => Logged(id) \/ WillLog(id)

\* Behind OnlyRacesSplit: whoever found no conversation has contested those since.
CreatorsContest ==
  \A k \in Contacts : Creators(k) # {} => \A c \in ActiveOf(k) : conv[c].opened # "ALONE"

\* Behind ActiveChatsBounded and RepliesReachSender: a conversation never changes
\* hands, and a worker that has resolved one holds one of its sender.
Resolved(p) == inw[p].pc \notin {"idle", "contact", "find", "create"}
Belongs(c, k) == conv[c].status # "NONE" /\ conv[c].contact = k

ChatsCounted ==
  /\ budget["edit"] <= Budget["edit"]
  /\ \A k \in Contacts : IsFiniteSet(ActiveOf(k))
  /\ ActiveChatsBounded

ChatsOwned ==
  /\ \A id \in ExtIds : Exists(id) => Belongs(row[id].conv, SenderOf[row[id].event])
  /\ \A p \in Procs : Resolved(p) => Belongs(inw[p].conv, Sender(p))

-----------------------------------------------------------------------------
(* The pipeline implements ReplyContract. *)

StageOf(id) == IF ~Exists(id) THEN "absent"
               ELSE IF ~row[id].processed THEN "pending"
               ELSE IF answered[id] = 0 THEN "settled" ELSE "answered"

Contract == INSTANCE ReplyContract
              WITH Ids <- ExtIds, stage <- [id \in ExtIds |-> StageOf(id)],
                   replies <- answered

ContractHolds == Contract!ContractSpec

-----------------------------------------------------------------------------
(* The pipeline, whose media processing is two steps, implements MediaContract *)
(* as MediaWork does with all of its steps.  What could decide a medium twice  *)
(* here is a job that runs again.                                              *)

\* No crash, no error and no evicted job so far.
Unspent == Undisturbed /\ budget.evict = Budget.evict

Medium == INSTANCE MediaContract
            WITH Ids <- ExtIds, status <- [id \in ExtIds |-> row[id].media],
                 trouble <- IF Unspent THEN {} ELSE ExtIds

\* Until the first crash, error or evicted job, no retry, race or repeated webhook
\* call decides a medium twice; after it COMPLETED still follows PROCESSING.
MediumDecidedOnce == Medium!ContractSpec

\* Behind MediumDecidedOnce: a medium that a job may still come to was not touched,
\* and as long as nothing is spent every active job has its worker.
BeforeMedia == {"contact", "find", "create", "persist", "touch", "media"}

Untouched(id) ==
  \/ inJob[id].state \in {"absent", "queued"}
  \/ \E p \in Procs : inw[p].pc \in BeforeMedia /\ inw[p].id = id

MediaRowsInv ==
  /\ \A kind \in BudgetKinds : budget[kind] <= Budget[kind]
  /\ \A id \in ExtIds : ~Exists(id) => row[id].media = "PENDING"
  /\ \A p \in Procs : inw[p].pc = "transcribe" => row[inw[p].id].media = "PROCESSING"
  /\ Unspent => \A id \in ExtIds :
                  /\ ~OrphanInbound(id)
                  /\ Untouched(id) => row[id].media = "PENDING"
=============================================================================
