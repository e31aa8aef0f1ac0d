---------------------------- MODULE PipelineStore ----------------------------
(***************************************************************************)
(* The data that the webhook controller, the two BullMQ processors and the *)
(* agents' REST API share: the PostgreSQL rows they read and write, the    *)
(* jobs of the queues message-inbound and ai-response in Redis, and the    *)
(* local variables of every worker that survive an await.  One channel of  *)
(* one tenant is modelled; channels share no row and no job.               *)
(***************************************************************************)
EXTENDS Naturals, FiniteSets

CONSTANTS
  Events,       \* messages that contacts write, as the provider reports them
  Contacts,     \* senders
  ExtIds,       \* values of NormalizedMessage.externalId
  Convs,        \* conversation ids the database can hand out
  Procs,        \* backend processes; each hosts one worker per queue
  SenderOf,     \* the contact that wrote an event
  ExtIdOf,      \* the externalId its adapter extracts
  MediaEvents,  \* the events whose contentType is not TEXT
  Budget,       \* how often each environment step may happen (see BudgetKinds)
  None

BudgetKinds == {"deliver", "crash", "fault", "edit", "evict"}

ASSUME StoreAssumption ==
  /\ SenderOf \in [Events -> Contacts]
  /\ ExtIdOf \in [Events -> ExtIds]
  /\ MediaEvents \subseteq Events
  /\ Budget \in [BudgetKinds -> Nat]
  /\ None \notin Events \cup Convs \cup ExtIds \cup Contacts

VARIABLES
  contacts,   \* contacts that have a row
  conv,       \* conversation rows
  newer,      \* <<c, d>>: c's lastMessageAt is later than d's
  row,        \* inbound messages, by the unique key (channelId, externalId)
  inJob,      \* message-inbound jobs, by jobId = channelId_externalId
  aiJob,      \* ai-response jobs, by jobId = conversationId
  inw,        \* per process, the locals of MessageInboundProcessor.process
  aiw,        \* per process, the locals of AiResponseProcessor.process
  outbox,     \* OUTBOUND message rows
  log,        \* action_logs rows
  answered,   \* history: replies a provider accepted that cover a message
  accepted,   \* history: events whose webhook call returned 200
  scheduled,  \* history: messages scheduleAiResponse ran for, in their conversation
  excused,    \* history: messages a late add, an error or a stall left behind
  exhausted,  \* history: inbound jobs that ended in the failed set
  budget      \* what is left of Budget

chatVars  == <<contacts, conv, newer>>
replyVars == <<outbox, log, answered>>
vars == <<contacts, conv, newer, row, inJob, aiJob, inw, aiw, outbox, log,
          answered, accepted, scheduled, excused, exhausted, budget>>

-----------------------------------------------------------------------------
(* prisma/schema.prisma: the rows and their enums. *)

ConversationStatus == {"ACTIVE", "WAITING_HUMAN", "CLOSED", "ARCHIVED"}
MediaStatus == {"PENDING", "PROCESSING", "COMPLETED", "SKIPPED", "FAILED"}

\* status "NONE" is a conversation id that has not been handed out yet.
Conversation == [status : ConversationStatus \cup {"NONE"},
                 ai     : BOOLEAN,
                 contact: Contacts \cup {None},
                 opened : {"ALONE", "RACE", "AGENT"}]  \* history: how it became ACTIVE
NoConversation == [status |-> "NONE", ai |-> FALSE, contact |-> None,
                   opened |-> "ALONE"]

Message == [event    : Events \cup {None},
            conv     : Convs \cup {None},
            processed: BOOLEAN,
            media    : MediaStatus]
NoMessage == [event |-> None, conv |-> None, processed |-> FALSE,
              media |-> "PENDING"]

IsLive(c)  == conv[c].status = "ACTIVE" /\ conv[c].ai
Exists(id) == row[id].event # None
IsMedia(id) == row[id].event \in MediaEvents

\* message.findMany({conversationId, INBOUND, aiProcessed: false})
Pending(c) == {id \in ExtIds : Exists(id) /\ row[id].conv = c /\ ~row[id].processed}

\* conversation.findFirst({contactId, ACTIVE}, orderBy lastMessageAt desc)
ActiveOf(k) == {c \in Convs : conv[c].status = "ACTIVE" /\ conv[c].contact = k}
Latest(S)   == {c \in S : \A d \in S : <<d, c>> \notin newer}

\* lastMessageAt := now()
Touched(c) == {p \in newer : p[2] # c} \cup ({c} \X (Convs \ {c}))

-----------------------------------------------------------------------------
(* BullMQ: a job is absent, queued (waiting, or delayed until its debounce  *)
(* or its retry backoff is over), active, or in the completed/failed set.   *)

JobState == {"absent", "queued", "active", "completed", "failed"}

InboundJob == [state: JobState, event: Events \cup {None}, attempts: Nat,
               stalls: Nat]
NoInboundJob == [state |-> "absent", event |-> None, attempts |-> 0, stalls |-> 0]

AiJob   == [state: JobState, stalls: Nat]
NoAiJob == [state |-> "absent", stalls |-> 0]

MaxStalls == 1       \* BullMQ's default maxStalledCount

\* The stalled checker on an orphaned job: one more start, then the failed set.
Stall(job) ==
  [job EXCEPT !.state = IF job.stalls < MaxStalls THEN "queued" ELSE "failed",
              !.stalls = job.stalls + 1]

-----------------------------------------------------------------------------
(* The locals of the two processors, and where each one is suspended. *)

InboundPc == {"idle", "contact", "find", "create", "persist", "touch", "media",
              "transcribe", "remove", "add", "finish"}
InboundWorker == [pc: InboundPc, id: ExtIds \cup {None},
                  conv: Convs \cup {None}, ai: BOOLEAN]
IdleInbound == [pc |-> "idle", id |-> None, conv |-> None, ai |-> FALSE]

AiPc == {"idle", "load", "skipRead", "skipMark", "skipLog", "read", "context",
         "engine", "mark", "send", "record", "logSend", "logRun", "logError",
         "finish"}
AiWorker == [pc: AiPc, conv: Convs \cup {None}, batch: SUBSET ExtIds,
             kind: {"ai", "media"}, text: BOOLEAN,
             ack: {"none", "SENT", "FAILED", "UNSENDABLE"}]
IdleAi == [pc |-> "idle", conv |-> None, batch |-> {}, kind |-> "ai",
           text |-> FALSE, ack |-> "none"]

OutboundRow == [conv: Convs, batch: SUBSET ExtIds, status: {"SENT", "FAILED"}]

ActionType == {"OUTBOUND_MESSAGE", "AI_RESPONSE", "AI_NO_RESPONSE",
               "AI_PROCESSING_ERROR", "AI_SKIPPED_INACTIVE_CONVERSATION",
               "AI_UNSUPPORTED_MEDIA_FALLBACK", "AI_UNSUPPORTED_MEDIA_SILENT"}
ActionLog == [type: ActionType, conv: Convs, batch: SUBSET ExtIds,
              status: {"SUCCESS", "FAILED"}]

\* A job is orphaned when the process that ran it is gone.
HoldsInbound(p, id) == inw[p].pc # "idle" /\ inw[p].id = id
HoldsAi(p, c)       == aiw[p].pc # "idle" /\ aiw[p].conv = c
OrphanInbound(id) == inJob[id].state = "active" /\ ~\E p \in Procs : HoldsInbound(p, id)
OrphanAi(c)       == aiJob[c].state = "active" /\ ~\E p \in Procs : HoldsAi(p, c)

Spend(kind) == /\ budget[kind] > 0
               /\ budget' = [budget EXCEPT ![kind] = @ - 1]

-----------------------------------------------------------------------------
(* Every variable stays in the domain its table, queue or local has. *)
TypeOK ==
  /\ contacts \subseteq Contacts
  /\ conv \in [Convs -> Conversation]
  /\ newer \subseteq Convs \X Convs
  /\ row \in [ExtIds -> Message]
  /\ inJob \in [ExtIds -> InboundJob]
  /\ aiJob \in [Convs -> AiJob]
  /\ inw \in [Procs -> InboundWorker]
  /\ aiw \in [Procs -> AiWorker]
  /\ outbox \subseteq OutboundRow
  /\ log \subseteq ActionLog
  /\ answered \in [ExtIds -> Nat]
  /\ accepted \subseteq Events
  /\ scheduled \subseteq ExtIds
  /\ excused \subseteq ExtIds
  /\ exhausted \subseteq ExtIds
  /\ budget \in [BudgetKinds -> Nat]

Init ==
  /\ contacts = {}
  /\ conv = [c \in Convs |-> NoConversation]
  /\ newer = {}
  /\ row = [id \in ExtIds |-> NoMessage]
  /\ inJob = [id \in ExtIds |-> NoInboundJob]
  /\ aiJob = [c \in Convs |-> NoAiJob]
  /\ inw = [p \in Procs |-> IdleInbound]
  /\ aiw = [p \in Procs |-> IdleAi]
  /\ outbox = {}
  /\ log = {}
  /\ answered = [id \in ExtIds |-> 0]
  /\ accepted = {}
  /\ scheduled = {}
  /\ excused = {}
  /\ exhausted = {}
  /\ budget = Budget
=============================================================================
