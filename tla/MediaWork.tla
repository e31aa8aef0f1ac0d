------------------------------- MODULE MediaWork -------------------------------
(***************************************************************************)
(* MediaProcessorService with the downloader and the transcribers, run by  *)
(* the inbound jobs of media messages, while agents edit the AI contexts   *)
(* or switch the AI of a conversation off and on, and the AI worker reads  *)
(* the messages.  The part of the inbound job before the media (contact,   *)
(* conversation, message) is one step here; InboundPipeline opens it up.   *)
(***************************************************************************)
EXTENDS Naturals, FiniteSets

CONSTANTS
  Messages,     \* stored messages that are not TEXT
  Media,        \* what a message may be: type, channel, what mediaUrl holds
  Procs,        \* processes, each with one inbound worker
  Settings,     \* what agents may store in a context
  MaxContexts,  \* bound: contexts ever created
  EnvKeys,      \* the API keys of the environment
  Edits,        \* bound: updates and removals of contexts, switches of the AI
  Faults,       \* bound: errors, deaths of a process, repeated webhook calls
  None

ContentType == {"IMAGE", "AUDIO", "VIDEO", "DOCUMENT", "LOCATION", "STICKER",
                "REACTION", "TEMPLATE"}
Channel == {"evolution", "telegram", "meta", "other"}
Provider == {"OPENAI", "ANTHROPIC", "GEMINI", "CUSTOM"}

\* mediaProcessorModel belongs to a provider as mediaProcessorApiKey does: apiKey
\* stands for both.
AiContext == [isActive: BOOLEAN, allowed: SUBSET ContentType, provider: Provider,
              fallback: BOOLEAN, apiKey: Provider \cup {None}, baseUrl: BOOLEAN]

Transcription == [by: Provider, empty: BOOLEAN]

ASSUME MediaAssumption ==
  /\ Media \subseteq [type: ContentType, channel: Channel, mediaUrl: {"id", "url", "none"}]
  /\ Settings \subseteq AiContext
  /\ EnvKeys \subseteq {"OPENAI", "ANTHROPIC", "GEMINI"}
  /\ MaxContexts \in Nat /\ Edits \in Nat /\ Faults \in Nat
  /\ None \notin AiContext \cup Provider \cup Messages \cup Transcription

Contexts == 1..MaxContexts  \* in the order of createdAt

-----------------------------------------------------------------------------
(* What a medium needs. *)

\* PROMPT_BY_CONTENT_TYPE.
Prompted == {"IMAGE", "AUDIO", "VIDEO", "DOCUMENT", "STICKER"}

Supported(provider) ==
  CASE provider = "GEMINI"    -> Prompted
    [] provider = "OPENAI"    -> {"IMAGE", "AUDIO", "STICKER"}
    [] provider = "ANTHROPIC" -> {"IMAGE", "DOCUMENT", "STICKER"}
    [] provider = "CUSTOM"    -> {"IMAGE", "STICKER"}

\* The transcriber, or None: the one that was set, else Gemini.
Transcriber(s, type) ==
  IF type \in Supported(s.provider) THEN s.provider
  ELSE IF s.fallback /\ type \in Supported("GEMINI") THEN "GEMINI" ELSE None

\* A provider accepts its own key, of the context or of the environment, and its
\* own models.  Whichever transcriber was chosen is given those of the context.
HasKey(owner, env, s) == IF s.apiKey # None THEN s.apiKey = owner ELSE env \in EnvKeys

GeminiTranscribes(s) == HasKey("GEMINI", "GEMINI", s)
\* The base URL goes to this client as well, which then calls that server.
OpenAiTranscribes(s) == HasKey(IF s.baseUrl THEN "CUSTOM" ELSE "OPENAI", "OPENAI", s)
AnthropicTranscribes(s) == HasKey("ANTHROPIC", "ANTHROPIC", s)
\* An OpenAI client for another URL.
CustomTranscribes(s) == s.baseUrl /\ HasKey("CUSTOM", "OPENAI", s)

Transcribes(provider, s) ==
  CASE provider = "GEMINI"    -> GeminiTranscribes(s)
    [] provider = "OPENAI"    -> OpenAiTranscribes(s)
    [] provider = "ANTHROPIC" -> AnthropicTranscribes(s)
    [] provider = "CUSTOM"    -> CustomTranscribes(s)

\* Evolution sends a URL; Telegram and WhatsApp an id, which a first call turns
\* into one.  Other channels have no downloader.
FirstFetch(medium) ==
  CASE medium.channel = "evolution" -> "download"
    [] medium.channel = "telegram"  -> "getFile"
    [] medium.channel = "meta"      -> "graph"
    [] medium.channel = "other"     -> "markFailed"

\* What can be fetched if nothing goes wrong: Instagram and Messenger send a URL
\* as well, which Graph does not know as an id.
Fetchable(medium) ==
  \/ medium.channel = "evolution" /\ medium.mediaUrl = "url"
  \/ medium.channel \in {"telegram", "meta"} /\ medium.mediaUrl = "id"

-----------------------------------------------------------------------------
VARIABLES
  context,    \* ai_contexts of the tenant: settings, or None
  created,    \* how many there have been
  ai,         \* aiEnabled of the conversation that the sender's next job finds
  row,        \* messages: mediaProcessingStatus, transcription
  told,       \* what the model was told of a message
  job,        \* message-inbound
  work,       \* the locals of MediaProcessorService.process
  disturbed,  \* history: messages whose processing met a fault
  edits, faults

vars == <<context, created, ai, row, told, job, work, disturbed, edits, faults>>

Status == {"PENDING", "PROCESSING", "COMPLETED", "SKIPPED", "FAILED"}
Decided == {"COMPLETED", "SKIPPED", "FAILED"}
Row == [medium: Media, status: Status, transcription: Transcription \cup {None},
        under: AiContext \cup {None}]  \* history: the context that decided the status
Told == [as: {"nothing", "transcription", "unsupported", "unprocessable"},
         status: Status, after: BOOLEAN]  \* history: its status, if its job had come to it
Job == [state: {"queued", "active", "completed", "failed"}, attempts: Nat, stalls: Nat,
        omitted: BOOLEAN]  \* history: it completed with the AI off
Pc == {"idle", "resolve", "omit", "getContext", "find", "markSkipped", "markFailed",
       "markProcessing", "graph", "getFile", "download", "transcribe", "complete", "schedule"}
Work == [pc: Pc, message: Messages \cup {None}, context: AiContext \cup {None},
         by: Provider \cup {None}, empty: BOOLEAN]

NewJob == [state |-> "queued", attempts |-> 0, stalls |-> 0, omitted |-> FALSE]
Idle == [pc |-> "idle", message |-> None, context |-> None, by |-> None, empty |-> FALSE]

Init ==
  /\ context = [i \in Contexts |-> None] /\ created = 0
  /\ \E medium \in [Messages -> Media] :
       row = [m \in Messages |-> [medium |-> medium[m], status |-> "PENDING",
                                  transcription |-> None, under |-> None]]
  /\ told = [m \in Messages |-> [as |-> "nothing", status |-> "PENDING", after |-> FALSE]]
  /\ ai \in [Messages -> BOOLEAN]
  /\ job = [m \in Messages |-> NewJob]
  /\ work = [p \in Procs |-> Idle]
  /\ disturbed = {} /\ edits = 0 /\ faults = 0

-----------------------------------------------------------------------------
(* Agents, over REST: AiContextService, and aiEnabled of a conversation. *)

CreateContext ==
  /\ created < MaxContexts
  /\ created' = created + 1
  /\ \E s \in Settings : context' = [context EXCEPT ![created + 1] = s]
  /\ UNCHANGED <<ai, row, told, job, work, disturbed, edits, faults>>

\* update and remove: findOne, then the write.
EditContext(i) ==
  /\ context[i] # None /\ edits < Edits /\ edits' = edits + 1
  /\ \E s \in Settings \cup {None} : context' = [context EXCEPT ![i] = s]
  /\ UNCHANGED <<created, ai, row, told, job, work, disturbed, faults>>

\* ConversationsService.update.  On again is also what a closed conversation leads
\* to: the next message opens a new one, whose AI is on.
SwitchAi(m) ==
  /\ edits < Edits /\ edits' = edits + 1
  /\ ai' = [ai EXCEPT ![m] = ~@]
  /\ UNCHANGED <<context, created, row, told, job, work, disturbed, faults>>

\* getActiveContext: the oldest that is active.
IsActive(i) == context[i] # None /\ context[i].isActive
ActiveContext(s) ==
  \/ s = None /\ \A i \in Contexts : ~IsActive(i)
  \/ \E i \in Contexts : /\ IsActive(i) /\ s = context[i]
                         /\ \A j \in Contexts : j < i => ~IsActive(j)

-----------------------------------------------------------------------------
(* The inbound job of message m. *)

NoEdit == UNCHANGED <<context, created, ai, told, edits>>
NoFault == UNCHANGED <<disturbed, faults>>
Fault(m) ==
  /\ faults < Faults /\ faults' = faults + 1
  /\ disturbed' = disturbed \cup {m}

Pick(p, m) ==
  /\ work[p].pc = "idle" /\ job[m].state = "queued"
  /\ job' = [job EXCEPT ![m].state = "active"]
  /\ work' = [work EXCEPT ![p] = [Idle EXCEPT !.pc = "resolve", !.message = m]]
  /\ UNCHANGED row /\ NoEdit /\ NoFault

At(p, pc) == work[p].pc = pc
Goto(p, pc) == work' = [work EXCEPT ![p].pc = pc]

\* The job up to its media: aiEnabled is that of the conversation as it was read.
ResolveConversation(p) ==
  /\ At(p, "resolve")
  /\ Goto(p, IF ai[work[p].message] THEN "getContext" ELSE "omit")
  /\ UNCHANGED <<row, job>> /\ NoEdit /\ NoFault

\* The return of a conversation whose AI is off: the job is done.
Omit(p) ==
  LET m == work[p].message
  IN /\ At(p, "omit")
     /\ job' = [job EXCEPT ![m].state = "completed", ![m].omitted = TRUE]
     /\ work' = [work EXCEPT ![p] = Idle]
     /\ UNCHANGED row /\ NoEdit /\ NoFault

GetActiveContext(p) ==
  /\ At(p, "getContext")
  /\ \E s \in Settings \cup {None} :
       /\ ActiveContext(s)
       /\ work' = [work EXCEPT ![p].pc = "find", ![p].context = s]
  /\ UNCHANGED <<row, job>> /\ NoEdit /\ NoFault

\* Whether a context admits a message of this type.
Admits(s, type) == s # None /\ type \in s.allowed /\ type \in Prompted

\* Mutant: an empty list of types admits all.
FindAnyType(p) ==
  LET m == work[p].message
      s == work[p].context
  IN /\ At(p, "find")
     /\ Goto(p, IF s = None THEN "markSkipped"
                ELSE IF row[m].medium.mediaUrl = "none" THEN "markFailed" ELSE "markProcessing")
     /\ UNCHANGED <<row, job>> /\ NoEdit /\ NoFault

\* findUnique, and the early returns.
Find(p) ==
  LET m == work[p].message
      s == work[p].context
  IN /\ At(p, "find")
     /\ Goto(p, IF ~Admits(s, row[m].medium.type) THEN "markSkipped"
                ELSE IF row[m].medium.mediaUrl = "none" THEN "markFailed" ELSE "markProcessing")
     /\ UNCHANGED <<row, job>> /\ NoEdit /\ NoFault

Processing(m) == [row EXCEPT ![m].status = "PROCESSING"]

\* Mutant: the transcriber is that of the context as it is by now.
MarkProcessingAnew(p) ==
  LET m == work[p].message
  IN /\ At(p, "markProcessing")
     /\ row' = Processing(m)
     /\ \E s \in Settings :
          /\ ActiveContext(s)
          /\ work' = [work EXCEPT ![p].by = Transcriber(s, row[m].medium.type),
               ![p].pc = IF Transcriber(s, row[m].medium.type) = None THEN "markFailed"
                         ELSE FirstFetch(row[m].medium)]
     /\ UNCHANGED job /\ NoEdit /\ NoFault

\* Mutant: an unsupported type just returns.
LeaveUnsupported(p) ==
  LET m == work[p].message
      by == Transcriber(work[p].context, row[m].medium.type)
  IN /\ At(p, "markProcessing")
     /\ row' = Processing(m)
     /\ work' = [work EXCEPT ![p].by = by,
          ![p].pc = IF by = None THEN "schedule" ELSE FirstFetch(row[m].medium)]
     /\ UNCHANGED job /\ NoEdit /\ NoFault

\* Mutant: the update to PROCESSING is missing.
ProcessUnmarked(p) ==
  LET m == work[p].message
      by == Transcriber(work[p].context, row[m].medium.type)
  IN /\ At(p, "markProcessing")
     /\ work' = [work EXCEPT ![p].by = by,
          ![p].pc = IF by = None THEN "markFailed" ELSE FirstFetch(row[m].medium)]
     /\ UNCHANGED <<row, job>> /\ NoEdit /\ NoFault

\* The update; then the transcriber and the way to download are chosen.
MarkProcessing(p) ==
  LET m == work[p].message
      by == Transcriber(work[p].context, row[m].medium.type)
  IN /\ At(p, "markProcessing")
     /\ row' = Processing(m)
     /\ work' = [work EXCEPT ![p].by = by,
          ![p].pc = IF by = None THEN "markFailed" ELSE FirstFetch(row[m].medium)]
     /\ UNCHANGED job /\ NoEdit /\ NoFault

\* downloadMeta and downloadTelegram, up to the URL.
AskFor(p) ==
  /\ Goto(p, IF Fetchable(row[work[p].message].medium) THEN "download" ELSE "markFailed")
  /\ UNCHANGED <<row, job>> /\ NoEdit /\ NoFault

FetchGraph(p) == At(p, "graph") /\ AskFor(p)
GetFile(p) == At(p, "getFile") /\ AskFor(p)

\* Timeouts, error statuses and files that are too large are faults: Caught.
Download(p) ==
  /\ At(p, "download")
  /\ Goto(p, IF Fetchable(row[work[p].message].medium) THEN "transcribe" ELSE "markFailed")
  /\ UNCHANGED <<row, job>> /\ NoEdit /\ NoFault

\* A provider may answer with no text at all.
Transcribe(p) ==
  /\ At(p, "transcribe")
  /\ \/ /\ Transcribes(work[p].by, work[p].context)
        /\ \E empty \in BOOLEAN :
             work' = [work EXCEPT ![p].pc = "complete", ![p].empty = empty]
     \/ ~Transcribes(work[p].by, work[p].context) /\ Goto(p, "markFailed")
  /\ UNCHANGED <<row, job>> /\ NoEdit /\ NoFault

Completed(p) ==
  [row EXCEPT ![work[p].message] =
     [@ EXCEPT !.status = "COMPLETED", !.under = work[p].context,
               !.transcription = [by |-> work[p].by, empty |-> work[p].empty]]]

\* Mutant: the text is saved, its status left to another statement.
CompleteTextOnly(p) ==
  /\ At(p, "complete")
  /\ row' = [row EXCEPT ![work[p].message].transcription = [by |-> work[p].by, empty |-> FALSE]]
  /\ Goto(p, "schedule")
  /\ UNCHANGED job /\ NoEdit /\ NoFault

Complete(p) ==
  /\ At(p, "complete")
  /\ row' = Completed(p)
  /\ Goto(p, "schedule")
  /\ UNCHANGED job /\ NoEdit /\ NoFault

Marked(p, status) ==
  [row EXCEPT ![work[p].message].status = status,
              ![work[p].message].under = work[p].context]

MarkSkipped(p) ==
  /\ At(p, "markSkipped")
  /\ row' = Marked(p, "SKIPPED")
  /\ Goto(p, "schedule")
  /\ UNCHANGED job /\ NoEdit /\ NoFault

\* Neither mark touches the transcription.
MarkFailed(p) ==
  /\ At(p, "markFailed")
  /\ row' = Marked(p, "FAILED")
  /\ Goto(p, "schedule")
  /\ UNCHANGED job /\ NoEdit /\ NoFault

\* scheduleAiResponse, and the end of the job.
Schedule(p) ==
  LET m == work[p].message
  IN /\ At(p, "schedule")
     /\ job' = [job EXCEPT ![m].state = "completed", ![m].omitted = FALSE]
     /\ work' = [work EXCEPT ![p] = Idle]
     /\ UNCHANGED row /\ NoEdit /\ NoFault

-----------------------------------------------------------------------------
(* Errors, crashes, retries. *)

\* Inside the try: download, transcription and the last update, which may have
\* been applied.
Caught(p) ==
  /\ work[p].pc \in {"graph", "getFile", "download", "transcribe", "complete"}
  /\ Fault(work[p].message)
  /\ IF At(p, "complete") THEN row' \in {row, Completed(p)} ELSE UNCHANGED row
  /\ Goto(p, "markFailed")
  /\ UNCHANGED job /\ NoEdit

Attempts == 3

\* Mutant: the error of the media processor is logged, and the job goes on.
Swallow(p) ==
  /\ work[p].pc \in {"resolve", "getContext", "find", "markProcessing", "markSkipped",
                     "markFailed", "schedule"}
  /\ Fault(work[p].message)
  /\ job' = [job EXCEPT ![work[p].message].state = "completed"]
  /\ work' = [work EXCEPT ![p] = Idle]
  /\ UNCHANGED row /\ NoEdit

\* Outside of it: the job throws and is retried.
Throw(p) ==
  LET m == work[p].message
      again == job[m].attempts + 1 < Attempts
  IN /\ work[p].pc \in {"resolve", "getContext", "find", "markProcessing",
                        "markSkipped", "markFailed", "schedule"}
     /\ Fault(m)
     /\ IF At(p, "markProcessing") THEN row' \in {row, Processing(m)} ELSE UNCHANGED row
     /\ job' = [job EXCEPT ![m].state = IF again THEN "queued" ELSE "failed",
                           ![m].attempts = @ + 1]
     /\ work' = [work EXCEPT ![p] = Idle]
     /\ NoEdit

Crash(p) ==
  /\ ~At(p, "idle")
  /\ Fault(work[p].message)
  /\ work' = [work EXCEPT ![p] = Idle]
  /\ UNCHANGED <<row, job>> /\ NoEdit

MaxStalls == 1

\* The stalled checker.
Stalled(m) ==
  /\ job[m].state = "active" /\ \A p \in Procs : work[p].message # m
  /\ job' = [job EXCEPT ![m].state = IF job[m].stalls < MaxStalls THEN "queued" ELSE "failed",
                        ![m].stalls = @ + 1]
  /\ UNCHANGED <<row, work>> /\ NoEdit /\ NoFault

\* The webhook is repeated after the job was evicted: everything runs again.
Redeliver(m) ==
  /\ job[m].state \in {"completed", "failed"}
  /\ Fault(m)
  /\ job' = [job EXCEPT ![m] = NewJob]
  /\ UNCHANGED <<row, work>> /\ NoEdit

-----------------------------------------------------------------------------
(* The AI worker: formatMessageForAi.  Another message of the conversation may
   have scheduled the run, so it reads m at any time, for good when it marks it;
   its own look at aiEnabled was earlier. *)

FormatFor(r) ==
  IF r.status = "COMPLETED" /\ r.transcription # None /\ ~r.transcription.empty
  THEN "transcription"
  ELSE IF r.status = "SKIPPED" THEN "unsupported" ELSE "unprocessable"

FormatMessageForAi(m) ==
  /\ told[m].as = "nothing"
  /\ told' = [told EXCEPT ![m] = [as |-> FormatFor(row[m]), status |-> row[m].status,
                                  after |-> /\ job[m].state = "completed"
                                            /\ ~job[m].omitted]]
  /\ UNCHANGED <<context, created, ai, row, job, work, disturbed, edits, faults>>

WorkStep(p) ==
  \/ \E m \in Messages : Pick(p, m)
  \/ ResolveConversation(p) \/ Omit(p)
  \/ GetActiveContext(p) \/ Find(p) \/ MarkProcessing(p) \/ FetchGraph(p)
  \/ GetFile(p) \/ Download(p) \/ Transcribe(p) \/ Complete(p) \/ MarkSkipped(p) \/ MarkFailed(p)
  \/ Schedule(p) \/ Caught(p) \/ Throw(p)

Next ==
  \/ CreateContext
  \/ \E i \in Contexts : EditContext(i)
  \/ \E p \in Procs : WorkStep(p) \/ Crash(p)
  \/ \E m \in Messages : SwitchAi(m) \/ Stalled(m) \/ Redeliver(m) \/ FormatMessageForAi(m)

\* Workers go on as long as their process lives and calls return; every worker
\* runs the stalled checker.
Fairness ==
  /\ \A p \in Procs : WF_vars(WorkStep(p))
  /\ \A m \in Messages : WF_vars(Stalled(m))

MediaSpec == Init /\ [][Next]_vars /\ Fairness

-----------------------------------------------------------------------------
(* Properties. *)

\* What becomes of a medium under settings s if nothing goes wrong.
Outcome(medium, s) ==
  IF ~Admits(s, medium.type) THEN "SKIPPED"
  ELSE IF /\ Fetchable(medium)
          /\ Transcriber(s, medium.type) # None
          /\ Transcribes(Transcriber(s, medium.type), s)
       THEN "COMPLETED" ELSE "FAILED"

\* The status of a medium is what one context makes of it, the one read
\* first by the last run that came to it, although agents edit contexts meanwhile (33-148); a fault can only
\* make FAILED of COMPLETED.
OneContextDecides ==
  \A m \in Messages : row[m].status \in Decided =>
    \/ row[m].status = Outcome(row[m].medium, row[m].under)
    \/ /\ row[m].status = "FAILED" /\ Outcome(row[m].medium, row[m].under) = "COMPLETED"
       /\ m \in disturbed

\* A transcription is the work of a transcriber that supports the type, and what
\* was transcribed stays usable: only a run that failed, or was repeated, leaves a
\* transcription behind a status that hides it (124-176).
TranscriptionStaysUsable ==
  \A m \in Messages : row[m].transcription # None =>
    /\ row[m].medium.type \in Supported(row[m].transcription.by)
    /\ row[m].status = "COMPLETED" \/ m \in disturbed

\* A job that completed with the AI on leaves its medium decided, so a reply that
\* is based on an undecided one has overtaken such a job.  One that completed with
\* the AI off has not touched it: it stays PENDING, also for the replies to come
\* when the AI is on again (inbound 62-72).
DecidedWhenScheduled ==
  \A m \in Messages :
    /\ job[m].state = "completed" =>
         IF job[m].omitted THEN row[m].status = "PENDING" \/ m \in disturbed
         ELSE row[m].status \in Decided
    /\ told[m].after => told[m].status \in Decided

\* A medium that is PROCESSING is being processed, or a fault cut that off (77).
ProcessingIsLive ==
  \A m \in Messages : row[m].status = "PROCESSING" =>
    \/ m \in disturbed
    \/ \E p \in Procs : work[p].message = m

\* Every medium is decided in the end, unless its job has used up its attempts or
\* has found the AI off (inbound 62-72).
MediumIsDecided ==
  \A m \in Messages :
    job[m].state = "queued" ~>
      \/ job[m].state = "failed" \/ row[m].status \in Decided
      \/ job[m].state = "completed" /\ job[m].omitted

\* create-ai-context.dto.ts: a type that the provider does not support goes to
\* Gemini automatically, and is transcribed when nothing goes wrong.
FallbackTranscribes ==
  \A m \in Messages : row[m].status \in Decided /\ m \notin disturbed =>
    LET s == row[m].under
        medium == row[m].medium
    IN /\ Admits(s, medium.type) /\ s.fallback /\ medium.type \notin Supported(s.provider)
       /\ Fetchable(medium) /\ "GEMINI" \in EnvKeys
       => row[m].status = "COMPLETED"

-----------------------------------------------------------------------------
(* The processing implements MediaContract: a status is final but for faults,
   and COMPLETED follows PROCESSING even then (77-176). *)

Contract == INSTANCE MediaContract
              WITH Ids <- Messages, trouble <- disturbed,
                   status <- [m \in Messages |-> row[m].status]

MediaContractHolds == Contract!ContractSpec

-----------------------------------------------------------------------------
(* The inductive invariant. *)

TypeOK ==
  /\ context \in [Contexts -> Settings \cup {None}]
  /\ created \in 0..MaxContexts
  /\ ai \in [Messages -> BOOLEAN]
  /\ row \in [Messages -> Row]
  /\ told \in [Messages -> Told]
  /\ job \in [Messages -> Job]
  /\ work \in [Procs -> Work]
  /\ disturbed \in SUBSET Messages
  /\ edits \in Nat /\ faults \in Nat

\* A worker holds its active job alone, and has come this far for a reason.
WorkState(p) ==
  LET m == work[p].message
      s == work[p].context
      type == row[m].medium.type
  IN /\ (work[p].pc = "idle") <=> (m = None)
     /\ m # None => /\ job[m].state = "active"
                    /\ \A q \in Procs : work[q].message = m => q = p
     /\ At(p, "markSkipped") => Outcome(row[m].medium, s) = "SKIPPED"
     /\ work[p].pc \in {"markProcessing", "markFailed", "graph", "getFile", "download",
                        "transcribe", "complete"} => Admits(s, type)
     /\ At(p, "markFailed") => Outcome(row[m].medium, s) = "FAILED" \/ m \in disturbed
     /\ work[p].pc \in {"graph", "getFile", "download", "transcribe", "complete"} =>
          work[p].by = Transcriber(s, type) /\ work[p].by # None
     /\ work[p].pc \in {"transcribe", "complete"} => Fetchable(row[m].medium)
     /\ At(p, "complete") => Transcribes(work[p].by, s)
     /\ At(p, "schedule") => row[m].status \in Decided
     /\ work[p].pc \in {"resolve", "omit", "getContext", "find", "markSkipped",
                        "markProcessing"} =>
          row[m].status = "PENDING" \/ m \in disturbed
     /\ work[p].pc \in {"graph", "getFile", "download", "transcribe", "complete"} =>
          row[m].status = "PROCESSING"
     /\ At(p, "markFailed") => row[m].status \in {"PENDING", "PROCESSING"} \/ m \in disturbed

\* An untouched medium: nothing was written, or its only run is at work or over.
RowState(m) ==
  /\ row[m].transcription = None \/ row[m].status = "COMPLETED" \/ m \in disturbed
  /\ row[m].status = "COMPLETED" => row[m].transcription # None
  /\ job[m].state = "queued" => row[m].status = "PENDING" \/ m \in disturbed
  /\ job[m].state = "active" =>
       (\E p \in Procs : work[p].message = m) \/ m \in disturbed

MediaInv ==
  /\ TypeOK
  /\ \A p \in Procs : WorkState(p)
  /\ \A m \in Messages : RowState(m)
  /\ OneContextDecides /\ TranscriptionStaysUsable /\ DecidedWhenScheduled
  /\ ProcessingIsLive
=============================================================================
