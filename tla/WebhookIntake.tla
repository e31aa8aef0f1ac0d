---------------------------- MODULE WebhookIntake ----------------------------
(***************************************************************************)
(* One webhook call in detail: WebhooksController.handleInbound and        *)
(* WebhooksService.processInboundWebhook look the channel up, store a      *)
(* WebhookLog, check the signature, let the channel's adapter normalise    *)
(* the payload, and add one message-inbound job per message.  Several      *)
(* calls run at a time, agents edit and remove channels meanwhile, any     *)
(* await may fail, and the provider repeats a call that it likes to.       *)
(* InboundPipeline takes a call for one atomic Deliver of one message.     *)
(***************************************************************************)
EXTENDS Naturals, Sequences

CONSTANTS
  Channels,     \* channel ids
  Calls,        \* HTTP requests that reach handleInbound
  Bodies,       \* request bodies
  Ids,          \* message ids of the providers
  Payload,      \* the parsed body: entries, each a sequence of items
  InitialType,  \* the ChannelType in a channel's webhook URL and first row
  Posts,        \* the bodies the provider of a channel posts to it
  Provider,     \* its ChannelProvider, which no update changes
  Faults,       \* bound on failing round trips and crashes
  Edits,        \* bound on channel edits
  None

ChannelType == {"WHATSAPP", "INSTAGRAM", "MESSENGER", "TELEGRAM", "WEBCHAT"}

\* What a message is on the wire; "event" is anything that is not a message
\* (statuses, reads, edits), "own" and "group" are the two that Evolution tags.
Wire == {"text", "image", "video", "audio", "document", "sticker", "location",
         "reaction", "share", "button", "event", "own", "group"}
Item == [id: Ids, wire: Wire]

ASSUME IntakeAssumption ==
  /\ Payload \in [Bodies -> Seq(Seq(Item))]
  /\ InitialType \in [Channels -> ChannelType]
  /\ Posts \in [Channels -> SUBSET Bodies]
  /\ Provider \in [Channels -> {"META", "EVOLUTION"}]
  /\ Faults \in Nat /\ Edits \in Nat
  /\ None \notin Channels \cup Bodies

-----------------------------------------------------------------------------
(* The adapters.  AdapterFactory knows one adapter per <<type, provider>>.  *)

Messaging == {<<"INSTAGRAM", "META">>, <<"MESSENGER", "META">>}
Adapters  == Messaging \cup {<<"WHATSAPP", "META">>, <<"WHATSAPP", "EVOLUTION">>,
                             <<"TELEGRAM", "META">>}

MediaType == {"image", "video", "audio", "document", "sticker"}

\* The wire types an adapter has a ContentType for; the others become TEXT.
Recognised(adapter) ==
  CASE adapter[1] = "WHATSAPP" -> MediaType \cup {"text", "location", "reaction"}
    [] adapter[1] = "TELEGRAM" -> MediaType \cup {"text", "location"}
    [] adapter \in Messaging   -> (MediaType \ {"sticker"}) \cup {"text"}

ContentTypeOf(adapter, wire) == IF wire \in Recognised(adapter) THEN wire ELSE "text"

\* Whether mediaUrl is set: Instagram and Messenger copy the URL of an
\* attachment of any type, the others that of a media type.
HasUrl(adapter, wire) ==
  \/ adapter \in Messaging /\ wire \in MediaType \cup {"share"}
  \/ adapter \notin Messaging /\ wire \in Recognised(adapter) \cap MediaType

\* Evolution drops what the business wrote itself and what groups wrote.
IsInbound(adapter, item) ==
  /\ item.wire # "event"
  /\ adapter = <<"WHATSAPP", "EVOLUTION">> => item.wire \notin {"own", "group"}

\* Only the first entry of a payload is read (and its first change, for
\* WhatsApp); Telegram and Evolution post one message per body.
Entry(body) == IF Payload[body] = <<>> THEN <<>> ELSE Payload[body][1]

\* The positions of that entry which normalizeInbound turns into messages.
normalizeInbound(adapter, body) ==
  {i \in DOMAIN Entry(body) : IsInbound(adapter, Entry(body)[i])}

Normalized(adapter, item) ==
  [id |-> item.id, type |-> ContentTypeOf(adapter, item.wire),
   url |-> HasUrl(adapter, item.wire)]
NormalizedMessage == [id: Ids, type: Wire, url: BOOLEAN]

ASSUME NoneIsNoMessage == None \notin NormalizedMessage

-----------------------------------------------------------------------------
VARIABLES
  channel,    \* channel rows
  call,       \* per call, the locals of the handler and its answer
  webhookLog, \* per call, its webhook_logs row
  job,        \* by <<channelId, externalId>>, the message-inbound job ever added
  faults, edits

vars == <<channel, call, webhookLog, job, faults, edits>>

ChannelRow == [type: ChannelType, isActive: BOOLEAN, deleted: BOOLEAN]
Pc     == {"idle", "find", "log", "reject", "mark", "enqueue", "done"}
Answer == {"none", "200", "401", "404", "500", "cut"}
Call == [pc: Pc, channel: Channels \cup {None}, body: Bodies \cup {None},
         valid: BOOLEAN,       \* the signature matches the channel's secret
         type: ChannelType,    \* of the channel row that was read
         todo: SUBSET Nat,     \* positions whose job is still to be added
         gone: BOOLEAN,        \* history: the channel was removed before the call
         answer: Answer]
IdleCall == [pc |-> "idle", channel |-> None, body |-> None, valid |-> FALSE,
             type |-> "WHATSAPP", todo |-> {}, gone |-> FALSE, answer |-> "none"]

LogState == {"absent", "stored", "rejected", "processed"}

Adapter(r) == <<call[r].type, Provider[call[r].channel]>>
Messages(r) == normalizeInbound(Adapter(r), call[r].body)
JobId(r, i) == <<call[r].channel, Entry(call[r].body)[i].id>>

IsLive(c) == channel[c].isActive /\ ~channel[c].deleted

Running(r) == call[r].pc \notin {"idle", "done"}
Goto(r, pc) == call' = [call EXCEPT ![r].pc = pc]
Reply(r, answer) ==
  call' = [call EXCEPT ![r] = [@ EXCEPT !.pc = "done", !.answer = answer]]

Init ==
  /\ channel = [c \in Channels |-> [type |-> InitialType[c], isActive |-> TRUE,
                                    deleted |-> FALSE]]
  /\ call = [r \in Calls |-> IdleCall]
  /\ webhookLog = [r \in Calls |-> "absent"]
  /\ job = [k \in Channels \X Ids |-> None]
  /\ faults = 0
  /\ edits = 0

-----------------------------------------------------------------------------
(* The handler, one action per await. *)

\* The provider posts a body, for the first time or again.
Receive(r) ==
  /\ call[r].pc = "idle"
  /\ \E c \in Channels, valid \in BOOLEAN : \E body \in Posts[c] :
       call' = [call EXCEPT ![r] =
                  [IdleCall EXCEPT !.pc = "find", !.channel = c, !.body = body,
                                   !.valid = valid, !.gone = channel[c].deleted]]
  /\ UNCHANGED <<channel, webhookLog, job, faults, edits>>

\* Mutant: findFirst without the extension's deletedAt filter.
FindRemovedChannel(r) ==
  LET c == call[r].channel
  IN /\ call[r].pc = "find"
     /\ \/ /\ channel[c].isActive /\ channel[c].type = InitialType[c]
           /\ call' = [call EXCEPT ![r] = [@ EXCEPT !.pc = "log",
                                                    !.type = channel[c].type]]
        \/ /\ ~(channel[c].isActive /\ channel[c].type = InitialType[c])
           /\ Reply(r, "404")
     /\ UNCHANGED <<channel, webhookLog, job, faults, edits>>

\* findFirst({id, type, isActive: true}), where the soft-delete extension adds
\* deletedAt: null; the type is the one in the URL.
FindChannel(r) ==
  LET c == call[r].channel
  IN /\ call[r].pc = "find"
     /\ \/ /\ IsLive(c) /\ channel[c].type = InitialType[c]
           /\ call' = [call EXCEPT ![r] = [@ EXCEPT !.pc = "log",
                                                    !.type = channel[c].type]]
        \/ /\ ~(IsLive(c) /\ channel[c].type = InitialType[c])
           /\ Reply(r, "404")
     /\ UNCHANGED <<channel, webhookLog, job, faults, edits>>

\* webhookLog.create, then without another await: getAdapter throws for a pair
\* it does not know, a wrong signature is to be logged, else normalizeInbound.
CreateLog(r) ==
  /\ call[r].pc = "log"
  /\ webhookLog' = [webhookLog EXCEPT ![r] = "stored"]
  /\ \/ Adapter(r) \notin Adapters /\ Reply(r, "500")
     \/ Adapter(r) \in Adapters /\ ~call[r].valid /\ Goto(r, "reject")
     \/ /\ Adapter(r) \in Adapters /\ call[r].valid
        /\ call' = [call EXCEPT ![r] = [@ EXCEPT !.pc = "mark",
                                                 !.todo = Messages(r)]]
  /\ UNCHANGED <<channel, job, faults, edits>>

\* Mutant: the error is noted but not thrown.
NoteRejection(r) ==
  /\ call[r].pc = "reject"
  /\ webhookLog' = [webhookLog EXCEPT ![r] = "rejected"]
  /\ call' = [call EXCEPT ![r] = [@ EXCEPT !.pc = "enqueue", !.todo = Messages(r)]]
  /\ UNCHANGED <<channel, job, faults, edits>>

RejectCall(r) ==
  /\ call[r].pc = "reject"
  /\ webhookLog' = [webhookLog EXCEPT ![r] = "rejected"]
  /\ Reply(r, "401")
  /\ UNCHANGED <<channel, job, faults, edits>>

\* Mutant: processed is set by a statement that is not awaited, and lost.
MarkLater(r) ==
  /\ call[r].pc = "mark"
  /\ Goto(r, "enqueue")
  /\ UNCHANGED <<channel, webhookLog, job, faults, edits>>

\* processed: true, before any of the messages is queued.
MarkProcessed(r) ==
  /\ call[r].pc = "mark"
  /\ webhookLog' = [webhookLog EXCEPT ![r] = "processed"]
  /\ Goto(r, "enqueue")
  /\ UNCHANGED <<channel, job, faults, edits>>

\* messageInboundQueue.add with jobId channelId_externalId; a known jobId is
\* left alone.
AddJob(r, i) ==
  job' = IF job[JobId(r, i)] # None THEN job
         ELSE [job EXCEPT ![JobId(r, i)] =
                 Normalized(Adapter(r), Entry(call[r].body)[i])]

\* The position the loop has come to.
IsNext(r, i) == i \in call[r].todo /\ \A j \in call[r].todo : i <= j

EnqueueMessage(r) ==
  /\ call[r].pc = "enqueue"
  /\ \E i \in call[r].todo : /\ IsNext(r, i)
                             /\ AddJob(r, i)
                             /\ call' = [call EXCEPT ![r].todo = @ \ {i}]
  /\ UNCHANGED <<channel, webhookLog, faults, edits>>

AnswerOk(r) ==
  /\ call[r].pc = "enqueue" /\ call[r].todo = {}
  /\ Reply(r, "200")
  /\ UNCHANGED <<channel, webhookLog, job, faults, edits>>

\* Mutant: a failing add is logged and the loop goes on.
SkipFailedAdd(r) ==
  /\ call[r].pc = "enqueue" /\ call[r].todo # {}
  /\ faults < Faults /\ faults' = faults + 1
  /\ \E i \in call[r].todo : call' = [call EXCEPT ![r].todo = @ \ {i}]
  /\ UNCHANGED <<channel, webhookLog, job, edits>>

\* The log once the statement on it that is under way has been applied.
LogAfter(r) ==
  CASE call[r].pc = "log"    -> "stored"
    [] call[r].pc = "reject" -> "rejected"
    [] call[r].pc = "mark"   -> "processed"
    [] OTHER                 -> webhookLog[r]

\* A query or an add fails, and the exception filter answers 500.  What it
\* writes may have been written, and only the acknowledgement be lost.
RoundTripFails(r) ==
  /\ Running(r) /\ (call[r].pc = "enqueue" => call[r].todo # {})
  /\ faults < Faults /\ faults' = faults + 1
  /\ Reply(r, "500")
  /\ webhookLog' \in {webhookLog, [webhookLog EXCEPT ![r] = LogAfter(r)]}
  /\ \/ UNCHANGED job
     \/ call[r].pc = "enqueue" /\ \E i \in call[r].todo : IsNext(r, i) /\ AddJob(r, i)
  /\ UNCHANGED <<channel, edits>>

-----------------------------------------------------------------------------
(* The environment. *)

\* The process dies with every call it was serving.
Crash ==
  /\ \E r \in Calls : Running(r)
  /\ faults < Faults /\ faults' = faults + 1
  /\ call' = [r \in Calls |-> IF Running(r)
                              THEN [call[r] EXCEPT !.pc = "done", !.answer = "cut"]
                              ELSE call[r]]
  /\ UNCHANGED <<channel, webhookLog, job, edits>>

\* ChannelsService.update: type and isActive may change, the provider not.
UpdateChannel(c) ==
  /\ ~channel[c].deleted
  /\ edits < Edits /\ edits' = edits + 1
  /\ \E type \in ChannelType, isActive \in BOOLEAN :
       channel' = [channel EXCEPT ![c] = [@ EXCEPT !.type = type,
                                                   !.isActive = isActive]]
  /\ UNCHANGED <<call, webhookLog, job, faults>>

\* ChannelsService.remove: the soft-delete extension sets deletedAt.
RemoveChannel(c) ==
  /\ ~channel[c].deleted
  /\ edits < Edits /\ edits' = edits + 1
  /\ channel' = [channel EXCEPT ![c].deleted = TRUE]
  /\ UNCHANGED <<call, webhookLog, job, faults>>

Handle(r) ==
  \/ Receive(r) \/ FindChannel(r) \/ CreateLog(r) \/ RejectCall(r)
  \/ MarkProcessed(r) \/ EnqueueMessage(r) \/ AnswerOk(r) \/ RoundTripFails(r)

Next ==
  \/ \E r \in Calls : Handle(r)
  \/ Crash
  \/ \E c \in Channels : UpdateChannel(c) \/ RemoveChannel(c)

IntakeSpec == Init /\ [][Next]_vars

-----------------------------------------------------------------------------
(* Properties. *)

\* A message of a read entry has a job once its call is answered with 200, for
\* the channel that was called: a failing add answers 500, and the repeated
\* call adds the rest (handleInbound awaits every add before it returns).
AckedIsQueued ==
  \A r \in Calls : call[r].answer = "200" =>
    \A i \in Messages(r) : job[JobId(r, i)] # None

\* Every job can be traced to a webhook log marked processed, of a call to the
\* job's channel with a valid signature whose body holds that message.
TracedToLog ==
  \A k \in Channels \X Ids : job[k] # None =>
    \E r \in Calls :
      /\ webhookLog[r] = "processed" /\ call[r].valid
      /\ \E i \in Messages(r) :
           /\ JobId(r, i) = k
           /\ job[k] = Normalized(Adapter(r), Entry(call[r].body)[i])

\* A call that arrives after its channel was removed queues nothing and is not
\* answered with 200, whatever calls and edits are under way.
RemovedIsSilent ==
  \A r \in Calls : call[r].gone =>
    call[r].answer # "200" /\ webhookLog[r] = "absent" /\ call[r].todo = {}

\* A log that names a rejection belongs to a call that has nothing to queue and
\* is not answered with 200; a processed log may belong to a call that queued only some of
\* its messages, but then its answer makes the provider repeat it.
LogTellsOutcome ==
  \A r \in Calls :
    /\ webhookLog[r] = "rejected" => call[r].answer # "200" /\ call[r].todo = {}
    /\ webhookLog[r] = "processed" /\ ~Running(r) =>
         \/ \A i \in Messages(r) : job[JobId(r, i)] # None
         \/ call[r].answer \in {"500", "cut"}

-----------------------------------------------------------------------------
(* The inductive invariant. *)

TypeOK ==
  /\ channel \in [Channels -> ChannelRow]
  /\ call \in [Calls -> Call]
  /\ webhookLog \in [Calls -> LogState]
  /\ job \in [Channels \X Ids -> NormalizedMessage \cup {None}]
  /\ faults \in Nat /\ edits \in Nat

\* How far a call has come, and what it has written by then.
CallState(r) ==
  /\ call[r].pc # "idle" => call[r].channel \in Channels /\ call[r].body \in Bodies
  /\ call[r].pc \in {"idle", "find", "log"} =>
       webhookLog[r] = "absent" /\ call[r].todo = {}
  /\ call[r].pc = "reject" => webhookLog[r] = "stored" /\ call[r].todo = {}
  /\ call[r].pc = "mark" => webhookLog[r] = "stored" /\ call[r].todo = Messages(r)
  /\ call[r].pc = "enqueue" =>
       /\ webhookLog[r] = "processed"
       /\ \A i \in Messages(r) \ call[r].todo : job[JobId(r, i)] # None
  /\ call[r].pc \in {"mark", "enqueue"} =>
       call[r].valid /\ call[r].todo \subseteq Messages(r)
  /\ call[r].answer = "none" <=> call[r].pc # "done"

\* A channel stays removed, so the call that came too late cannot find it.
GoneState(r) ==
  call[r].gone => /\ channel[call[r].channel].deleted
                  /\ call[r].pc \in {"find", "done"}

IntakeInv ==
  /\ TypeOK
  /\ \A r \in Calls : CallState(r) /\ GoneState(r)
  /\ AckedIsQueued /\ TracedToLog /\ RemovedIsSilent /\ LogTellsOutcome
=============================================================================
