# The M2 message platform in TLA+

This directory models the server in `src/` (NestJS, PostgreSQL through Prisma,
Redis through BullMQ): contacts write on WhatsApp, Instagram, Messenger or
Telegram, webhooks enqueue what they write, two queue workers store it and let a
language model answer, and agents watch and edit conversations over REST.  The
modules are translated from the code; TLC checks them on small instances and
TLAPS proves the main properties for every instance.

## 1. Inventory

| part | code under `src/src/` | state it keeps | operations |
|---|---|---|---|
| Webhooks and adapters | `modules/webhooks/` | `webhook_logs` | verify, log, normalize a payload, enqueue one `message-inbound` job per message (jobId = channelId_externalId) |
| Inbound worker | `queue/processors/message-inbound.processor.ts`, `modules/message-pipeline/steps/` | `contacts`, `conversations`, `messages` | resolve contact, resolve conversation, persist, touch, process media, schedule |
| Media processor | `modules/media-processor/` | `mediaProcessingStatus`, `transcription` | admit, download, transcribe, mark |
| AI worker | `queue/processors/ai-response.processor.ts` | `aiProcessed` | load, read the batch, engine, mark, dispatch, log |
| AI engine | `modules/ai-engine/` | none | build the prompt, call a provider, fall back |
| AI memory | `modules/ai-memory/` | `ai_memory_entries` | add, read a window, summarize |
| AI contexts | `modules/ai-context/` | `ai_contexts` | CRUD, oldest active context of a tenant |
| Dispatcher and senders | `modules/response-dispatcher/` | OUTBOUND `messages` | decrypt, send, create the row, log |
| Conversations | `modules/conversations/` | `status`, `aiEnabled`, assignee | update, close, queries |
| Contacts, channels, tenants, messages, actions | `modules/...` | their tables | CRUD, Evolution gateway, logs |
| Authentication | `modules/auth/`, `queue/processors/email.processor.ts`, `modules/mailer/` | `users`, `password_reset_tokens`, Redis keys | register, verify, log in, refresh, reset, change; e-mail jobs |
| Soft delete | `prisma/soft-delete.extension.ts` | `deletedAt` | rewrites deletes and reads of four models |
| Configuration, health, common | `config/`, `health/`, `common/`, `shared/` | none | start-up, guards, filters, pipes |

How they interact.  A webhook call adds jobs and returns 200.  The inbound worker
takes a job, and every Prisma or Redis call in it is an await between which
other workers, other processes and the REST API run.  At the end it *removes and
re-adds* the conversation's single `ai-response` job (jobId = conversationId,
delayed by the debounce).  The AI worker takes that job, reads the unprocessed
messages once, calls the engine, marks the batch and only then sends.  Both
workers run one job at a time per process (BullMQ's default concurrency: no
option sets another); several processes may run.  A process that dies leaves its
jobs active until the stalled checker of another, or of the restarted one, moves
them back, once (`maxStalledCount` 1).

What is hard, and what correctness means there:

* *Webhooks*: a call answered with 200 has queued every message of its body; a
  job always has a processed log behind it; a removed channel receives nothing.
* *Inbound*: an acknowledged event is stored or visibly failed; a repeated call
  or a retried job changes nothing that is stored; a contact has one ACTIVE
  conversation.
* *AI worker*: a message is answered at most once through crashes, stalls and
  retries; every scheduled message is settled; what runs concurrently with the
  model call (new messages, agents) is not lost or ignored; the audit log tells
  the truth.
* *Dispatcher*: a SENT row and a SUCCESS log only for what a provider accepted.
* *Memory*: the window plus the summaries still say everything, once, and the
  memory stays bounded.
* *Media*: what becomes of a medium is what one context says, although agents
  edit contexts meanwhile; nothing stays PROCESSING; what was transcribed is used.
* *Accounts*: one usable reset link per user, a link sets one password, an account
  that can always be verified and is verified by its own link only, sessions that
  end with a password change, counters that end.

The hazards of `PROJECT.json` list these at their lines.

## 2. Modules

| module | models | how it corresponds |
|---|---|---|
| `PipelineStore` | tables, queues, workers' locals | one variable per table or queue; `inw`, `aiw` hold the locals of the two `process` methods that survive an await, with a `pc` per await |
| `WebhookIntake` | `handleInbound`, `processInboundWebhook`, the five adapters, edits of channels | one action per await; `call` holds the locals of the handlers that run, `webhookLog` their rows, `job` what was ever added |
| `InboundPipeline` | webhook enqueue (one message per call, one step), `MessageInboundProcessor` and its steps | one action per round trip, in the order of the code |
| `AiResponder` | `AiResponseProcessor`, outcome of the engine, dispatcher | likewise; `InTry` says which awaits the `catch` covers |
| `MessagePipeline` | both, agents, crashes; properties, fairness, inductive invariant, refinement | `Next` interleaves all |
| `LateReplies` | the same, with a history of replies sent after an agent's intervention | `late` counts, per conversation, the dispatches since it was last live; no guard reads it; only proved about, as its steps are those of `MessagePipeline` |
| `ReplyContract` | what the pipeline promises per message | abstract specification: stored, settled, answered, once each |
| `MediaContract` | what a job promises about a medium | abstract specification of the status, implemented by `MediaWork` (every await of the processor) and by `MessagePipeline` (two steps of the whole pipeline) |
| `MediaWork` | the inbound job from its check of `aiEnabled` on: `MediaProcessorService.process`, downloader, transcribers; `AiContextService`, an agent's switch of the AI, `formatMessageForAi` | one action per await of `process`, after `ResolveConversation` for the job up to its check of `aiEnabled` and `Omit` for its return there; `work` holds its locals, `row` the media columns of the message, `ai` the flag of its conversation, `told` what the AI worker read |
| `Accounts` | every handler of `AuthService` that changes state, `EmailProcessor` | one action per await; `req` holds the locals of a request, `session`, `forgotCount`, `forgotTtl`, `resendLock` the Redis keys |
| `AiMemory` | `AiMemoryService` and `processMessage` for one conversation | entries are numbered in `createdAt` order; `Oldest` is ORDER BY ... LIMIT |
| `MCPipeline`, `MCIntake`, `MCMedia`, `MCAccounts` | values for TLC | |
| `PipelineTyping`, `MessagePipeline_proofs`, `PipelineSettling_proofs`, `PipelineRows_proofs`, `AiMemory_proofs`, `WebhookIntake_proofs`, `MediaWork_proofs`, `Accounts_proofs` | proofs | |

`InboundPipeline` treats the media processing as two steps with any outcome;
`MediaWork` opens them up, with the job's own retries, and takes what
precedes them in the job as one step that reads `aiEnabled`.  `Accounts` shares only the database and Redis with the rest.

Conventions of the model.

* **A row or a job is identified as in the code.**  `row` is indexed by the
  unique key (channel, externalId), `inJob` by its jobId, `aiJob` by the
  conversation.  One channel of one tenant is modelled.
* **Data are abstracted.**  A message is an event with a sender and an
  externalId; its text, the prompt and the reply are not there, only which
  messages a batch, a reply or a log covers.
* **Redis.**  `Queue.add` of a known jobId does nothing; `Queue.remove` does
  nothing to a locked job, and its errors are swallowed as in the code.  The
  `message-inbound` jobs stay in the completed or failed set until newer ones
  push them out (`EvictInbound`, for `removeOnComplete: 1000`).
* **Time is abstracted.**  A queued `ai-response` job may start at any moment, so
  whatever delay the debounce computes is covered; so are retry backoffs.  That
  a lock is renewed while its process lives is assumed: a stall happens to dead
  processes only.
* **Errors.**  `InboundThrow`, `AiCatch`, `AiThrow` may happen at every await.
  An error leaves the effect of the call undone; that a call takes effect and
  still reports an error is a crash or an error at the next await.  A sender's
  outcome is any of: delivered and acknowledged, delivered and reported as
  failed, not delivered, not even tried.
* **History variables** (`answered`, `accepted`, `scheduled`, `excused`,
  `exhausted`, `overrun`, `late`) are read by no guard.  Nor are two fields of rows and
  jobs: `opened` of a conversation, how it became ACTIVE (ALONE: by a worker when no
  other had found that there was none; RACE: when another had; AGENT: by an edit), and
  `omitted` of a job in `MediaWork`, that its last run found the AI off.
* **Webhook calls.**  In `WebhookIntake` a body is a sequence of entries of items,
  an item an id and its type on the wire; an adapter is the pair of channel type
  and provider that selects it, and what differs between the five is which types
  they recognise, for which they keep a URL, and what they drop.  That a signature
  is right is a Boolean of the call.  `job` records every job ever added: that old
  ones are evicted is `EvictInbound` of `InboundPipeline`.  A round trip that fails
  may have been applied, in PostgreSQL as in Redis.  A crash cuts every call that
  runs.  Bodies that are no JSON and unknown types in the URL are refused before
  anything is written, and left out.
* **Media.**  What a message is (type, channel, whether `mediaUrl` holds an id, a
  URL or nothing) is chosen at Init; `apiKey` stands for `mediaProcessorApiKey` and
  `mediaProcessorModel`, which belong to one provider both; `baseUrl` says that there
  is an `apiBaseUrl`, which the OpenAI client obeys as well as the custom one: it then
  calls a server that wants the key CUSTOM.  Which provider accepts
  which request is external: its own key and model, of the context or of the
  environment.  Every other failure of a download, a transcription or an update is
  a fault, inside the `try` (`Caught`) or outside (`Throw`), and so is a repeated
  webhook call.  `disturbed` remembers the messages that met one.  `AbortSignal`
  timeouts end in the catch; the two requests without one are assumed to return,
  as `fetch` gives up in the end.  The AI worker may read a message at any time,
  because another message of the conversation may have scheduled it; `after`
  remembers whether the message's own job had completed with the AI on.  The AI may
  be off at Init, and agents switch it at any time, within `Edits`.
* **Accounts.**  A token is the request that generated it, as `randomBytes` never
  repeats; so is a refresh token, although two that are signed within a second for
  one user are the same string in the code.  A link can be clicked once an e-mail
  has carried it.  `AUTH_BYPASS_EMAIL_VERIFICATION` is off.  A user's `isActive`
  is never changed by the code.  That a session ends by its time to live is left
  out: it can only remove what the properties are about.  `version` counts the
  passwords of a user, `overtaken` marks a request whose reading another one has
  outdated, `stop` is the await at which an error struck.
* `findUnique` of a conversation always finds it: nothing in the code deletes a
  conversation.  Every adapter sets `externalId`, so `MessagePersister` always
  upserts.  `clearMemory` has no caller.

## 3. Runs

`Budget` bounds the environment: webhook calls (`deliver`), process deaths
(`crash`), errors (`fault`), agents' edits (`edit`), evictions (`evict`).  Two
events suffice for every interaction of two messages: batching, arrival during a
run, two workers.  `redelivery` lets any two calls come with three messages, one of
them of another contact: a reply to the wrong contact takes two contacts, a late add
two messages of one, a repetition one message.  The identities are model
values; `redelivery` uses the symmetry of processes, of conversation ids, and of the two
messages of one contact.  No
run checks deadlock: with the budget spent and the queues empty the system rests.

| run | instance | what it shows |
|---|---|---|
| `failures` | 2 events, 1 conversation, 1 crash, 1 error | `PipelineInv` (the inductive invariant, with types), `AnsweredAtMostOnce`, `AcceptedNotLost`, `SuccessMeansDelivered`; `OnlyKnownWindowsStrand`: a scheduled message loses its run only by a late add, an error, a second stall, or a stop between remove and add |
| `redelivery` | 3 messages of 2 contacts, 2 processes, 2 conversations, 1 edit, 1 eviction | `ContractHolds` (refinement of `ReplyContract`), `StoredOnce`; `RepliesReachSender`: a reply goes to whoever wrote what it answers; `OnlyRacesSplit`: of two ACTIVE conversations of a contact one was opened in a race of two workers or by an agent; `TakeoverEndsReplies`: after an agent has taken the conversation only the run that had looked before may reply |
| `liveness_crash` | 2 events, 1 crash, fair | `AcceptedIsScheduled`, `ScheduledIsSettled` |
| `liveness_media` | a text and a media message, 1 error, fair | `AcceptedIsSettled`, from the webhook to the answer or the log, with retries and the unsupported-media branch; `SettledIsLogged`; `MediumDecidedOnce` (refinement of `MediaContract`) |
| `memory` | windows 5 and 6, 20 entries | `NothingForgotten`, `SummariesPrecede`, `ActiveBounded`, and `MemoryInv`; `PromptShowsMessage`: the prompt holds the message exactly while the active entries fit in the window; 20 entries are enough for summaries of summaries |
| `intake` | 2 calls, 3 channels (Messenger, Evolution, one without an adapter), 3 bodies, 2 failures, 1 edit | `AckedIsQueued`, `TracedToLog`, `RemovedIsSilent`, `LogTellsOutcome`, and `IntakeInv`; two calls that overlap in a message, or of which one repeats the other, are all the interference there is |
| `media` | an Evolution video, a Telegram picture or a Messenger recording; 2 processes, 2 contexts of 3 kinds, AI on or off, 1 edit of a context or of the AI, 2 faults, fair | `OneContextDecides`, `TranscriptionStaysUsable`, `ProcessingIsLive`, `MediaInv`; `DecidedWhenScheduled`: a job that found the AI on leaves a decided medium, one that found it off an untouched one; `MediaContractHolds` (refinement of `MediaContract`); `MediumIsDecided`: in the end, or the job has failed or found the AI off |
| `accounts` | 3 requests of any kind, a verified account and a free slug for its e-mail, 1 failure or crash | `LinkFollowsToken`, `OneOwner`, `VerifiedThroughLink`, `LinkSetsOnePassword`, `OneUsableLink`, `SessionEndsWithPassword`, `CounterEnds`, `AccountsInv` |
| `lost_wakeup` | 2 events, no failure | violated: `NothingStranded` |
| `colliding_ids` | two contacts, one externalId | violated: `AcceptedNotLost` |
| `unseen_message` | window 5 | violated: `PromptHasMessage` |
| `fallback_key` | the context's own OpenAI key, a video, no fault | violated: `FallbackTranscribes` |

Why the bounds of `media` and `accounts` are enough.  Media do not interfere: a job
touches its own row, so one message shows every interleaving of its runs with
edits, crashes and repeated calls; the three kinds and three settings (the keys of the
environment with videos unsupported; another server's URL and key with the fallback;
switched off) between them reach every branch of `process`; two faults let a retry or a second delivery fail
as well.  Two requests race and a third one has made the link they use, which is
what every property of `Accounts` needs; a fourth would make the run too long, and
the proofs cover it.

The violated properties are sentences of `src/docs` that the code does not keep:

* **A message can be left without an answer.**  It arrives while the run for its
  conversation is calling the model.  The re-add is ignored because the job is
  active, the run marks only the batch it had read, and no later run exists
  until the contact writes again (`message-inbound.processor.ts:108-119`).
* **Two chats with the same externalId**: Telegram numbers messages per chat, and
  jobId and unique key are per channel; the second message is acknowledged and
  dropped.
* **The model does not see the message it should answer** once more than
  `memoryWindowSize` entries are active: the window is the oldest part, not the
  latest.  With the default window this is the eleventh exchange, and the count
  never falls back below the window plus one.
* **The fallback transcriber is called with the other provider's key.**
  `media-processor.service.ts:118` passes the context's key and model whichever
  transcriber was chosen; Gemini refuses them and the medium is FAILED, although
  `create-ai-context.dto.ts:153` promises the fallback.

Some things the model makes plain and no run refutes: a hand-off or close during
the model call does not stop the reply, because `ai-response.processor.ts:73-76`
is the only check (but it is the last reply: `TakeoverEndsReplies`); a processed webhook log does not mean that all its messages
were queued, since it is written first; a summary is created last,
so it comes after the messages it precedes in the prompt's order and is itself
outside the window when it is written; and a repeated event whose conversation
was closed meanwhile leaves an empty ACTIVE conversation behind.

`arquitectura.md` describes three more things that the code, and so the models, do
otherwise.  A CLOSED conversation is not reopened (291): the next message opens a new
one.  Media are not processed before `aiEnabled` is looked at (294-295): the job returns
first, so a medium that arrives while the AI is off stays PENDING for ever, and when the
AI is on again the model is told that it cannot be processed.  There is no adapter for
webchat (343).

**Fairness.**  Weak fairness of each process's two workers (`InboundStep(p)`,
`AiStep(p)`): a living process keeps taking jobs and returning from awaits, which
NestJS and BullMQ do as long as the event loop runs and calls time out.  Weak
fairness of the stalled checker on each orphaned job: every worker runs it.
Nothing is assumed of providers, agents or errors.  In the liveness runs no
agent edits, so every conversation keeps its AI on: otherwise an accepted event
need not be scheduled.

`MediaSpec` assumes the same of `WorkStep(p)` and `Stalled(m)`.  `MediumIsDecided`
allows a job that has failed for good, by three attempts or a second stall, and one
that found the AI off, which never comes to its medium.  Since
faults are bounded and every awaited call returns, each run of a job ends.
`AccountsSpec` and `IntakeSpec` state no fairness: their properties are safety.

Also in the models: two processes, or an agent who reopens a chat, can leave a
contact with two ACTIVE conversations (`conversation-resolver.ts:17-33` is a check
without a unique key), in no other way (`OnlyRacesSplit`), and with no more of them than
there are processes and edits (`ActiveChatsBounded`, proved only); a chat handed to an agent (WAITING_HUMAN) gets a new
conversation with the next message, since only ACTIVE is looked for; and the
adapters read the first entry of a body only.

## 4. Proofs

All proofs are for any sets of events, contacts, conversations and processes, and
any `Budget`, under `StoreAssumption` (the constants have their types, `None` is
none of the values) and, for the memory, `MemoryAssumption` (windows between 2 and
`MaxWindow`; the DTO allows 5 to 50) and, for the webhooks, `IntakeAssumption`
(bodies are sequences of sequences of items, the constants have their types).
`MediaAssumption` and `AccountsAssumption` likewise only give the constants their
types.

| theorem | says |
|---|---|
| `PipelineInvariant` | `Spec => []PipelineInv` |
| `TypeCorrect`, `ReplyAtMostOnce`, `SuccessIsDelivered` | its parts `TypeOK`, `AnsweredAtMostOnce`, `SuccessMeansDelivered` |
| `NoAcceptedEventLost` | `AcceptedNotLost`, if `ExtIdOf` is injective: what `colliding_ids` shows to be needed |
| `RowsStayPut` | the action property `StoredOnce` |
| `ImplementsContract` | `Spec => ContractHolds`, the refinement |
| `WindowsAreKnown`, `SettledMessagesAreLogged` | `OnlyKnownWindowsStrand`, `SettledIsLogged` |
| `RepliesAreAddressed` | `RepliesReachSender` |
| `OnlyRacesSplitHolds` | `OnlyRacesSplit` |
| `ChatsAreRaces` | `ActiveChatsBounded`, if there are finitely many processes: a contact's ACTIVE conversations are at most the processes and the edits so far, with the workers about to create one counted in |
| `TakeoverIsFinal` | the action property `TakeoverEndsReplies` |
| `LateRepliesAreFew` | `LateSpec => []OneLateReply`: with a history that counts them, one reply at most |
| `MediumIsDecidedOnce` | `Spec => MediumDecidedOnce`, the refinement of `MediaContract` by the pipeline |
| `MemoryInvariant` | `MemorySpec => []MemoryInv` |
| `MemoryIsComplete`, `SummariesAreOlder`, `MemoryIsBounded` | its parts |
| `PromptIsExact` | `PromptShowsMessage` |
| `IntakeInvariant` | `IntakeSpec => []IntakeInv` |
| `AnswerMeansQueued`, `JobsAreTraced`, `RemovalIsFinal`, `LogsAreHonest` | its parts `AckedIsQueued`, `TracedToLog`, `RemovedIsSilent`, `LogTellsOutcome` |
| `MediaInvariant` | `MediaSpec => []MediaInv` |
| `OneContextDecidesHolds`, `TranscriptionStaysUsableHolds`, `DecidedWhenScheduledHolds`, `ProcessingIsLiveHolds` | its parts of these names |
| `ImplementsMediaContract` | `MediaSpec => MediaContractHolds`, the refinement of `MediaContract` by the processor |
| `FallbackNeedsGeminisKey` | `FallbackTranscribes`, if no context with the fallback on has another provider's key: what `fallback_key` shows to be needed |
| `AccountsInvariant` | `AccountsSpec => []AccountsInv` |
| `LinkFollowsTokenHolds`, `OneOwnerHolds`, `VerifiedThroughLinkHolds`, `LinkSetsOnePasswordHolds`, `OneUsableLinkHolds`, `SessionEndsWithPasswordHolds`, `CounterEndsHolds` | its parts of these names |

*Pipeline.*  `AnsweredAtMostOnce` is not inductive: that a run at "send" has an
unanswered batch follows from its having been unprocessed when it was marked,
and from nobody else working on the conversation.  So `PipelineInv` adds
`AiHolds` (a run holds its conversation's active job alone: this is what makes
the queue's one-job-per-jobId rule sufficient), `BatchState` (what is true of the
batch at each await) and `AnsweredIsSettled`.  A crash between mark and send is
harmless because the second start reads only unprocessed messages.
`InboundHolds`, `KeysMatch` and `JobProgress` do the same for the inbound job and
carry `AcceptedNotLost`; `DeliveryState` carries `SuccessMeansDelivered`.
`PipelineTyping` proves type correctness action by action;
`MessagePipeline_proofs` proves each conjunct over the actions that can disturb
it.  The refinement then maps the first `PersistMessage` of a row to `Store`, the two marks to `Settle`,
an accepted send to `Answer`, and everything else to a stutter.

*Settling.*  `PipelineSettling_proofs` builds on `PipelineInv`.  `OnlyKnownWindowsStrand`
is not inductive: it counts a worker between remove and add as a run to come, and
that holds only if its add finds no job.  `WindowInv` says so: such a worker covers
a message only while the conversation has no job, since any job that appeared in
between has read, or will read, the message itself.  What an inbound step, an AI
step, the stalled checker and a crash do to that cover is proved one by one
(`SafeInbound`, `SafeRun`, `SafeStalled`, `SafeCrash`).  `SettledIsLogged` follows from
`TraceInv`: the run that marked a message still owes it a log, and only an error or a
crash, which each spend a budget, breaks it off.

*Rows.*  `PipelineRows_proofs` builds on `PipelineInv`, too.

`RepliesReachSender` needs that what a worker holds between two awaits is right, too.
`ChatsOwned` says it of the conversation an inbound worker has resolved; that a
batch is of one conversation is `BatchState`.

`ActiveChatsBounded` already counts the workers that have found nothing and are
about to create (`Creators`), and so is inductive once the sets are known to be finite
(`ChatsCounted`): a worker becomes a creator only when no conversation is ACTIVE,
and then there are no more creators than processes; it leaves `Creators` as its
conversation joins `ActiveOf`; and an edit, which is counted, adds one at most.

`OnlyRacesSplit` is inductive with `CreatorsContest`: while some worker has found
nothing, every ACTIVE conversation has been opened since, beside that worker or by an
agent.  So whoever creates one beside an ACTIVE conversation creates it beside one that
is not ALONE, and whoever creates it while another waits to do the same marks it RACE.

`TakeoverEndsReplies` is a matter of single steps: a run becomes `Committed` only by
`LoadConversation`, which finds the conversation live (`CommitsNext`), and it holds its
conversation's only active job (`AiHolds`), so when it replies no other is committed.
`OneLateReply` adds these steps up over time, by a history variable, with `LateInv`:
after a late reply no run of the conversation is committed.

`MediumDecidedOnce` maps a fault (`budget` of an error, a crash or an eviction spent)
to "every medium is in trouble", so only an undisturbed run must be exact.  There
`MediaRowsInv` is needed: as long as nothing is spent, every active job has its
worker, and a medium is PENDING whose job is absent, waits, or has a worker that has
not come to the media step (`Untouched`).  Hence a worker that skips, starts or fails
a medium finds it as the contract asks.  After a fault it is enough that COMPLETED
follows PROCESSING: a worker that transcribes has its medium PROCESSING.

*Memory.*  `OldestSize` (exactly k entries are taken) is proved by a least
counterexample, from the well-foundedness of `<` on the naturals; with
`OldestIsPrefix` it gives that a summary leaves exactly `window` entries, all
younger than what it quotes.  `NothingForgotten` is inductive with `SaysWhat`.
`PromptShowsMessage` is `Recalled` (the message just added is active and the prompt is
the window) with two lemmas on the window: of few entries it takes all
(`OldestOfFew`), of more than it holds never the youngest (`OldestOfMany`).

*Webhooks.*  That a 200 means everything is queued follows from the loop: `CallState`
says, at each await, which log the call has written and that what is no longer to
do has a job.  `GoneState` says that a call to a removed channel gets no further
than its lookup, because a removed channel stays removed.  A step of one call can
only add jobs (`HandleEffects`), so the others stay good (`IdleGood`); the acting
one is treated action by action (`ActingGood`).

*Media.*  `OneContextDecides` says what a status is in the end; it is inductive
with `WorkState`, which says why a worker has come as far as it has (a worker about
to mark SKIPPED has found that its context does not admit the type, and so on) and
that it holds its job alone, and `RowState`, which says that nobody but the job's
only run has written to an undisturbed medium.  `DecidedWhenScheduled` follows from the
same two: a worker that leaves at "schedule" has decided its medium, and one that leaves
at "omit" has not come to it, so the medium is as the job found it (`LeftBy`).  A step concerns one message and
the worker that holds it; `Local` proves once that the others' parts of the
invariant are unharmed, so each action is left with `WorkerGood` of its own locals
and `RowGood` of its own row (`Advance`), or with letting the job go (`Release`).
`MediaContract` is then implemented action by action: `WorkState` knows that a
worker about to write COMPLETED finds PROCESSING, and that one about to decide an
undisturbed medium finds what it left.  `FallbackTranscribes` needs `Remembered`,
that a worker's context, and the one a row was decided under, has settings that a
tenant could choose.

*Accounts.*  The properties speak of what has been committed; what carries them are
the requests in between.  `RequestState` and `LinkState` say what a handler has read
and written at each await; `RegisterState` that at most one transaction per slug has
committed, `RaceState` that whoever still holds a link that is used up, or creates a
second reset token, is known to be overtaken, and `SessionState` that a session about
to be stored stands for the current password, is overtaken, or is about to be dropped.
No two conjuncts need the same facts about the 24 handlers, so these are collected
once: each `...Does` lemma says what an action does to the locals of its request, each
`...Tables` lemma what it does to the tables, and `StepMay` sums up what any step may
do (`Stable`, `Comes`, `Goes`, `Races`, `Proper`, `Tables`).  The conjuncts of
`AccountsInv` then follow from `StepMay` alone, without a look at the actions.

Model-checked only: the liveness properties, which are out of the prover's reach.

## 5. Not modelled, and the plan

Left out for good: wording, formatting, logging to the console, DTO validation,
Swagger, configuration, health checks, HTTP details of the providers.

Not modelled yet:

* **Contacts, tenants, messages, channels.**  CRUD around single rows, and the calls
  of the Evolution gateway; channels are in `WebhookIntake` as far as webhooks see
  them.
* **Soft delete.**  What reads see after a delete, on four models.
* **Senders.**  Their HTTP calls are one step with any outcome.
* `WebhookIntake` and `InboundPipeline` are not composed: the calls should refine
  `Deliver`, one step per added job.
