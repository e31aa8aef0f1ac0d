--------------------------- MODULE InboundPipeline ---------------------------
(***************************************************************************)
(* From the provider's webhook call to the scheduled AI job: the           *)
(* deduplicating enqueue of WebhooksController.handleInbound, and          *)
(* MessageInboundProcessor.process with its steps ContactResolver,         *)
(* ConversationResolver, MessagePersister, MediaProcessorService and       *)
(* scheduleAiResponse.  One action per database or Redis round trip: other *)
(* workers and the agents run between any two of them.                     *)
(***************************************************************************)
EXTENDS PipelineStore

Attempts == 3        \* webhooks.controller.ts: attempts

Goto(p, pc) == inw' = [inw EXCEPT ![p].pc = pc]

-----------------------------------------------------------------------------
\* Mutant: only a job that is waiting or active suppresses another.
DeliverAgain(e) ==
  LET id == ExtIdOf[e]
  IN /\ Spend("deliver")
     /\ inJob' = IF inJob[id].state \in {"absent", "completed"}
                 THEN [inJob EXCEPT ![id] = [NoInboundJob EXCEPT !.state = "queued",
                                                                 !.event = e]]
                 ELSE inJob
     /\ accepted' = accepted \cup {e}
     /\ UNCHANGED <<chatVars, row, aiJob, inw, aiw, replyVars, scheduled,
                    excused, exhausted>>

(* The webhook call.  The provider repeats it when it saw no 200.  A jobId  *)
(* that is still known, even in the completed or failed set, is not added.  *)
Deliver(e) ==
  LET id == ExtIdOf[e]
  IN /\ Spend("deliver")
     /\ inJob' = IF inJob[id].state = "absent"
                 THEN [inJob EXCEPT ![id] = [NoInboundJob EXCEPT !.state = "queued",
                                                                 !.event = e]]
                 ELSE inJob
     /\ accepted' = accepted \cup {e}
     /\ UNCHANGED <<chatVars, row, aiJob, inw, aiw, replyVars, scheduled,
                    excused, exhausted>>

\* removeOnComplete/removeOnFail 1000: newer jobs push this one out.
EvictInbound(id) ==
  /\ Spend("evict")
  /\ inJob[id].state \in {"completed", "failed"}
  /\ inJob' = [inJob EXCEPT ![id] = NoInboundJob]
  /\ UNCHANGED <<chatVars, row, aiJob, inw, aiw, replyVars, accepted, scheduled,
                 excused, exhausted>>

-----------------------------------------------------------------------------
InboundPick(p) ==
  /\ inw[p].pc = "idle"
  /\ \E id \in ExtIds :
       /\ inJob[id].state = "queued"
       /\ inJob' = [inJob EXCEPT ![id].state = "active"]
       /\ inw' = [inw EXCEPT ![p] = [IdleInbound EXCEPT !.pc = "contact", !.id = id]]
  /\ UNCHANGED <<chatVars, row, aiJob, aiw, replyVars, accepted, scheduled,
                 excused, exhausted, budget>>

Sender(p) == SenderOf[inJob[inw[p].id].event]

ResolveContact(p) ==
  /\ inw[p].pc = "contact"
  /\ contacts' = contacts \cup {Sender(p)}
  /\ Goto(p, "find")
  /\ UNCHANGED <<conv, newer, row, inJob, aiJob, aiw, replyVars, accepted,
                 scheduled, excused, exhausted, budget>>

\* Mutants: the conversation is not looked for; it is looked for without the
\* contact.
FindNothing(p) ==
  /\ inw[p].pc = "find"
  /\ Goto(p, "create")
  /\ UNCHANGED <<chatVars, row, inJob, aiJob, aiw, replyVars, accepted,
                 scheduled, excused, exhausted, budget>>
FindAnyone(p) ==
  LET active == {c \in Convs : conv[c].status = "ACTIVE"}
  IN /\ inw[p].pc = "find"
     /\ IF active = {} THEN Goto(p, "create")
        ELSE \E c \in Latest(active) :
               inw' = [inw EXCEPT ![p] = [@ EXCEPT !.pc = "persist", !.conv = c,
                                                   !.ai = conv[c].ai]]
     /\ UNCHANGED <<chatVars, row, inJob, aiJob, aiw, replyVars, accepted,
                    scheduled, excused, exhausted, budget>>

\* findFirst: aiEnabled is read here and used much later.
FindConversation(p) ==
  LET active == ActiveOf(Sender(p))
  IN /\ inw[p].pc = "find"
     /\ \/ /\ active = {}
           /\ Goto(p, "create")
        \/ \E c \in Latest(active) :
             inw' = [inw EXCEPT ![p] = [@ EXCEPT !.pc = "persist", !.conv = c,
                                                 !.ai = conv[c].ai]]
     /\ UNCHANGED <<chatVars, row, inJob, aiJob, aiw, replyVars, accepted,
                    scheduled, excused, exhausted, budget>>

\* Workers that have found no ACTIVE conversation of contact k.
Creators(k) == {p \in Procs : inw[p].pc = "create" /\ Sender(p) = k}

HowCreated(p) == IF Creators(Sender(p)) = {p} THEN "ALONE" ELSE "RACE"

CreateConversation(p) ==
  /\ inw[p].pc = "create"
  /\ \E c \in Convs :
       /\ conv[c].status = "NONE"
       /\ conv' = [conv EXCEPT ![c] = [status |-> "ACTIVE", ai |-> TRUE, contact |-> Sender(p),
                                       opened |-> HowCreated(p)]]
       /\ newer' = Touched(c)
       /\ inw' = [inw EXCEPT ![p] = [@ EXCEPT !.pc = "persist", !.conv = c,
                                               !.ai = TRUE]]
  /\ UNCHANGED <<contacts, row, inJob, aiJob, aiw, replyVars, accepted,
                 scheduled, excused, exhausted, budget>>

\* Mutant: the upsert's update moves the message to the conversation at hand.
PersistMoving(p) ==
  LET id == inw[p].id
  IN /\ inw[p].pc = "persist"
     /\ row' = [row EXCEPT ![id] = [(IF Exists(id) THEN row[id] ELSE NoMessage) EXCEPT
                                      !.event = inJob[id].event,
                                      !.conv = inw[p].conv]]
     /\ Goto(p, "touch")
     /\ UNCHANGED <<chatVars, inJob, aiJob, aiw, replyVars, accepted, scheduled,
                    excused, exhausted, budget>>

\* upsert by (channelId, externalId) with an empty update.
PersistMessage(p) ==
  LET id == inw[p].id
  IN /\ inw[p].pc = "persist"
     /\ row' = IF Exists(id) THEN row
               ELSE [row EXCEPT ![id] = [NoMessage EXCEPT
                                           !.event = inJob[id].event,
                                           !.conv = inw[p].conv]]
     /\ Goto(p, "touch")
     /\ UNCHANGED <<chatVars, inJob, aiJob, aiw, replyVars, accepted, scheduled,
                    excused, exhausted, budget>>

\* lastMessageAt, then the branch on the aiEnabled read in FindConversation.
TouchConversation(p) ==
  /\ inw[p].pc = "touch"
  /\ newer' = Touched(inw[p].conv)
  /\ Goto(p, IF ~inw[p].ai THEN "finish"
             ELSE IF IsMedia(inw[p].id) THEN "media" ELSE "remove")
  /\ UNCHANGED <<contacts, conv, row, inJob, aiJob, aiw, replyVars, accepted,
                 scheduled, excused, exhausted, budget>>

\* SKIPPED without an AiContext that allows the type, FAILED without a
\* mediaUrl, otherwise PROCESSING while it is downloaded and transcribed.
ProcessMedia(p) ==
  /\ inw[p].pc = "media"
  /\ \E status \in {"SKIPPED", "FAILED", "PROCESSING"} :
       /\ row' = [row EXCEPT ![inw[p].id].media = status]
       /\ Goto(p, IF status = "PROCESSING" THEN "transcribe" ELSE "remove")
  /\ UNCHANGED <<chatVars, inJob, aiJob, aiw, replyVars, accepted, scheduled,
                 excused, exhausted, budget>>

TranscribeMedia(p) ==
  /\ inw[p].pc = "transcribe"
  /\ \E status \in {"COMPLETED", "FAILED"} :
       row' = [row EXCEPT ![inw[p].id].media = status]
  /\ Goto(p, "remove")
  /\ UNCHANGED <<chatVars, inJob, aiJob, aiw, replyVars, accepted, scheduled,
                 excused, exhausted, budget>>

-----------------------------------------------------------------------------
(* scheduleAiResponse: remove the conversation's job, then add it again.    *)

\* Mutant: when the job cannot be removed, none is added either.
RemoveOrGiveUp(p) ==
  LET c == inw[p].conv
      locked == aiJob[c].state = "active"
  IN /\ inw[p].pc = "remove"
     /\ aiJob' = IF locked THEN aiJob ELSE [aiJob EXCEPT ![c] = NoAiJob]
     /\ Goto(p, IF locked THEN "finish" ELSE "add")
     /\ UNCHANGED <<chatVars, row, inJob, aiw, replyVars, accepted, scheduled,
                    excused, exhausted, budget>>

\* Queue.remove: a job locked by a worker stays; the lock of an orphan may or
\* may not have expired.  An error is swallowed (.catch).
RemoveAiJob(p) ==
  LET c == inw[p].conv
      Remove == aiJob' = [aiJob EXCEPT ![c] = NoAiJob]
  IN /\ inw[p].pc = "remove"
     /\ \/ aiJob[c].state # "active" /\ Remove /\ UNCHANGED budget
        \/ aiJob[c].state = "active" /\ UNCHANGED <<aiJob, budget>>
        \/ OrphanAi(c) /\ Remove /\ UNCHANGED budget
        \/ Spend("fault") /\ UNCHANGED aiJob
     /\ Goto(p, "add")
     /\ UNCHANGED <<chatVars, row, inJob, aiw, replyVars, accepted, scheduled,
                    excused, exhausted>>

\* The run of conversation c that is under way has not read its batch yet, or
\* will be started again.
WillRead(c) ==
  \/ aiJob[c].state = "queued"
  \/ OrphanAi(c)
  \/ \E p \in Procs : HoldsAi(p, c) /\ aiw[p].pc \in {"load", "skipRead", "read"}

\* Queue.add: ignored when the jobId is known.
AddAiJob(p) ==
  LET c    == inw[p].conv
      mine == {id \in {inw[p].id} : row[id].conv = c}
  IN /\ inw[p].pc = "add"
     /\ aiJob' = IF aiJob[c].state = "absent"
                 THEN [aiJob EXCEPT ![c] = [state |-> "queued", stalls |-> 0]]
                 ELSE aiJob
     /\ scheduled' = scheduled \cup mine
     /\ excused' = IF aiJob[c].state = "absent" \/ WillRead(c) THEN excused
                   ELSE excused \cup (mine \cap Pending(c))
     /\ Goto(p, "finish")
     /\ UNCHANGED <<chatVars, row, inJob, aiw, replyVars, accepted, exhausted,
                    budget>>

-----------------------------------------------------------------------------
FinishInbound(p) ==
  /\ inw[p].pc = "finish"
  /\ inJob' = [inJob EXCEPT ![inw[p].id].state = "completed"]
  /\ inw' = [inw EXCEPT ![p] = IdleInbound]
  /\ UNCHANGED <<chatVars, row, aiJob, aiw, replyVars, accepted, scheduled,
                 excused, exhausted, budget>>

\* What a worker that stops between remove and add leaves without a job.
Unscheduled(p) == IF inw[p].pc = "add" THEN Pending(inw[p].conv) ELSE {}

FailAttempt(job) ==
  [job EXCEPT !.state = IF job.attempts + 1 < Attempts THEN "queued" ELSE "failed",
              !.attempts = job.attempts + 1]

\* Mutant: the error is logged and swallowed, so the job completes.
InboundSwallow(p) ==
  /\ inw[p].pc \notin {"idle", "finish"}
  /\ Spend("fault")
  /\ inJob' = [inJob EXCEPT ![inw[p].id].state = "completed"]
  /\ excused' = excused \cup Unscheduled(p)
  /\ inw' = [inw EXCEPT ![p] = IdleInbound]
  /\ UNCHANGED <<chatVars, row, aiJob, aiw, replyVars, accepted, scheduled, exhausted>>

\* process rethrows: BullMQ retries with backoff until the attempts are used.
InboundThrow(p) ==
  LET id == inw[p].id
      again == FailAttempt(inJob[id]).state = "queued"
  IN /\ inw[p].pc \notin {"idle", "finish"}
     /\ Spend("fault")
     /\ inJob' = [inJob EXCEPT ![id] = FailAttempt(inJob[id])]
     /\ exhausted' = IF again THEN exhausted ELSE exhausted \cup {id}
     /\ excused' = excused \cup Unscheduled(p)
     /\ inw' = [inw EXCEPT ![p] = IdleInbound]
     /\ UNCHANGED <<chatVars, row, aiJob, aiw, replyVars, accepted, scheduled>>

\* The stalled checker, once the lock of a dead worker has expired.
InboundStalled(id) ==
  LET again == Stall(inJob[id]).state = "queued"
  IN /\ OrphanInbound(id)
     /\ inJob' = [inJob EXCEPT ![id] = Stall(inJob[id])]
     /\ exhausted' = IF again THEN exhausted ELSE exhausted \cup {id}
     /\ UNCHANGED <<chatVars, row, aiJob, inw, aiw, replyVars, accepted,
                    scheduled, excused, budget>>

InboundStep(p) ==
  \/ InboundPick(p) \/ ResolveContact(p) \/ FindConversation(p)
  \/ CreateConversation(p) \/ PersistMessage(p) \/ TouchConversation(p)
  \/ ProcessMedia(p) \/ TranscribeMedia(p) \/ RemoveAiJob(p) \/ AddAiJob(p)
  \/ FinishInbound(p) \/ InboundThrow(p)

InboundQueue ==
  \/ \E e \in Events : Deliver(e)
  \/ \E id \in ExtIds : EvictInbound(id) \/ InboundStalled(id)
=============================================================================
