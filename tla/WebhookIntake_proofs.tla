------------------------- MODULE WebhookIntake_proofs -------------------------
(***************************************************************************)
(* Proofs that a webhook call answered with 200 has queued what it read,   *)
(* that every job can be traced to a processed log, and that a removed     *)
(* channel receives nothing, for any number of calls, channels and bodies. *)
(***************************************************************************)
EXTENDS WebhookIntake, TLAPS

\* What normalizeInbound takes from a payload are positions of its first entry,
\* and each of them holds an item.
LEMMA MessagesType ==
  ASSUME NEW adapter, NEW body \in Bodies
  PROVE  /\ normalizeInbound(adapter, body) \subseteq Nat
         /\ \A i \in normalizeInbound(adapter, body) : Entry(body)[i] \in Item
<1>1. Payload[body] \in Seq(Seq(Item))
  BY IntakeAssumption DEF IntakeAssumption
<1>2. Entry(body) \in Seq(Item)
  BY <1>1 DEF Entry
<1> QED
  BY <1>2 DEF normalizeInbound

\* The message of an item is one.
LEMMA NormalizedType ==
  ASSUME NEW adapter, NEW item \in Item
  PROVE  Normalized(adapter, item) \in NormalizedMessage
<1>1. ContentTypeOf(adapter, item.wire) \in Wire
  BY DEF ContentTypeOf, Item, Wire
<1>2. HasUrl(adapter, item.wire) \in BOOLEAN
  BY DEF HasUrl
<1> QED
  BY <1>1, <1>2 DEF Normalized, NormalizedMessage, Item

\* A message is not the mark of an absent job.
LEMMA NormalizedExists ==
  ASSUME NEW adapter, NEW item \in Item
  PROVE  Normalized(adapter, item) # None
  BY NormalizedType, NoneIsNoMessage DEF NoneIsNoMessage

\* The initial state satisfies the invariant.
LEMMA IntakeInit == Init => IntakeInv
<1> SUFFICES ASSUME Init PROVE IntakeInv
  OBVIOUS
<1>1. IdleCall \in Call
  BY DEF IdleCall, Call, Pc, Answer, ChannelType
<1>2. TypeOK
  BY <1>1, IntakeAssumption
  DEF IntakeAssumption, Init, TypeOK, ChannelRow, LogState
<1>3. \A r \in Calls : CallState(r) /\ GoneState(r)
  BY DEF Init, CallState, GoneState, IdleCall
<1>4. AckedIsQueued /\ RemovedIsSilent /\ LogTellsOutcome
  BY DEF Init, AckedIsQueued, RemovedIsSilent, LogTellsOutcome, IdleCall
<1>5. TracedToLog
  BY DEF Init, TracedToLog
<1> QED
  BY <1>2, <1>3, <1>4, <1>5 DEF IntakeInv

-----------------------------------------------------------------------------
(* What one step may change. *)

\* The request a call serves, which no step of its handler changes once it runs.
Same(r) ==
  /\ call'[r].channel = call[r].channel /\ call'[r].body = call[r].body
  /\ call'[r].valid = call[r].valid /\ call'[r].gone = call[r].gone

\* An answered call is a call, for the same request.
LEMMA ReplyType ==
  ASSUME TypeOK, NEW r \in Calls, NEW answer \in Answer, Reply(r, answer)
  PROVE  /\ call' \in [Calls -> Call]
         /\ call'[r].pc = "done" /\ call'[r].answer = answer
         /\ Same(r) /\ call'[r].type = call[r].type /\ call'[r].todo = call[r].todo
<1>1. call[r] \in Call
  BY DEF TypeOK
<1>2. [call[r] EXCEPT !.pc = "done", !.answer = answer] \in Call
  BY <1>1 DEF Call, Pc
<1>3. call'[r] = [call[r] EXCEPT !.pc = "done", !.answer = answer]
  BY DEF Reply, TypeOK
<1>4. call' \in [Calls -> Call]
  BY <1>2 DEF Reply, TypeOK
<1> QED
  BY <1>1, <1>3, <1>4 DEF Call, Same

\* So is a call that goes on.
LEMMA GotoType ==
  ASSUME TypeOK, NEW r \in Calls, NEW pc \in Pc, Goto(r, pc)
  PROVE  /\ call' \in [Calls -> Call]
         /\ call'[r].pc = pc /\ call'[r].answer = call[r].answer
         /\ Same(r) /\ call'[r].type = call[r].type /\ call'[r].todo = call[r].todo
<1>1. call[r] \in Call
  BY DEF TypeOK
<1>2. [call[r] EXCEPT !.pc = pc] \in Call
  BY <1>1 DEF Call
<1>3. call'[r] = [call[r] EXCEPT !.pc = pc]
  BY DEF Goto, TypeOK
<1>4. call' \in [Calls -> Call]
  BY <1>2, <1>3 DEF Goto, TypeOK
<1> QED
  BY <1>1, <1>3, <1>4 DEF Call, Same

\* The messages of a call have job ids.
LEMMA JobIdType ==
  ASSUME NEW r \in Calls, call[r].channel \in Channels, call[r].body \in Bodies,
         NEW i \in Messages(r)
  PROVE  /\ JobId(r, i) \in Channels \X Ids
         /\ Entry(call[r].body)[i] \in Item
<1>1. Entry(call[r].body)[i] \in Item
  BY MessagesType DEF Messages
<1> QED
  BY <1>1 DEF JobId, Item

\* An add makes a job of a message of the call, and changes no job.
LEMMA AddJobType ==
  ASSUME TypeOK, NEW r \in Calls, call[r].channel \in Channels,
         call[r].body \in Bodies, NEW i \in Messages(r), AddJob(r, i)
  PROVE  /\ job' \in [Channels \X Ids -> NormalizedMessage \cup {None}]
         /\ job'[JobId(r, i)] # None
         /\ \A k \in Channels \X Ids :
              \/ job'[k] = job[k]
              \/ /\ k = JobId(r, i) /\ job[k] = None
                 /\ job'[k] = Normalized(Adapter(r), Entry(call[r].body)[i])
<1>1. JobId(r, i) \in Channels \X Ids /\ Entry(call[r].body)[i] \in Item
  BY JobIdType
<1>2. /\ Normalized(Adapter(r), Entry(call[r].body)[i]) \in NormalizedMessage
      /\ Normalized(Adapter(r), Entry(call[r].body)[i]) # None
  BY <1>1, NormalizedType, NormalizedExists
<1> QED
  BY <1>1, <1>2 DEF TypeOK, AddJob

\* The state of the calls that IntakeInv describes.
Calling == TypeOK /\ \A r \in Calls : CallState(r) /\ GoneState(r)

\* A step of a call leaves the channels and the other calls alone, and neither
\* removes nor overwrites a job; a new job is one of its messages.
LEMMA HandleEffects ==
  ASSUME Calling, NEW r \in Calls, Handle(r)
  PROVE  /\ channel' = channel /\ call[r].pc # "done"
         /\ \A s \in Calls \ {r} : call'[s] = call[s] /\ webhookLog'[s] = webhookLog[s]
         /\ job' \in [Channels \X Ids -> NormalizedMessage \cup {None}]
         /\ \A k \in Channels \X Ids :
              \/ job'[k] = job[k]
              \/ /\ job[k] = None /\ call[r].pc = "enqueue"
                 /\ \E i \in call[r].todo :
                      /\ k = JobId(r, i)
                      /\ job'[k] = Normalized(Adapter(r), Entry(call[r].body)[i])
<1>1. channel' = channel /\ call[r].pc # "done"
  BY DEF Handle, Receive, FindChannel, CreateLog, RejectCall, MarkProcessed,
     EnqueueMessage, AnswerOk, RoundTripFails, Running
<1>2. \A s \in Calls \ {r} : call'[s] = call[s]
  BY DEF Calling, TypeOK, Handle, Receive, FindChannel, CreateLog, RejectCall,
     MarkProcessed, EnqueueMessage, AnswerOk, RoundTripFails, Reply, Goto
<1>3. \A s \in Calls \ {r} : webhookLog'[s] = webhookLog[s]
  BY DEF Calling, TypeOK, Handle, Receive, FindChannel, CreateLog, RejectCall,
     MarkProcessed, EnqueueMessage, AnswerOk, RoundTripFails
<1>4. \/ job' = job
      \/ call[r].pc = "enqueue" /\ \E i \in call[r].todo : AddJob(r, i)
  BY DEF Handle, Receive, FindChannel, CreateLog, RejectCall, MarkProcessed,
     EnqueueMessage, AnswerOk, RoundTripFails
<1>5. CASE job' = job
  BY <1>1, <1>2, <1>3, <1>5 DEF Calling, TypeOK
<1>6. CASE call[r].pc = "enqueue" /\ \E i \in call[r].todo : AddJob(r, i)
  <2> PICK i \in call[r].todo : AddJob(r, i)
    BY <1>6
  <2>1. /\ call[r].channel \in Channels /\ call[r].body \in Bodies
        /\ i \in Messages(r)
    BY <1>6 DEF Calling, CallState
  <2>2. /\ job' \in [Channels \X Ids -> NormalizedMessage \cup {None}]
        /\ \A k \in Channels \X Ids :
             \/ job'[k] = job[k]
             \/ /\ k = JobId(r, i) /\ job[k] = None
                /\ job'[k] = Normalized(Adapter(r), Entry(call[r].body)[i])
    BY <2>1, AddJobType DEF Calling
  <2> QED
    BY <1>1, <1>2, <1>3, <1>6, <2>2
<1> QED
  BY <1>4, <1>5, <1>6

-----------------------------------------------------------------------------
(* The call that acts. *)

Queued(r) == \A i \in Messages(r) : job[JobId(r, i)] # None

\* What AckedIsQueued, RemovedIsSilent and LogTellsOutcome say of one call.
Outcome(r) ==
  /\ call[r].answer = "200" => Queued(r)
  /\ call[r].gone =>
       call[r].answer # "200" /\ webhookLog[r] = "absent" /\ call[r].todo = {}
  /\ webhookLog[r] = "rejected" => call[r].answer # "200" /\ call[r].todo = {}
  /\ webhookLog[r] = "processed" /\ ~Running(r) =>
       Queued(r) \/ call[r].answer \in {"500", "cut"}

Good(r) == /\ call[r] \in Call /\ webhookLog[r] \in LogState
           /\ CallState(r) /\ GoneState(r) /\ Outcome(r)

\* What has been queued stays queued.
LEMMA StaysQueued ==
  ASSUME Calling, NEW r \in Calls, Handle(r), NEW s \in Calls,
         Same(s), call'[s].type = call[s].type, call[s].pc # "idle",
         NEW i \in Messages(s), job[JobId(s, i)] # None
  PROVE  job'[JobId(s, i)'] # None
<1>1. call[s].channel \in Channels /\ call[s].body \in Bodies
  BY DEF Calling, CallState
<1>2. JobId(s, i) \in Channels \X Ids /\ JobId(s, i)' = JobId(s, i)
  BY <1>1, JobIdType DEF JobId, Same
<1> QED
  BY <1>2, HandleEffects

\* Receive starts a call in a good state.
LEMMA ReceiveGood ==
  ASSUME Calling, NEW r \in Calls, Outcome(r), Receive(r)
  PROVE  Good(r)'
<1> PICK c \in Channels, valid \in BOOLEAN, body \in Bodies :
      call'[r] = [pc |-> "find", channel |-> c, body |-> body, valid |-> valid,
                  type |-> "WHATSAPP", todo |-> {}, gone |-> channel[c].deleted,
                  answer |-> "none"]
  <2>1. PICK c \in Channels, valid \in BOOLEAN, body \in Bodies :
          call' = [call EXCEPT ![r] =
                     [IdleCall EXCEPT !.pc = "find", !.channel = c, !.body = body,
                                      !.valid = valid, !.gone = channel[c].deleted]]
    BY IntakeAssumption DEF IntakeAssumption, Receive
  <2>2. call'[r] = [IdleCall EXCEPT !.pc = "find", !.channel = c, !.body = body,
                                    !.valid = valid, !.gone = channel[c].deleted]
    BY <2>1 DEF Calling, TypeOK
  <2>3. call'[r] = [pc |-> "find", channel |-> c, body |-> body, valid |-> valid,
                    type |-> "WHATSAPP", todo |-> {}, gone |-> channel[c].deleted,
                    answer |-> "none"]
    BY <2>2 DEF IdleCall
  <2> QED
    BY <2>3
<1>1. channel[c].deleted \in BOOLEAN /\ channel' = channel
  BY DEF Calling, TypeOK, ChannelRow, Receive
<1>2. webhookLog' = webhookLog /\ webhookLog[r] = "absent"
  BY DEF Receive, Calling, CallState
<1>3. call'[r] \in Call
  BY <1>1 DEF Call, Pc, Answer, ChannelType
<1>4. CallState(r)'
  BY <1>2 DEF CallState
<1>5. GoneState(r)'
  BY <1>1 DEF GoneState
<1>6. Outcome(r)'
  BY <1>2 DEF Outcome, Running
<1> QED
  BY <1>2, <1>3, <1>4, <1>5, <1>6 DEF Good, LogState

\* The lookup finds only a channel that is still there.
LEMMA FindGood ==
  ASSUME Calling, NEW r \in Calls, Outcome(r), FindChannel(r)
  PROVE  Good(r)'
<1>1. /\ call[r].pc = "find" /\ webhookLog' = webhookLog /\ channel' = channel
      /\ webhookLog[r] = "absent" /\ call[r].todo = {}
      /\ call[r].channel \in Channels /\ call[r].body \in Bodies
      /\ call[r].answer = "none"
  BY DEF FindChannel, Calling, CallState
<1>2. CASE Reply(r, "404")
  <2>1. /\ call' \in [Calls -> Call] /\ call'[r].pc = "done" /\ Same(r)
        /\ call'[r].answer = "404" /\ call'[r].todo = {}
    BY <1>1, <1>2, ReplyType DEF Calling, Answer
  <2> QED
    BY <1>1, <2>1
    DEF Good, Calling, TypeOK, CallState, GoneState, Outcome, Same, LogState
<1>3. CASE /\ IsLive(call[r].channel)
           /\ call' = [call EXCEPT ![r] = [@ EXCEPT !.pc = "log",
                                     !.type = channel[call[r].channel].type]]
  <2>1. call[r] \in Call /\ channel[call[r].channel].type \in ChannelType
    BY <1>1 DEF Calling, TypeOK, ChannelRow
  <2>2. call'[r] = [call[r] EXCEPT !.pc = "log",
                                   !.type = channel[call[r].channel].type]
    BY <1>3 DEF Calling, TypeOK
  <2>3. call'[r] \in Call
    BY <2>1, <2>2 DEF Call, Pc
  <2>4. /\ call'[r].pc = "log" /\ call'[r].answer = "none" /\ Same(r)
        /\ call'[r].todo = {}
    BY <1>1, <2>1, <2>2 DEF Call, Same
  <2>5. ~call[r].gone
    BY <1>3 DEF Calling, GoneState, IsLive
  <2> QED
    BY <1>1, <2>3, <2>4, <2>5
    DEF Good, Calling, TypeOK, CallState, GoneState, Outcome, Same, LogState
<1> QED
  BY <1>2, <1>3 DEF FindChannel

\* After webhookLog.create the call ends, or knows what it has to queue.
LEMMA CreateLogGood ==
  ASSUME Calling, NEW r \in Calls, Outcome(r), CreateLog(r)
  PROVE  Good(r)'
<1>1. /\ call[r].pc = "log" /\ channel' = channel /\ webhookLog'[r] = "stored"
      /\ call[r].channel \in Channels /\ call[r].body \in Bodies
      /\ call[r].todo = {} /\ call[r].answer = "none" /\ ~call[r].gone
      /\ call[r] \in Call
  BY DEF CreateLog, Calling, TypeOK, CallState, GoneState
<1>2. CASE Reply(r, "500")
  <2>1. /\ call' \in [Calls -> Call] /\ call'[r].pc = "done" /\ Same(r)
        /\ call'[r].answer = "500" /\ call'[r].todo = {}
    BY <1>1, <1>2, ReplyType DEF Calling, Answer
  <2> QED
    BY <1>1, <2>1 DEF Good, CallState, GoneState, Outcome, Same, LogState
<1>3. CASE Goto(r, "reject")
  <2>1. /\ call' \in [Calls -> Call] /\ call'[r].pc = "reject" /\ Same(r)
        /\ call'[r].answer = "none" /\ call'[r].todo = {}
    BY <1>1, <1>3, GotoType DEF Calling, Pc
  <2> QED
    BY <1>1, <2>1 DEF Good, CallState, GoneState, Outcome, Same, LogState
<1>4. CASE /\ call[r].valid
           /\ call' = [call EXCEPT ![r] = [@ EXCEPT !.pc = "mark",
                                                    !.todo = Messages(r)]]
  <2>1. call'[r] = [call[r] EXCEPT !.pc = "mark", !.todo = Messages(r)]
    BY <1>4 DEF Calling, TypeOK
  <2>2. Messages(r) \subseteq Nat
    BY <1>1, MessagesType DEF Messages
  <2>3. call'[r] \in Call
    BY <1>1, <2>1, <2>2 DEF Call, Pc
  <2>4. /\ call'[r].pc = "mark" /\ call'[r].answer = "none" /\ Same(r)
        /\ call'[r].todo = Messages(r) /\ call'[r].type = call[r].type
    BY <1>1, <2>1 DEF Call, Same
  <2>5. Messages(r)' = Messages(r)
    BY <2>4 DEF Messages, Adapter, Same
  <2>6. CallState(r)'
    BY <1>1, <1>4, <2>4, <2>5 DEF CallState, Same
  <2>7. GoneState(r)' /\ Outcome(r)'
    BY <1>1, <2>4 DEF GoneState, Outcome, Same
  <2> QED
    BY <1>1, <2>3, <2>6, <2>7 DEF Good, LogState
<1> QED
  BY <1>2, <1>3, <1>4 DEF CreateLog

\* A rejection is logged and answered in one step.
LEMMA RejectGood ==
  ASSUME Calling, NEW r \in Calls, Outcome(r), RejectCall(r)
  PROVE  Good(r)'
<1>1. /\ call[r].pc = "reject" /\ channel' = channel /\ webhookLog'[r] = "rejected"
      /\ call[r].channel \in Channels /\ call[r].body \in Bodies
      /\ call[r].todo = {} /\ ~call[r].gone
  BY DEF RejectCall, Calling, TypeOK, CallState, GoneState
<1>2. /\ call' \in [Calls -> Call] /\ call'[r].pc = "done" /\ Same(r)
      /\ call'[r].answer = "401" /\ call'[r].todo = {}
  BY <1>1, ReplyType DEF RejectCall, Calling, Answer
<1> QED
  BY <1>1, <1>2 DEF Good, CallState, GoneState, Outcome, Same, LogState

\* The log is marked before anything is queued.
LEMMA MarkGood ==
  ASSUME Calling, NEW r \in Calls, Outcome(r), MarkProcessed(r)
  PROVE  Good(r)'
<1>1. /\ call[r].pc = "mark" /\ webhookLog'[r] = "processed"
      /\ call[r].channel \in Channels /\ call[r].body \in Bodies
      /\ call[r].todo = Messages(r) /\ ~call[r].gone /\ call[r].valid
      /\ call[r].answer = "none"
  BY DEF MarkProcessed, Calling, TypeOK, CallState, GoneState
<1>2. /\ call' \in [Calls -> Call] /\ call'[r].pc = "enqueue" /\ Same(r)
      /\ call'[r].answer = "none" /\ call'[r].todo = call[r].todo
      /\ call'[r].type = call[r].type
  BY <1>1, GotoType DEF MarkProcessed, Calling, Pc
<1>3. Messages(r)' = Messages(r)
  BY <1>2 DEF Messages, Adapter, Same
<1>4. CallState(r)'
  BY <1>1, <1>2, <1>3 DEF CallState, Same
<1>5. GoneState(r)' /\ Outcome(r)'
  BY <1>1, <1>2 DEF GoneState, Outcome, Same, Running
<1> QED
  BY <1>1, <1>2, <1>4, <1>5 DEF Good, LogState

\* An add takes one message off the list once it has a job.
LEMMA EnqueueGood ==
  ASSUME Calling, NEW r \in Calls, Outcome(r), EnqueueMessage(r)
  PROVE  Good(r)'
<1> PICK i \in call[r].todo :
      AddJob(r, i) /\ call' = [call EXCEPT ![r].todo = @ \ {i}]
  BY DEF EnqueueMessage
<1>1. /\ call[r].pc = "enqueue" /\ webhookLog' = webhookLog
      /\ webhookLog[r] = "processed" /\ channel' = channel
      /\ call[r].channel \in Channels /\ call[r].body \in Bodies
      /\ call[r].todo \subseteq Messages(r) /\ ~call[r].gone /\ call[r].valid
      /\ call[r].answer = "none" /\ call[r] \in Call
  BY DEF EnqueueMessage, Calling, TypeOK, CallState, GoneState
<1>2. call'[r] = [call[r] EXCEPT !.todo = call[r].todo \ {i}]
  BY DEF Calling, TypeOK
<1>3. /\ call'[r] \in Call /\ Same(r) /\ call'[r].type = call[r].type
      /\ call'[r].pc = "enqueue" /\ call'[r].answer = "none"
      /\ call'[r].todo = call[r].todo \ {i}
  <2>1. call[r].todo \ {i} \in SUBSET Nat
    BY <1>1 DEF Call
  <2>2. call'[r] \in Call
    BY <1>1, <1>2, <2>1 DEF Call
  <2>3. call[r] \in Call /\ call[r].pc = "enqueue" /\ call[r].answer = "none"
    BY <1>1
  <2>4. /\ Same(r) /\ call'[r].type = call[r].type
        /\ call'[r].pc = "enqueue" /\ call'[r].answer = "none"
    BY <1>2, <2>3 DEF Call, Same
  <2>5. call'[r].todo = call[r].todo \ {i}
    BY <1>2, <2>3 DEF Call
  <2> QED
    BY <2>2, <2>4, <2>5
<1>4. Messages(r)' = Messages(r)
  BY <1>3 DEF Messages, Adapter, Same
<1>5. \A j \in Messages(r) \ call'[r].todo : job'[JobId(r, j)'] # None
  <2> TAKE j \in Messages(r) \ call'[r].todo
  <2>1. CASE j = i
    <3>1. job'[JobId(r, i)] # None
      BY <1>1, AddJobType DEF Calling
    <3> QED
      BY <2>1, <3>1, <1>3 DEF JobId, Same
  <2>2. CASE j # i
    <3>1. job[JobId(r, j)] # None
      BY <1>1, <1>3, <2>2 DEF Calling, CallState
    <3> QED
      BY <1>1, <1>3, <3>1, StaysQueued DEF Handle
  <2> QED
    BY <2>1, <2>2
<1>6. CallState(r)'
  BY <1>1, <1>3, <1>4, <1>5 DEF CallState, Same
<1>7. GoneState(r)' /\ Outcome(r)'
  BY <1>1, <1>3 DEF GoneState, Outcome, Same, Running
<1> QED
  BY <1>1, <1>3, <1>6, <1>7 DEF Good, LogState

\* The answer 200 finds nothing left to queue.
LEMMA AnswerGood ==
  ASSUME Calling, NEW r \in Calls, Outcome(r), AnswerOk(r)
  PROVE  Good(r)'
<1>1. /\ call[r].pc = "enqueue" /\ webhookLog' = webhookLog /\ job' = job
      /\ webhookLog[r] = "processed" /\ channel' = channel
      /\ call[r].channel \in Channels /\ call[r].body \in Bodies
      /\ call[r].todo = {} /\ ~call[r].gone
  BY DEF AnswerOk, Calling, TypeOK, CallState, GoneState
<1>2. /\ call' \in [Calls -> Call] /\ call'[r].pc = "done" /\ Same(r)
      /\ call'[r].answer = "200" /\ call'[r].type = call[r].type
      /\ call'[r].todo = {}
  BY <1>1, ReplyType DEF AnswerOk, Calling, Answer
<1>3. Queued(r)
  BY <1>1 DEF Calling, CallState, Queued
<1>4. Queued(r)'
  BY <1>1, <1>2, <1>3 DEF Queued, Messages, Adapter, JobId, Same
<1>5. CallState(r)' /\ GoneState(r)'
  BY <1>1, <1>2 DEF CallState, GoneState, Same
<1>6. Outcome(r)'
  BY <1>1, <1>2, <1>4 DEF Outcome, Same
<1> QED
  BY <1>1, <1>2, <1>5, <1>6 DEF Good, LogState

\* A call that ends without an answer of its own leaves what it has written.
LEMMA EndGood ==
  ASSUME Calling, NEW r \in Calls, Outcome(r), Running(r),
         webhookLog'[r] \in {webhookLog[r], LogAfter(r)}, call'[r] \in Call, Same(r), call'[r].todo = call[r].todo,
         call'[r].pc = "done", call'[r].answer \in {"500", "cut"},
         channel' = channel
  PROVE  Good(r)'
<1>1. call[r].channel \in Channels /\ call[r].body \in Bodies
  BY DEF Calling, CallState, Running
<1>2. /\ webhookLog'[r] \in LogState
      /\ webhookLog'[r] = "rejected" => call[r].todo = {}
      /\ call[r].gone => webhookLog'[r] = "absent" /\ call[r].todo = {}
  BY DEF Calling, TypeOK, CallState, GoneState, Running, Call, Pc, LogState, LogAfter
<1>3. CallState(r)'
  BY <1>1 DEF CallState, Same
<1>4. GoneState(r)'
  BY DEF Calling, GoneState, Same
<1>5. Outcome(r)'
  BY <1>2 DEF Outcome, Same, Calling, CallState, GoneState, Running, TypeOK, Call
<1> QED
  BY <1>2, <1>3, <1>4, <1>5 DEF Good

\* A failing round trip is answered with 500.
LEMMA FailGood ==
  ASSUME Calling, NEW r \in Calls, Outcome(r), RoundTripFails(r)
  PROVE  Good(r)'
<1>1. /\ call' \in [Calls -> Call] /\ call'[r].pc = "done" /\ Same(r)
      /\ call'[r].answer = "500" /\ call'[r].todo = call[r].todo
  BY ReplyType DEF RoundTripFails, Calling, Answer
<1>2. webhookLog'[r] \in {webhookLog[r], LogAfter(r)}
  BY DEF RoundTripFails, Calling, TypeOK
<1> QED
  BY <1>1, <1>2, EndGood DEF RoundTripFails

\* Every step of a call leaves it good.
LEMMA ActingGood ==
  ASSUME Calling, NEW r \in Calls, Outcome(r), Handle(r)
  PROVE  Good(r)'
  BY ReceiveGood, FindGood, CreateLogGood, RejectGood, MarkGood, EnqueueGood,
     AnswerGood, FailGood
  DEF Handle

\* A call that does not act stays good: its jobs remain, removals are for ever.
LEMMA IdleGood ==
  ASSUME Calling, NEW s \in Calls, Outcome(s),
         call'[s] = call[s], webhookLog'[s] = webhookLog[s],
         \A k \in Channels \X Ids : job[k] # None => job'[k] # None,
         \A c \in Channels : channel[c].deleted => channel'[c].deleted
  PROVE  Good(s)'
<1>1. call[s] \in Call /\ webhookLog[s] \in LogState
  BY DEF Calling, TypeOK
<1>2. Messages(s)' = Messages(s)
  BY DEF Messages, Adapter
<1>3. CASE call[s].pc = "idle"
  <2>1. ~call[s].gone /\ webhookLog[s] = "absent" /\ call[s].answer = "none"
    BY <1>3 DEF Calling, CallState, GoneState
  <2> QED
    BY <1>1, <1>3, <2>1 DEF Good, Calling, CallState, GoneState, Outcome
<1>4. CASE call[s].pc # "idle"
  <2>1. call[s].channel \in Channels /\ call[s].body \in Bodies
    BY <1>4 DEF Calling, CallState
  <2>2. \A i \in Messages(s) : job[JobId(s, i)] # None => job'[JobId(s, i)'] # None
    <3> TAKE i \in Messages(s)
    <3>1. JobId(s, i) \in Channels \X Ids /\ JobId(s, i)' = JobId(s, i)
      BY <2>1, JobIdType DEF JobId
    <3> QED
      BY <3>1
  <2>3. CallState(s)'
    BY <1>2, <2>2 DEF Calling, CallState
  <2>4. GoneState(s)'
    BY <2>1 DEF Calling, GoneState
  <2>5. Queued(s) => Queued(s)'
    BY <1>2, <2>2 DEF Queued
  <2>6. Outcome(s)'
    BY <2>5 DEF Outcome, Running
  <2> QED
    BY <1>1, <2>3, <2>4, <2>6 DEF Good
<1> QED
  BY <1>3, <1>4

-----------------------------------------------------------------------------
(* All calls. *)

\* The properties of the answers are those of each call.
LEMMA OutcomeOfAll ==
  (\A r \in Calls : Outcome(r)) <=> AckedIsQueued /\ RemovedIsSilent /\ LogTellsOutcome
  BY DEF Outcome, Queued, AckedIsQueued, RemovedIsSilent, LogTellsOutcome

\* What the steps below establish of the next state.
LEMMA GoodInv ==
  ASSUME TypeOK', TracedToLog', \A r \in Calls : Good(r)'
  PROVE  IntakeInv'
<1>1. (AckedIsQueued /\ RemovedIsSilent /\ LogTellsOutcome)'
  BY DEF Good, Outcome, Queued, AckedIsQueued, RemovedIsSilent, LogTellsOutcome
<1> QED
  BY <1>1 DEF IntakeInv, Good

\* A step of a call keeps every job traceable: a processed log stays so.
LEMMA HandleTraced ==
  ASSUME Calling, TracedToLog, NEW r \in Calls, Handle(r), Good(r)'
  PROVE  TracedToLog'
<1> SUFFICES ASSUME NEW k \in Channels \X Ids, job'[k] # None
             PROVE  \E s \in Calls :
                      /\ webhookLog'[s] = "processed" /\ call'[s].valid
                      /\ \E i \in Messages(s)' :
                           /\ JobId(s, i)' = k
                           /\ job'[k] = Normalized(Adapter(s), Entry(call[s].body)[i])'
  BY DEF TracedToLog
\* A call whose log is processed keeps its request and its log in a step.
<1>1. ASSUME NEW s \in Calls, webhookLog[s] = "processed"
      PROVE  /\ webhookLog'[s] = "processed" /\ Same(s)
             /\ call'[s].type = call[s].type
  <2>1. CASE s # r
    BY <1>1, <2>1, HandleEffects DEF Same
  <2>2. CASE s = r
    <3>1. call[r].pc = "enqueue"
      BY <1>1, <2>2, HandleEffects DEF Calling, TypeOK, CallState, Call, Pc
    <3>2. CASE EnqueueMessage(r)
      BY <1>1, <2>2, <3>2 DEF EnqueueMessage, Calling, TypeOK, Call, Same
    <3>3. CASE AnswerOk(r)
      BY <1>1, <2>2, <3>3, ReplyType DEF AnswerOk, Calling, Answer
    <3>4. CASE RoundTripFails(r)
      <4>1. LogAfter(r) = "processed" /\ Calling
        BY <1>1, <2>2, <3>1 DEF LogAfter
      <4>2. webhookLog'[r] = "processed"
        BY <1>1, <2>2, <3>4, <4>1 DEF RoundTripFails, Calling, TypeOK
      <4> QED
        BY <2>2, <3>4, <4>2, ReplyType DEF RoundTripFails, Calling, Answer
    <3> QED
      BY <3>1, <3>2, <3>3, <3>4
      DEF Handle, Receive, FindChannel, CreateLog, RejectCall, MarkProcessed
  <2> QED
    BY <2>1, <2>2
<1>2. ASSUME NEW s \in Calls, webhookLog[s] = "processed", call[s].valid,
             NEW i \in Messages(s), JobId(s, i) = k,
             job'[k] = Normalized(Adapter(s), Entry(call[s].body)[i])
      PROVE  /\ webhookLog'[s] = "processed" /\ call'[s].valid
             /\ i \in Messages(s)' /\ JobId(s, i)' = k
             /\ job'[k] = Normalized(Adapter(s), Entry(call[s].body)[i])'
  BY <1>1, <1>2 DEF Same, Messages, Adapter, JobId, Normalized
<1>3. CASE job'[k] = job[k]
  BY <1>2, <1>3 DEF TracedToLog
<1>4. CASE job'[k] # job[k]
  <2>1. PICK i \in call[r].todo :
          /\ k = JobId(r, i) /\ call[r].pc = "enqueue"
          /\ job'[k] = Normalized(Adapter(r), Entry(call[r].body)[i])
    BY <1>4, HandleEffects
  <2>2. webhookLog[r] = "processed" /\ call[r].valid /\ i \in Messages(r)
    BY <2>1 DEF Calling, CallState
  <2> QED
    BY <1>2, <2>1, <2>2
<1> QED
  BY <1>3, <1>4

\* A step of a call keeps the invariant.
LEMMA HandleInv ==
  ASSUME IntakeInv, NEW r \in Calls, Handle(r)
  PROVE  IntakeInv'
<1>1. Calling /\ \A s \in Calls : Outcome(s)
  BY OutcomeOfAll DEF IntakeInv, Calling
<1>2. \A k \in Channels \X Ids : job[k] # None => job'[k] # None
  BY <1>1, HandleEffects
<1>3. ASSUME NEW s \in Calls PROVE Good(s)'
  <2>1. CASE s = r
    BY <1>1, <2>1, ActingGood
  <2>2. CASE s # r
    <3>1. /\ call'[s] = call[s] /\ webhookLog'[s] = webhookLog[s]
          /\ channel' = channel
      BY <1>1, <2>2, HandleEffects
    <3> QED
      BY <1>1, <1>2, <3>1, IdleGood
  <2> QED
    BY <2>1, <2>2
<1>4. TypeOK'
  <2>1. /\ channel' \in [Channels -> ChannelRow]
        /\ job' \in [Channels \X Ids -> NormalizedMessage \cup {None}]
    BY <1>1, HandleEffects DEF Calling, TypeOK
  <2>2. DOMAIN call' = Calls /\ DOMAIN webhookLog' = Calls
    BY <1>1 DEF Calling, TypeOK, Handle, Receive, FindChannel, CreateLog, RejectCall,
       MarkProcessed, EnqueueMessage, AnswerOk, RoundTripFails, Reply, Goto
  <2>3. /\ call' = [s \in Calls |-> call'[s]]
        /\ webhookLog' = [s \in Calls |-> webhookLog'[s]]
    BY <1>1, <2>2 DEF Calling, TypeOK, Handle, Receive, FindChannel, CreateLog,
       RejectCall, MarkProcessed, EnqueueMessage, AnswerOk, RoundTripFails, Reply, Goto
  <2>4. call' \in [Calls -> Call] /\ webhookLog' \in [Calls -> LogState]
    BY <1>3, <2>3 DEF Good
  <2>5. faults' \in Nat /\ edits' \in Nat
    <3>1. faults \in Nat /\ edits \in Nat
      BY <1>1 DEF Calling, TypeOK
    <3>2. faults' \in {faults, faults + 1} /\ edits' = edits
      BY DEF Handle, Receive, FindChannel, CreateLog, RejectCall, MarkProcessed,
         EnqueueMessage, AnswerOk, RoundTripFails
    <3> QED
      BY <3>1, <3>2
  <2> QED
    BY <2>1, <2>4, <2>5 DEF TypeOK
<1>5. TracedToLog'
  BY <1>1, <1>3, HandleTraced DEF IntakeInv
<1> QED
  BY <1>3, <1>4, <1>5, GoodInv

\* A step that changes no job and no log keeps every job traceable if it keeps
\* every call's request.
LEMMA QuietTraced ==
  ASSUME TracedToLog, UNCHANGED <<webhookLog, job>>,
         \A s \in Calls : Same(s) /\ call'[s].type = call[s].type
  PROVE  TracedToLog'
<1>1. ASSUME NEW s \in Calls
      PROVE  /\ Messages(s)' = Messages(s) /\ call'[s].valid = call[s].valid
             /\ \A i \in Messages(s) :
                  /\ JobId(s, i)' = JobId(s, i)
                  /\ Normalized(Adapter(s), Entry(call[s].body)[i])'
                       = Normalized(Adapter(s), Entry(call[s].body)[i])
  BY DEF Same, Messages, Adapter, JobId, Normalized
<1> QED
  BY <1>1 DEF TracedToLog

\* A crash answers nobody.
LEMMA CrashInv ==
  ASSUME IntakeInv, Crash
  PROVE  IntakeInv'
<1>1. Calling /\ \A s \in Calls : Outcome(s)
  BY OutcomeOfAll DEF IntakeInv, Calling
<1>2. UNCHANGED <<channel, webhookLog, job>>
  BY DEF Crash
<1>3. ASSUME NEW s \in Calls
      PROVE  Good(s)' /\ Same(s) /\ call'[s].type = call[s].type
  <2>1. call[s] \in Call
    BY <1>1 DEF Calling, TypeOK
  <2>2. CASE Running(s)
    <3>1. call'[s] = [call[s] EXCEPT !.pc = "done", !.answer = "cut"]
      BY <2>2 DEF Crash
    <3>2. call'[s] \in Call
      BY <2>1, <3>1 DEF Call, Pc, Answer
    <3>3. /\ Same(s) /\ call'[s].type = call[s].type /\ call'[s].todo = call[s].todo
          /\ call'[s].pc = "done" /\ call'[s].answer = "cut"
      BY <2>1, <3>1 DEF Call, Same
    <3> QED
      BY <1>1, <1>2, <2>2, <3>2, <3>3, EndGood
  <2>3. CASE ~Running(s)
    <3>1. call'[s] = call[s]
      BY <2>3 DEF Crash
    <3> QED
      BY <1>1, <1>2, <3>1, IdleGood DEF Same
  <2> QED
    BY <2>2, <2>3
<1>4. TypeOK'
  <2>1. call' = [s \in Calls |-> call'[s]]
    BY DEF Crash
  <2>2. call' \in [Calls -> Call]
    BY <1>3, <2>1 DEF Good
  <2>3. faults \in Nat /\ faults' = faults + 1 /\ edits' = edits
    BY <1>1 DEF Calling, TypeOK, Crash
  <2>4. faults' \in Nat
    BY <2>3
  <2> QED
    BY <1>1, <1>2, <2>2, <2>3, <2>4 DEF Calling, TypeOK
<1>5. TracedToLog'
  BY <1>2, <1>3, QuietTraced DEF IntakeInv
<1> QED
  BY <1>3, <1>4, <1>5, GoodInv

\* An agent's edit touches channel rows only, and never brings one back.
LEMMA EditInv ==
  ASSUME IntakeInv, NEW c \in Channels, UpdateChannel(c) \/ RemoveChannel(c)
  PROVE  IntakeInv'
<1>1. Calling /\ \A s \in Calls : Outcome(s)
  BY OutcomeOfAll DEF IntakeInv, Calling
<1>2. UNCHANGED <<call, webhookLog, job, faults>> /\ edits' \in Nat
  <2>1. edits \in Nat
    BY <1>1 DEF Calling, TypeOK
  <2>2. UNCHANGED <<call, webhookLog, job, faults>> /\ edits' = edits + 1
    BY DEF UpdateChannel, RemoveChannel
  <2> QED
    BY <2>1, <2>2
<1>3. /\ channel' \in [Channels -> ChannelRow]
      /\ \A d \in Channels : channel[d].deleted => channel'[d].deleted
  BY <1>1 DEF UpdateChannel, RemoveChannel, Calling, TypeOK, ChannelRow
<1>4. \A s \in Calls : Good(s)'
  BY <1>1, <1>2, <1>3, IdleGood
<1>5. TypeOK'
  BY <1>1, <1>2, <1>3 DEF Calling, TypeOK
<1>6. TracedToLog'
  BY <1>2, QuietTraced DEF IntakeInv, Same
<1> QED
  BY <1>4, <1>5, <1>6, GoodInv

\* A stutter changes nothing that the invariant reads.
LEMMA IntakeStutter ==
  ASSUME IntakeInv, UNCHANGED vars
  PROVE  IntakeInv'
<1>1. UNCHANGED <<channel, call, webhookLog, job, faults, edits>>
  BY DEF vars
<1>2. TypeOK'
  BY <1>1 DEF IntakeInv, TypeOK
<1>3. Calling /\ \A s \in Calls : Outcome(s)
  BY OutcomeOfAll DEF IntakeInv, Calling
<1>4. \A s \in Calls : Good(s)'
  BY <1>1, <1>3, IdleGood
<1>5. TracedToLog'
  BY <1>1, QuietTraced DEF IntakeInv, Same
<1> QED
  BY <1>2, <1>4, <1>5, GoodInv

-----------------------------------------------------------------------------
\* The intake keeps its invariant, for any number of calls, channels and bodies,
\* any payloads, and any failures, crashes and edits.
THEOREM IntakeInvariant == IntakeSpec => []IntakeInv
<1>1. Init => IntakeInv
  BY IntakeInit
<1>2. IntakeInv /\ [Next]_vars => IntakeInv'
  BY HandleInv, CrashInv, EditInv, IntakeStutter DEF Next
<1> QED
  BY <1>1, <1>2, PTL DEF IntakeSpec

\* A webhook call answered with 200 has a job for every message it read.
THEOREM AnswerMeansQueued == IntakeSpec => []AckedIsQueued
<1>1. IntakeInv => AckedIsQueued
  BY DEF IntakeInv
<1> QED
  BY <1>1, IntakeInvariant, PTL

\* No job without a processed webhook log that explains it.
THEOREM JobsAreTraced == IntakeSpec => []TracedToLog
<1>1. IntakeInv => TracedToLog
  BY DEF IntakeInv
<1> QED
  BY <1>1, IntakeInvariant, PTL

\* A removed channel receives nothing more.
THEOREM RemovalIsFinal == IntakeSpec => []RemovedIsSilent
<1>1. IntakeInv => RemovedIsSilent
  BY DEF IntakeInv
<1> QED
  BY <1>1, IntakeInvariant, PTL

\* A webhook log never contradicts the answer of its call.
THEOREM LogsAreHonest == IntakeSpec => []LogTellsOutcome
<1>1. IntakeInv => LogTellsOutcome
  BY DEF IntakeInv
<1> QED
  BY <1>1, IntakeInvariant, PTL
=============================================================================
