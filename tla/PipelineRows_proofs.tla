------------------------ MODULE PipelineRows_proofs ------------------------
(***************************************************************************)
(* Proofs about the rows that the workers of the pipeline race for: how    *)
(* many ACTIVE conversations a contact can have, and whose conversation a  *)
(* message and its reply are in.                                           *)
(***************************************************************************)
EXTENDS PipelineSettling_proofs, LateReplies, FiniteSetTheorems

(***************************************************************************)
(* What a step does to the conversations.                                  *)
(***************************************************************************)
\* The row that CreateConversation(p) writes.
Opens(p, c) ==
  /\ inw[p].pc = "create" /\ c \in Convs /\ conv[c].status = "NONE"
  /\ conv' = [conv EXCEPT ![c] = [status |-> "ACTIVE", ai |-> TRUE, contact |-> Sender(p),
                                  opened |-> HowCreated(p)]]
  /\ inw' = [inw EXCEPT ![p] = [@ EXCEPT !.pc = "persist", !.conv = c, !.ai = TRUE]]

\* An agent's edit of one conversation.
Edited(c) == /\ c \in Convs /\ conv[c].status # "NONE" /\ Spend("edit")
             /\ UNCHANGED <<inw, inJob, row>>
             /\ conv'[c].status # "NONE" /\ conv'[c].contact = conv[c].contact
             /\ conv[c].opened # "ALONE" => conv'[c].opened # "ALONE"
             /\ conv'[c].status = "ACTIVE" => conv[c].status = "ACTIVE" \/ conv'[c].opened # "ALONE"
             /\ \A d \in Convs \ {c} : conv'[d] = conv[d]

\* Only the resolver and the agents write conversations.
LEMMA ConvNext ==
  ASSUME TypeOK, Next
  PROVE  \/ conv' = conv
         \/ \E p \in Procs, c \in Convs : CreateConversation(p) /\ Opens(p, c)
         \/ \E c \in Convs : Edited(c)
<1> USE DEF chatVars, replyVars, AiFrame, EnvFrame
<1>1. ASSUME NEW p \in Procs, CreateConversation(p)
      PROVE  \E c \in Convs : Opens(p, c)
  BY <1>1 DEF CreateConversation, Opens
<1>2. ASSUME NEW p \in Procs, InboundStep(p), ~CreateConversation(p)
      PROVE  conv' = conv
  BY <1>2 DEF InboundStep, InboundPick, ResolveContact, FindConversation,
     PersistMessage, TouchConversation, ProcessMedia, TranscribeMedia,
     RemoveAiJob, AddAiJob, FinishInbound, InboundThrow
<1>3. ASSUME NEW p \in Procs, AiStep(p)
      PROVE  conv' = conv
  BY <1>3 DEF AiStep, AiPick, LoadConversation, SkipRead, SkipMark, SkipLog,
     ReadPending, ReadFallback, RunEngine, MarkBatch, SendReply, RecordOutbound,
     LogOutbound, LogRun, AiFinish, AiCatch, LogError, AiThrow
<1>4. ASSUME NEW c \in Convs, UpdateConversation(c) \/ CloseConversation(c)
      PROVE  Edited(c)
  <2>1. conv[c] \in Conversation /\ conv \in [Convs -> Conversation]
    BY DEF TypeOK
  <2>2. CASE UpdateConversation(c)
    <3>1. PICK status \in ConversationStatus, ai \in BOOLEAN :
            conv' = [conv EXCEPT ![c] = [@ EXCEPT
                       !.status = status, !.ai = ai,
                       !.opened = HowEdited(c, status)]]
      BY <2>2 DEF UpdateConversation
    <3>2. conv'[c] = [conv[c] EXCEPT !.status = status, !.ai = ai, !.opened = HowEdited(c, status)]
      BY <2>1, <3>1 DEF Conversation
    <3>3. \A d \in Convs \ {c} : conv'[d] = conv[d]
      BY <2>1, <3>1
    <3>4. /\ conv'[c].status = status /\ conv'[c].contact = conv[c].contact
          /\ conv'[c].opened = HowEdited(c, status)
      BY <2>1, <3>2 DEF Conversation
    <3>5. status # "NONE"
      BY DEF ConversationStatus
    <3> QED
      BY <2>2, <3>3, <3>4, <3>5 DEF UpdateConversation, Edited, HowEdited
  <2>3. CASE CloseConversation(c)
    <3>1. conv'[c] = [conv[c] EXCEPT !.status = "CLOSED"]
      BY <2>1, <2>3 DEF CloseConversation
    <3>2. /\ conv'[c].status = "CLOSED" /\ conv'[c].contact = conv[c].contact
          /\ conv'[c].opened = conv[c].opened
      BY <2>1, <3>1 DEF Conversation
    <3>3. \A d \in Convs \ {c} : conv'[d] = conv[d]
      BY <2>1, <2>3 DEF CloseConversation
    <3> QED
      BY <2>3, <3>2, <3>3 DEF CloseConversation, Edited
  <2> QED
    BY <1>4, <2>2, <2>3
<1> QED
  BY <1>1, <1>2, <1>3, <1>4
  DEF Next, Environment, InboundQueue, Deliver, EvictInbound, InboundStalled,
      AiStalled, Crash

\* A conversation that exists keeps its contact, and is never unmade.
LEMMA BelongsStays ==
  ASSUME TypeOK, Next, NEW c \in Convs, NEW k, Belongs(c, k)
  PROVE  Belongs(c, k)'
<1>1. CASE conv' = conv
  BY <1>1 DEF Belongs
<1>2. ASSUME NEW p \in Procs, NEW d \in Convs, Opens(p, d) PROVE Belongs(c, k)'
  BY <1>2 DEF Belongs, Opens, TypeOK
<1>3. ASSUME NEW d \in Convs, Edited(d) PROVE Belongs(c, k)'
  BY <1>3 DEF Belongs, Edited
<1> QED
  BY <1>1, <1>2, <1>3, ConvNext

(***************************************************************************)
(* What a step does to the workers.                                        *)
(***************************************************************************)
\* The event of a job that a worker holds does not change.
LEMMA HeldEvents ==
  ASSUME PipelineInv, Next, NEW q \in Procs, inw[q].pc # "idle"
  PROVE  /\ inw[q].id \in ExtIds
         /\ inJob'[inw[q].id].event = inJob[inw[q].id].event
<1> USE DEF PipelineInv, chatVars, replyVars, AiFrame, EnvFrame
<1>1. /\ inw[q].id \in ExtIds /\ inJob[inw[q].id].state = "active"
      /\ inJob[inw[q].id] \in InboundJob /\ ~OrphanInbound(inw[q].id)
  BY DEF InboundHolds, TypeOK, OrphanInbound, HoldsInbound
<1>2. ASSUME NEW p \in Procs, InboundStep(p)
      PROVE  inJob'[inw[q].id].event = inJob[inw[q].id].event
  BY <1>1, <1>2, JobEvents
<1>3. CASE inJob' = inJob
  BY <1>1, <1>3
<1>4. ASSUME NEW e \in Events, Deliver(e)
      PROVE  inJob'[inw[q].id].event = inJob[inw[q].id].event
  <2>1. ExtIdOf[e] # inw[q].id \/ inJob' = inJob
    BY <1>1, <1>4 DEF Deliver
  <2> QED
    BY <1>1, <1>4, <2>1 DEF Deliver, TypeOK
<1>5. ASSUME NEW id \in ExtIds, EvictInbound(id) \/ InboundStalled(id)
      PROVE  inJob'[inw[q].id].event = inJob[inw[q].id].event
  <2>1. id # inw[q].id
    BY <1>1, <1>5 DEF EvictInbound, InboundStalled
  <2> QED
    BY <1>1, <1>5, <2>1 DEF EvictInbound, InboundStalled, TypeOK
<1> QED
  BY <1>1, <1>2, <1>3, <1>4, <1>5, AiEffects
  DEF Next, Environment, InboundQueue, AiStalled, UpdateConversation,
      CloseConversation, Crash

\* How a worker comes to be where it is: it was there with the same job, or it
\* has just looked for its sender's conversation, or opened one.
Joins(q) == FindConversation(q) /\ ActiveOf(Sender(q)) = {}
Finds(q) == FindConversation(q) /\ inw'[q].conv \in ActiveOf(Sender(q))

LEMMA OwnStep ==
  ASSUME PipelineInv, NEW q \in Procs, InboundStep(q),
         inw'[q].pc \notin {"idle", "contact", "find"}
  PROVE  /\ inw[q].pc # "idle" /\ inw'[q].id = inw[q].id
         /\ inw'[q].pc = "create" => Joins(q)
         /\ inw'[q].pc # "create" =>
              \/ Resolved(q) /\ inw'[q].conv = inw[q].conv
              \/ Finds(q)
              \/ \E c \in Convs : Opens(q, c) /\ inw'[q].conv = c
<1> USE DEF PipelineInv
<1>0. inw[q] \in InboundWorker
  BY DEF TypeOK
<1>1. ASSUME NEW pc, Goto(q, pc)
      PROVE inw'[q].id = inw[q].id /\ inw'[q].conv = inw[q].conv /\ inw'[q].pc = pc
  BY <1>0, <1>1 DEF Goto, TypeOK, InboundWorker
<1>2. CASE InboundPick(q) \/ FinishInbound(q) \/ InboundThrow(q)
  <2>1. CASE InboundPick(q)
    <3> PICK id \in ExtIds :
          inw' = [inw EXCEPT ![q] = [IdleInbound EXCEPT !.pc = "contact", !.id = id]]
      BY <2>1 DEF InboundPick
    <3> QED
      BY DEF IdleInbound, TypeOK
  <2>2. CASE FinishInbound(q) \/ InboundThrow(q)
    BY <2>2 DEF FinishInbound, InboundThrow, IdleInbound, TypeOK
  <2> QED
    BY <1>2, <2>1, <2>2
<1>3. CASE ResolveContact(q)
  BY <1>1, <1>3 DEF ResolveContact
<1>4. CASE FindConversation(q)
  <2>1. CASE ActiveOf(Sender(q)) = {} /\ Goto(q, "create")
    BY <1>1, <1>4, <2>1 DEF FindConversation, Joins
  <2>2. ASSUME NEW c \in Latest(ActiveOf(Sender(q))),
               inw' = [inw EXCEPT ![q] = [@ EXCEPT !.pc = "persist", !.conv = c,
                                                   !.ai = conv[c].ai]]
        PROVE  /\ inw'[q].id = inw[q].id /\ inw'[q].pc = "persist"
               /\ inw'[q].conv \in ActiveOf(Sender(q))
    BY <1>0, <2>2 DEF TypeOK, InboundWorker, Latest
  <2> QED
    BY <1>4, <2>1, <2>2 DEF FindConversation, Finds
<1>5. CASE CreateConversation(q)
  <2>1. PICK c \in Convs : Opens(q, c)
    BY <1>5 DEF CreateConversation, Opens
  <2>2. inw'[q].id = inw[q].id /\ inw'[q].conv = c /\ inw'[q].pc = "persist"
    BY <1>0, <2>1 DEF Opens, TypeOK, InboundWorker
  <2> QED
    BY <2>1, <2>2 DEF Opens
<1>6. ASSUME Resolved(q), NEW pc, Goto(q, pc), pc # "create"
      PROVE  /\ inw[q].pc # "idle" /\ inw'[q].id = inw[q].id
             /\ inw'[q].pc # "create" /\ inw'[q].conv = inw[q].conv
  BY <1>1, <1>6 DEF Resolved
<1>7. CASE PersistMessage(q) \/ TouchConversation(q) \/ ProcessMedia(q)
           \/ TranscribeMedia(q) \/ RemoveAiJob(q) \/ AddAiJob(q)
  <2>1. Resolved(q) /\ \E pc \in {"touch", "finish", "media", "remove", "transcribe", "add"} : Goto(q, pc)
    BY <1>7 DEF PersistMessage, TouchConversation, ProcessMedia, TranscribeMedia,
       RemoveAiJob, AddAiJob, Resolved
  <2> QED
    BY <1>6, <2>1
<1> QED
  BY <1>2, <1>3, <1>4, <1>5, <1>7 DEF InboundStep

LEMMA WorkersNext ==
  ASSUME PipelineInv, Next, NEW q \in Procs,
         inw'[q].pc \notin {"idle", "contact", "find"}
  PROVE  /\ inw[q].pc # "idle" /\ inw'[q].id = inw[q].id
         /\ inw'[q].pc = "create" => inw'[q] = inw[q] \/ Joins(q)
         /\ inw'[q].pc # "create" =>
              \/ Resolved(q) /\ inw'[q].conv = inw[q].conv
              \/ Finds(q)
              \/ \E c \in Convs : Opens(q, c) /\ inw'[q].conv = c
<1> USE DEF PipelineInv, chatVars, replyVars, AiFrame, EnvFrame
<1>1. CASE InboundStep(q)
  BY <1>1, OwnStep
<1>2. ASSUME inw'[q] = inw[q]
      PROVE  /\ inw[q].pc # "idle" /\ inw'[q].id = inw[q].id
             /\ inw'[q].pc # "create" => Resolved(q) /\ inw'[q].conv = inw[q].conv
  BY <1>2 DEF Resolved
<1>3. ASSUME NEW p \in Procs \ {q}, InboundStep(p) PROVE inw'[q] = inw[q]
  BY <1>3, InboundEffects
<1>4. ASSUME NEW p \in Procs, Crash(p) PROVE inw'[q] = inw[q]
  BY <1>4 DEF Crash, TypeOK, IdleInbound
<1> QED
  BY <1>1, <1>2, <1>3, <1>4, AiEffects
  DEF Next, Environment, InboundQueue, Deliver, EvictInbound, InboundStalled,
      AiStalled, UpdateConversation, CloseConversation

\* Only the persister stores a message.
LEMMA NewRow ==
  ASSUME PipelineInv, Next, NEW id \in ExtIds, ~Exists(id), Exists(id)'
  PROVE  \E p \in Procs : PersistMessage(p) /\ id = inw[p].id
<1> USE DEF PipelineInv, chatVars, replyVars, AiFrame, EnvFrame
<1>1. ASSUME NEW p \in Procs, InboundStep(p)
      PROVE  PersistMessage(p) /\ id = inw[p].id
  <2>1. CASE PersistMessage(p)
    <3>1. id = inw[p].id
      BY <2>1 DEF PersistMessage, TypeOK, Exists
    <3> QED
      BY <2>1, <3>1
  <2>2. ASSUME NEW status, row' = [row EXCEPT ![inw[p].id].media = status]
        PROVE  FALSE
    BY <2>2 DEF TypeOK, Message, Exists
  <2>3. ~ProcessMedia(p) /\ ~TranscribeMedia(p)
    BY <2>2 DEF ProcessMedia, TranscribeMedia
  <2>4. row' # row
    BY DEF Exists
  <2> QED
    BY <1>1, <2>1, <2>3, <2>4
    DEF InboundStep, InboundPick, ResolveContact, FindConversation,
        CreateConversation, TouchConversation, RemoveAiJob, AddAiJob,
        FinishInbound, InboundThrow
<1>2. ASSUME NEW p \in Procs, AiStep(p) PROVE FALSE
  <2>1. row'[id].event = row[id].event
    BY <1>2, AiEffects
  <2> QED
    BY <2>1 DEF Exists
<1>3. row' # row
  BY DEF Exists
<1> QED
  BY <1>1, <1>2, <1>3
  DEF Next, Environment, InboundQueue, Deliver, EvictInbound, InboundStalled,
      AiStalled, UpdateConversation, CloseConversation, Crash

(***************************************************************************)
(* Whose conversation a message is in.                                     *)
(***************************************************************************)
LEMMA OwnedNext == PipelineInv /\ ChatsOwned /\ [Next]_vars => ChatsOwned'
<1>0. ASSUME ChatsOwned, UNCHANGED vars PROVE ChatsOwned'
  BY <1>0 DEF ChatsOwned, Belongs, Sender, Resolved, Exists, vars
<1> SUFFICES ASSUME PipelineInv, ChatsOwned, Next PROVE ChatsOwned'
  BY <1>0
<1> USE DEF PipelineInv
<1>1. ASSUME NEW q \in Procs, Resolved(q)'
      PROVE  (Belongs(inw[q].conv, Sender(q)))'
  <2>1. /\ inw[q].pc # "idle" /\ inw'[q].id = inw[q].id
        /\ \/ Resolved(q) /\ inw'[q].conv = inw[q].conv
           \/ Finds(q)
           \/ \E c \in Convs : Opens(q, c) /\ inw'[q].conv = c
    BY <1>1, WorkersNext DEF Resolved
  <2>2. Sender(q)' = Sender(q)
    BY <2>1, HeldEvents DEF Sender
  <2>3. CASE Resolved(q) /\ inw'[q].conv = inw[q].conv
    <3>1. inw[q].conv \in Convs /\ Belongs(inw[q].conv, Sender(q))
      BY <2>3 DEF Resolved, InboundHolds, ChatsOwned
    <3> QED
      BY <2>2, <2>3, <3>1, BelongsStays DEF Belongs
  <2>4. CASE Finds(q)
    <3>1. inw'[q].conv \in Convs /\ conv[inw'[q].conv].status = "ACTIVE"
          /\ conv[inw'[q].conv].contact = Sender(q) /\ conv' = conv
      BY <2>4 DEF Finds, ActiveOf, FindConversation, chatVars
    <3> QED
      BY <2>2, <3>1 DEF Belongs
  <2>5. ASSUME NEW c \in Convs, Opens(q, c), inw'[q].conv = c
        PROVE  (Belongs(inw[q].conv, Sender(q)))'
    BY <2>2, <2>5 DEF Belongs, Opens, TypeOK
  <2> QED
    BY <2>1, <2>3, <2>4, <2>5
<1>2. ASSUME NEW id \in ExtIds, Exists(id)'
      PROVE  (Belongs(row[id].conv, SenderOf[row[id].event]))'
  <2>1. CASE Exists(id)
    <3>1. row'[id].event = row[id].event /\ row'[id].conv = row[id].conv
      BY <2>1, RowsNext
    <3>2. row[id].conv \in Convs /\ Belongs(row[id].conv, SenderOf[row[id].event])
      BY <2>1 DEF KeysMatch, ChatsOwned
    <3> QED
      BY <3>1, <3>2, BelongsStays DEF Belongs
  <2>2. CASE ~Exists(id)
    <3>1. PICK p \in Procs : PersistMessage(p) /\ id = inw[p].id
      BY <1>2, <2>2, NewRow
    <3>2. row'[id].event = inJob[id].event /\ row'[id].conv = inw[p].conv /\ conv' = conv
      BY <2>2, <3>1 DEF PersistMessage, NoMessage, chatVars, TypeOK
    <3>3. Belongs(inw[p].conv, Sender(p))
      BY <3>1 DEF ChatsOwned, Resolved, PersistMessage
    <3> QED
      BY <3>1, <3>2, <3>3 DEF Belongs, Sender
  <2> QED
    BY <2>1, <2>2
<1> QED
  BY <1>1, <1>2 DEF ChatsOwned

\* A message is always in a conversation of the contact who wrote it, and every
\* message that a reply covers was written by the contact the reply goes to,
\* through any races, edits, retries and repeated calls (ConversationResolver,
\* MessagePersister, ResponseDispatcherService).
THEOREM RepliesAreAddressed == Spec => []RepliesReachSender
<1>1. Init => ChatsOwned
  BY DEF Init, ChatsOwned, Exists, NoMessage, Resolved, IdleInbound
<1>2. PipelineInv /\ ChatsOwned => RepliesReachSender
  <2> SUFFICES ASSUME PipelineInv, ChatsOwned PROVE RepliesReachSender
    OBVIOUS
  <2>1. \A id \in ExtIds :
          Exists(id) => conv[row[id].conv].contact = SenderOf[row[id].event]
    BY DEF ChatsOwned, Belongs
  <2>2. ASSUME NEW p \in Procs, aiw[p].pc = "send", NEW id \in aiw[p].batch
        PROVE  conv[aiw[p].conv].contact = SenderOf[row[id].event]
    <3>1. id \in ExtIds /\ Exists(id) /\ row[id].conv = aiw[p].conv
      BY <2>2 DEF PipelineInv, TypeOK, AiWorker, BatchState, BatchOf
    <3> QED
      BY <2>1, <3>1
  <2> QED
    BY <2>1, <2>2 DEF RepliesReachSender
<1> QED
  BY <1>1, <1>2, OwnedNext, PipelineInvariant, PTL DEF Spec


(***************************************************************************)
(* How many ACTIVE conversations a contact has.                            *)
(***************************************************************************)
\* Who may open a conversation for k, and which ones are open, after a step.
LEMMA CreatorsNext ==
  ASSUME PipelineInv, Next, NEW k
  PROVE  \A q \in Procs : q \in Creators(k)' =>
           \/ q \in Creators(k)
           \/ ActiveOf(k) = {} /\ conv' = conv /\ budget' = budget
<1> SUFFICES ASSUME NEW q \in Procs, q \in Creators(k)'
             PROVE  \/ q \in Creators(k)
                    \/ ActiveOf(k) = {} /\ conv' = conv /\ budget' = budget
  OBVIOUS
<1>1. inw'[q].pc = "create" /\ Sender(q)' = k
  BY DEF Creators
<1>2. inw[q].pc # "idle" /\ inw'[q].id = inw[q].id /\ (inw'[q] = inw[q] \/ Joins(q))
  BY <1>1, WorkersNext
<1>3. Sender(q) = k
  BY <1>1, <1>2, HeldEvents DEF Sender
<1> QED
  BY <1>1, <1>2, <1>3 DEF Creators, Joins, FindConversation, chatVars

LEMMA BoundNext ==
  ASSUME IsFiniteSet(Procs), PipelineInv, TypeOK', ChatsCounted, Next, NEW k \in Contacts
  PROVE  /\ IsFiniteSet(ActiveOf(k)')
         /\ Cardinality(ActiveOf(k)') + Cardinality(Creators(k)')
              <= Cardinality(Procs) + (Budget["edit"] - budget'["edit"])
<1> DEFINE A == ActiveOf(k)
           C == Creators(k)
           a == Cardinality(A)
           n == Cardinality(C)
           m == Cardinality(Procs)
<1>1. /\ IsFiniteSet(A) /\ a + n <= m + (Budget["edit"] - budget["edit"])
      /\ budget["edit"] <= Budget["edit"]
  BY DEF ChatsCounted, ActiveChatsBounded
<1>2. /\ budget["edit"] \in Nat /\ budget'["edit"] \in Nat /\ Budget["edit"] \in Nat
      /\ budget'["edit"] <= budget["edit"]
  BY BudgetNext, StoreAssumption DEF StoreAssumption, PipelineInv, TypeOK, BudgetKinds
<1>3. IsFiniteSet(C) /\ C' \subseteq Procs /\ IsFiniteSet(C')
  BY FS_Subset DEF Creators
<1>4. a \in Nat /\ n \in Nat /\ m \in Nat /\ Cardinality(C') \in Nat /\ Cardinality(C') <= m
  BY <1>1, <1>3, FS_CardinalityType, FS_Subset
<1>5. C' \subseteq C \/ (A = {} /\ conv' = conv /\ budget' = budget)
  BY <1>3, CreatorsNext
<1>6. ASSUME A' \subseteq A, C' \subseteq C
      PROVE  IsFiniteSet(A') /\ Cardinality(A') + Cardinality(C') <= m + (Budget["edit"] - budget'["edit"])
  <2>1. IsFiniteSet(A') /\ Cardinality(A') <= a /\ Cardinality(A') \in Nat
    BY <1>1, <1>6, FS_Subset, FS_CardinalityType
  <2>2. Cardinality(C') <= n
    BY <1>3, <1>6, FS_Subset
  <2> HIDE DEF A, C, a, n, m
  <2> QED
    BY <1>1, <1>2, <1>4, <2>1, <2>2
<1>7. CASE conv' = conv
  <2>1. A' = A
    BY <1>7 DEF ActiveOf
  <2>2. CASE A = {} /\ conv' = conv /\ budget' = budget
    <3>1. Cardinality(A') = 0 /\ IsFiniteSet(A')
      BY <2>1, <2>2, FS_EmptySet
    <3>2. 0 + Cardinality(C') <= m + (Budget["edit"] - budget'["edit"])
      <4> HIDE DEF C, m
      <4> QED
        BY <1>1, <1>2, <1>4, <2>2
    <3> QED
      BY <3>1, <3>2
  <2> QED
    BY <1>5, <1>6, <2>1, <2>2
<1>8. ASSUME NEW p \in Procs, NEW c \in Convs, Opens(p, c), CreateConversation(p)
      PROVE  IsFiniteSet(A') /\ Cardinality(A') + Cardinality(C') <= m + (Budget["edit"] - budget'["edit"])
  <2>1. /\ c \notin A /\ \A d \in Convs \ {c} : conv'[d] = conv[d]
        /\ conv'[c].contact = Sender(p) /\ conv' # conv
    BY <1>8 DEF Opens, ActiveOf, PipelineInv, TypeOK
  <2>2. C' \subseteq C
    BY <1>5, <2>1
  <2>3. CASE Sender(p) # k
    <3>1. A' \subseteq A
      BY <2>1, <2>3 DEF ActiveOf
    <3> QED
      BY <1>6, <2>2, <3>1
  <2>4. CASE Sender(p) = k
    <3>1. A' \subseteq A \cup {c}
      BY <2>1 DEF ActiveOf
    <3>2. p \in C /\ p \notin C'
      BY <1>8, <2>4 DEF Creators, Opens, PipelineInv, TypeOK
    <3>3. IsFiniteSet(A') /\ Cardinality(A') <= a + 1 /\ Cardinality(A') \in Nat
      <4>1. IsFiniteSet(A \cup {c}) /\ Cardinality(A \cup {c}) = a + 1
        BY <1>1, <2>1, FS_AddElement
      <4> QED
        BY <3>1, <4>1, FS_Subset, FS_CardinalityType
    <3>4. Cardinality(C') <= n - 1
      <4>1. C' \subseteq C \ {p}
        BY <2>2, <3>2
      <4>2. IsFiniteSet(C \ {p}) /\ Cardinality(C \ {p}) = n - 1
        BY <1>3, <3>2, FS_RemoveElement
      <4> QED
        BY <4>1, <4>2, FS_Subset
    <3> HIDE DEF A, C, a, n, m
    <3> QED
      BY <1>1, <1>2, <1>4, <3>3, <3>4
  <2> QED
    BY <2>3, <2>4
<1>9. ASSUME NEW c \in Convs, Edited(c)
      PROVE  IsFiniteSet(A') /\ Cardinality(A') + Cardinality(C') <= m + (Budget["edit"] - budget'["edit"])
  <2>1. budget'["edit"] <= budget["edit"] - 1
    BY <1>2, <1>9, SpendLess DEF Edited, BudgetKinds, PipelineInv
  <2>2. A' \subseteq A \cup {c}
    BY <1>9 DEF ActiveOf, Edited
  <2>3. C' \subseteq C
    <3>1. budget' # budget
      BY <1>2, <2>1
    <3> QED
      BY <1>5, <3>1
  <2>4. IsFiniteSet(A') /\ Cardinality(A') <= a + 1 /\ Cardinality(A') \in Nat
    <3>1. IsFiniteSet(A \cup {c}) /\ Cardinality(A \cup {c}) <= a + 1
      <4>1. /\ IsFiniteSet(A \cup {c})
            /\ Cardinality(A \cup {c}) = a \/ Cardinality(A \cup {c}) = a + 1
        BY <1>1, FS_AddElement
      <4> HIDE DEF A, a
      <4> QED
        BY <1>4, <4>1
    <3> QED
      BY <1>4, <2>2, <3>1, FS_Subset, FS_CardinalityType
  <2>5. Cardinality(C') <= n
    BY <1>3, <2>3, FS_Subset
  <2> HIDE DEF A, C, a, n, m
  <2> QED
    BY <1>1, <1>2, <1>4, <2>1, <2>4, <2>5
<1> QED
  BY <1>7, <1>8, <1>9, ConvNext DEF PipelineInv

LEMMA CountedNext ==
  ASSUME IsFiniteSet(Procs)
  PROVE  PipelineInv /\ TypeOK' /\ ChatsCounted /\ [Next]_vars => ChatsCounted'
<1>1. ASSUME PipelineInv, TypeOK', ChatsCounted, Next PROVE ChatsCounted'
  <2>1. budget'["edit"] <= Budget["edit"]
    <3>1. /\ budget["edit"] \in Nat /\ budget'["edit"] \in Nat /\ Budget["edit"] \in Nat
          /\ budget'["edit"] <= budget["edit"] /\ budget["edit"] <= Budget["edit"]
      BY <1>1, BudgetNext, StoreAssumption
      DEF StoreAssumption, PipelineInv, TypeOK, BudgetKinds, ChatsCounted
    <3> QED
      BY <3>1
  <2>2. \A k \in Contacts :
          /\ IsFiniteSet(ActiveOf(k)')
          /\ Cardinality(ActiveOf(k)') + Cardinality(Creators(k)')
               <= Cardinality(Procs) + (Budget["edit"] - budget'["edit"])
    BY <1>1, BoundNext
  <2> QED
    BY <1>1, <2>1, <2>2 DEF ChatsCounted, ActiveChatsBounded
<1>2. ASSUME ChatsCounted, UNCHANGED vars PROVE ChatsCounted'
  BY <1>2 DEF ChatsCounted, ActiveChatsBounded, ActiveOf, Creators, Sender, vars
<1> QED
  BY <1>1, <1>2

LEMMA CountedInit ==
  ASSUME IsFiniteSet(Procs)
  PROVE  Init => ChatsCounted
<1> SUFFICES ASSUME Init PROVE ChatsCounted
  OBVIOUS
<1>1. \A k \in Contacts : ActiveOf(k) = {} /\ Creators(k) = {}
  BY DEF Init, ActiveOf, Creators, NoConversation, IdleInbound
<1>2. budget = Budget /\ Budget["edit"] \in Nat /\ Cardinality(Procs) \in Nat
  BY StoreAssumption, FS_CardinalityType DEF StoreAssumption, BudgetKinds, Init
<1>3. ActiveChatsBounded
  BY <1>1, <1>2, FS_EmptySet DEF ActiveChatsBounded
<1> QED
  BY <1>1, <1>2, <1>3, FS_EmptySet DEF ChatsCounted

\* However many messages arrive, jobs are retried or processes die, a contact
\* has no more ACTIVE conversations than backend processes and agents' edits
\* together; one process and no edit give exactly one (ConversationResolver).
THEOREM ChatsAreRaces ==
  ASSUME IsFiniteSet(Procs)
  PROVE  Spec => []ActiveChatsBounded
<1>1. PipelineInv => TypeOK
  BY DEF PipelineInv
<1>2. ChatsCounted => ActiveChatsBounded
  BY DEF ChatsCounted
<1> QED
  BY <1>1, <1>2, CountedInit, CountedNext, PipelineInvariant, PTL DEF Spec

(***************************************************************************)
(* What splits a contact's conversation in two.                            *)
(***************************************************************************)
LEMMA ContestNext ==
  ASSUME PipelineInv, CreatorsContest, OnlyRacesSplit, Next, NEW k \in Contacts
  PROVE  /\ Creators(k)' # {} => \A c \in ActiveOf(k)' : conv'[c].opened # "ALONE"
         /\ \A c, d \in ActiveOf(k)' : c # d => conv'[c].opened # "ALONE" \/ conv'[d].opened # "ALONE"
<1> DEFINE A == ActiveOf(k)
           C == Creators(k)
           Contest == C' # {} => \A c \in A' : conv'[c].opened # "ALONE"
           Split == \A c, d \in A' : c # d => conv'[c].opened # "ALONE" \/ conv'[d].opened # "ALONE"
<1>1. /\ C # {} => \A c \in A : conv[c].opened # "ALONE"
      /\ \A c, d \in A : c # d => conv[c].opened # "ALONE" \/ conv[d].opened # "ALONE"
  BY DEF CreatorsContest, OnlyRacesSplit
<1>2. \A q \in C' : q \in C \/ (A = {} /\ conv' = conv)
  BY CreatorsNext DEF Creators
<1>3. ASSUME conv' = conv PROVE Contest /\ Split
  <2>1. A' = A
    BY <1>3 DEF ActiveOf
  <2>2. C' # {} => C # {} \/ A = {}
    BY <1>2
  <2> HIDE DEF A, C
  <2> QED
    BY <1>1, <1>3, <2>1, <2>2
<1>4. ASSUME NEW p \in Procs, NEW c \in Convs, Opens(p, c) PROVE Contest /\ Split
  <2>1. /\ \A d \in Convs \ {c} : conv'[d] = conv[d]
        /\ conv'[c].contact = Sender(p) /\ conv' # conv
    BY <1>4 DEF Opens, PipelineInv, TypeOK
  <2>5. Creators(Sender(p)) # {p} => conv'[c].opened # "ALONE"
    <3>1. conv'[c] = [status |-> "ACTIVE", ai |-> TRUE, contact |-> Sender(p),
                      opened |-> HowCreated(p)]
      BY <1>4 DEF Opens, PipelineInv, TypeOK
    <3>2. conv'[c].opened = HowCreated(p)
      BY <3>1
    <3> QED
      BY <3>2 DEF HowCreated
  <2>2. \A q \in C' : q \in C
    BY <1>2, <2>1
  <2>3. CASE Sender(p) # k
    <3>1. \A d \in A' : d \in A /\ conv'[d] = conv[d]
      BY <2>1, <2>3 DEF ActiveOf
    <3> HIDE DEF A, C
    <3> QED
      BY <1>1, <2>2, <3>1
  <2>4. CASE Sender(p) = k
    <3>1. \A d \in A' : d = c \/ (d \in A /\ conv'[d] = conv[d])
      BY <2>1 DEF ActiveOf
    <3>2. p \in C /\ p \notin C'
      BY <1>4, <2>4 DEF Creators, Opens, PipelineInv, TypeOK
    <3>3. C' # {} => conv'[c].opened # "ALONE"
      BY <2>2, <2>4, <2>5, <3>2
    <3> HIDE DEF A, C
    <3> QED
      BY <1>1, <3>1, <3>2, <3>3
  <2> QED
    BY <2>3, <2>4
<1>5. ASSUME NEW c \in Convs, Edited(c) PROVE Contest /\ Split
  <2>1. \A d \in A' : \/ d \in A /\ (conv[d].opened # "ALONE" => conv'[d].opened # "ALONE")
                      \/ conv'[d].opened # "ALONE"
    BY <1>5 DEF Edited, ActiveOf
  <2> HIDE DEF A, C
  <2> QED
    BY <1>1, <1>2, <1>3, <2>1
<1> QED
  BY <1>3, <1>4, <1>5, ConvNext DEF PipelineInv

\* Two ACTIVE conversations of a contact come from a race of two workers in the
\* check-then-act of ConversationResolver or from an agent, through any retries,
\* crashes and repeated calls, with any number of processes.
THEOREM OnlyRacesSplitHolds == Spec => []OnlyRacesSplit
<1>1. Init => CreatorsContest /\ OnlyRacesSplit
  BY DEF Init, CreatorsContest, OnlyRacesSplit, ActiveOf, NoConversation
<1>2. PipelineInv /\ CreatorsContest /\ OnlyRacesSplit /\ [Next]_vars
        => (CreatorsContest /\ OnlyRacesSplit)'
  <2>1. ASSUME PipelineInv, CreatorsContest, OnlyRacesSplit, Next
        PROVE  (CreatorsContest /\ OnlyRacesSplit)'
    BY <2>1, ContestNext DEF CreatorsContest, OnlyRacesSplit
  <2>2. ASSUME CreatorsContest, OnlyRacesSplit, UNCHANGED vars
        PROVE  (CreatorsContest /\ OnlyRacesSplit)'
    BY <2>2 DEF CreatorsContest, OnlyRacesSplit, ActiveOf, Creators, Sender, vars
  <2> QED
    BY <2>1, <2>2
<1> QED
  BY <1>1, <1>2, PipelineInvariant, PTL DEF Spec

(***************************************************************************)
(* A medium is decided once.                                               *)
(***************************************************************************)
\* A worker at its medium gives its own message another status.
LEMMA MediaMoves ==
  ASSUME PipelineInv, NEW p \in Procs, ProcessMedia(p) \/ TranscribeMedia(p)
  PROVE  LET id == inw[p].id
         IN /\ id \in ExtIds /\ Exists(id)
            /\ \A i \in ExtIds \ {id} : row'[i] = row[i]
            /\ \E status \in MediaStatus \ {"PENDING"} :
                 /\ row' = [row EXCEPT ![id].media = status]
                 /\ row'[id].media = status
                 /\ ProcessMedia(p) => status # "COMPLETED"
                 /\ TranscribeMedia(p) => status \in {"COMPLETED", "FAILED"}
                 /\ inw'[p].pc = IF status = "PROCESSING" THEN "transcribe" ELSE "remove"
            /\ UNCHANGED <<inJob, budget>>
<1> DEFINE id == inw[p].id
<1> USE DEF PipelineInv
<1>1. id \in ExtIds /\ Exists(id)
  BY DEF ProcessMedia, TranscribeMedia, InboundHolds, JobProgress, InboundPc
<1>2. PICK status \in MediaStatus \ {"PENDING"} :
        /\ row' = [row EXCEPT ![id].media = status]
        /\ ProcessMedia(p) => status # "COMPLETED"
        /\ TranscribeMedia(p) => status \in {"COMPLETED", "FAILED"}
        /\ Goto(p, IF status = "PROCESSING" THEN "transcribe" ELSE "remove")
  BY DEF ProcessMedia, TranscribeMedia, MediaStatus
<1>3. row'[id].media = status /\ \A i \in ExtIds \ {id} : row'[i] = row[i]
  BY <1>1, <1>2 DEF TypeOK, Message
<1>4. inw'[p].pc = IF status = "PROCESSING" THEN "transcribe" ELSE "remove"
  BY <1>2 DEF Goto, TypeOK, InboundWorker
<1> QED
  BY <1>1, <1>2, <1>3, <1>4 DEF ProcessMedia, TranscribeMedia

\* No other step changes the status of a medium.
LEMMA MediaNext ==
  ASSUME PipelineInv, MediaRowsInv, Next
  PROVE  \/ \A id \in ExtIds : row'[id].media = row[id].media
         \/ \E p \in Procs : ProcessMedia(p) \/ TranscribeMedia(p)
<1> USE DEF PipelineInv, chatVars, replyVars, AiFrame, EnvFrame
<1> DEFINE Same == \A id \in ExtIds : row'[id].media = row[id].media
<1>1. CASE row' = row
  BY <1>1
<1>2. ASSUME NEW p \in Procs, PersistMessage(p) PROVE Same
  BY <1>2 DEF PersistMessage, NoMessage, MediaRowsInv, TypeOK
<1>3. ASSUME NEW S, MarkProcessed(S) PROVE Same
  BY <1>3 DEF MarkProcessed, TypeOK, Message
<1>4. ASSUME NEW p \in Procs, InboundStep(p), ~ProcessMedia(p), ~TranscribeMedia(p)
      PROVE  Same
  BY <1>1, <1>2, <1>4
  DEF InboundStep, InboundPick, ResolveContact, FindConversation,
      CreateConversation, TouchConversation, RemoveAiJob, AddAiJob,
      FinishInbound, InboundThrow
<1>5. ASSUME NEW p \in Procs, AiStep(p) PROVE Same
  BY <1>1, <1>3, <1>5
  DEF AiStep, AiPick, LoadConversation, SkipRead, SkipMark, SkipLog, ReadPending,
      ReadFallback, RunEngine, MarkBatch, SendReply, RecordOutbound, LogOutbound,
      LogRun, AiFinish, AiCatch, LogError, AiThrow
<1> QED
  BY <1>1, <1>4, <1>5
  DEF Next, Environment, InboundQueue, Deliver, EvictInbound, InboundStalled,
      AiStalled, UpdateConversation, CloseConversation, Crash

\* Until something is spent no process dies, no attempt fails and no job is evicted.
LEMMA UnspentNext ==
  ASSUME TypeOK, TypeOK', MediaRowsInv, Next
  PROVE  /\ \A kind \in BudgetKinds : budget'[kind] <= Budget[kind]
         /\ Unspent' => /\ Unspent
                        /\ \A p \in Procs : ~Crash(p) /\ ~InboundThrow(p)
                        /\ \A id \in ExtIds : ~EvictInbound(id)
<1>1. \A kind \in BudgetKinds :
        /\ budget[kind] \in Nat /\ budget'[kind] \in Nat /\ Budget[kind] \in Nat
        /\ budget'[kind] <= budget[kind] /\ budget[kind] <= Budget[kind]
  BY BudgetNext, StoreAssumption DEF StoreAssumption, TypeOK, MediaRowsInv
<1>2. \A kind \in {"crash", "fault", "evict"} : Spend(kind) => ~Unspent'
  <2> SUFFICES ASSUME NEW kind \in {"crash", "fault", "evict"}, Spend(kind)
               PROVE  ~Unspent'
    OBVIOUS
  <2>1. kind \in BudgetKinds /\ budget'[kind] < budget[kind]
    BY SpendLess DEF BudgetKinds
  <2>2. budget'[kind] # Budget[kind]
    BY <1>1, <2>1
  <2> QED
    BY <2>2 DEF Unspent, Undisturbed
<1>3. Unspent' => Unspent
  BY <1>1 DEF Unspent, Undisturbed, BudgetKinds
<1> QED
  BY <1>1, <1>2, <1>3 DEF Crash, InboundThrow, EvictInbound

\* What the inbound side does meanwhile: a worker takes a job that was queued, ends
\* its own, or goes on with it; or a webhook call adds a job that was absent.
LEMMA UnspentSteps ==
  ASSUME PipelineInv, TypeOK', MediaRowsInv, Next, Unspent'
  PROVE  \/ \E p \in Procs, id \in ExtIds :
              /\ inJob[id].state = "queued" /\ inJob'[id].state = "active"
              /\ \A i \in ExtIds \ {id} : inJob'[i] = inJob[i]
              /\ inw[p].pc = "idle" /\ inw'[p].pc = "contact" /\ inw'[p].id = id
              /\ \A q \in Procs \ {p} : inw'[q] = inw[q]
         \/ \E p \in Procs :
              /\ inw[p].pc # "idle" /\ inw'[p].pc = "idle"
              /\ inJob'[inw[p].id].state = "completed"
              /\ \A i \in ExtIds \ {inw[p].id} : inJob'[i] = inJob[i]
              /\ \A q \in Procs \ {p} : inw'[q] = inw[q]
         \/ \E p \in Procs :
              /\ inJob' = inJob
              /\ inw[p].pc # "idle" /\ inw'[p].pc # "idle" /\ inw'[p].id = inw[p].id
              /\ inw'[p].pc \in BeforeMedia => inw[p].pc \in BeforeMedia
              /\ \A q \in Procs \ {p} : inw'[q] = inw[q]
         \/ inw' = inw /\ inJob' = inJob
         \/ \E id \in ExtIds :
              /\ inw' = inw /\ inJob[id].state = "absent" /\ inJob'[id].state = "queued"
              /\ \A i \in ExtIds \ {id} : inJob'[i] = inJob[i]
<1> USE DEF PipelineInv, chatVars, replyVars, AiFrame, EnvFrame
<1>1. /\ Unspent /\ \A p \in Procs : ~Crash(p) /\ ~InboundThrow(p)
      /\ \A id \in ExtIds : ~EvictInbound(id) /\ ~InboundStalled(id)
  BY UnspentNext DEF MediaRowsInv, InboundStalled
<1>2. ASSUME NEW p \in Procs, InboundPick(p)
      PROVE  \E id \in ExtIds :
              /\ inJob[id].state = "queued" /\ inJob'[id].state = "active"
              /\ \A i \in ExtIds \ {id} : inJob'[i] = inJob[i]
              /\ inw[p].pc = "idle" /\ inw'[p].pc = "contact" /\ inw'[p].id = id
              /\ \A q \in Procs \ {p} : inw'[q] = inw[q]
  <2>1. InboundStep(p) /\ inw[p].pc = "idle"
    BY <1>2 DEF InboundStep, InboundPick
  <2>2. \A q \in Procs \ {p} : inw'[q] = inw[q]
    BY <2>1, InboundEffects
  <2> QED
    BY <1>2, <2>1, <2>2, InboundJobs
<1>3. ASSUME NEW p \in Procs, FinishInbound(p)
      PROVE  /\ inw[p].pc # "idle" /\ inw'[p].pc = "idle"
             /\ inJob'[inw[p].id].state = "completed"
             /\ \A i \in ExtIds \ {inw[p].id} : inJob'[i] = inJob[i]
             /\ \A q \in Procs \ {p} : inw'[q] = inw[q]
  BY <1>3 DEF FinishInbound, InboundHolds, TypeOK, InboundJob, IdleInbound
<1>4. ASSUME NEW p \in Procs, InboundStep(p), ~InboundPick(p), ~FinishInbound(p)
      PROVE  /\ inJob' = inJob
             /\ inw[p].pc # "idle" /\ inw'[p].pc # "idle" /\ inw'[p].id = inw[p].id
             /\ inw'[p].pc \in BeforeMedia => inw[p].pc \in BeforeMedia
             /\ \A q \in Procs \ {p} : inw'[q] = inw[q]
  <2>1. /\ inJob' = inJob /\ inw[p].pc # "idle"
        /\ inw[p].pc \notin BeforeMedia => TranscribeMedia(p) \/ RemoveAiJob(p) \/ AddAiJob(p)
    BY <1>1, <1>4
    DEF InboundStep, ResolveContact, FindConversation, CreateConversation,
        PersistMessage, TouchConversation, ProcessMedia, TranscribeMedia,
        RemoveAiJob, AddAiJob, BeforeMedia
  <2>2. inJob[inw[p].id].state = "active"
    BY <2>1 DEF InboundHolds
  <2>3. inw'[p].pc # "idle"
    BY <1>4, <2>1, <2>2, InboundJobs
  <2>4. inw'[p].id = inw[p].id
    BY <1>4, <2>3, InboundLocals
  <2>5. ASSUME NEW pc, Goto(p, pc) PROVE inw'[p].pc = pc
    BY <2>5 DEF Goto, TypeOK, InboundWorker
  <2>6. inw'[p].pc \in BeforeMedia => inw[p].pc \in BeforeMedia
    BY <2>1, <2>5 DEF TranscribeMedia, RemoveAiJob, AddAiJob, BeforeMedia
  <2> QED
    BY <1>4, <2>1, <2>3, <2>4, <2>6, InboundEffects
<1>5. ASSUME NEW e \in Events, Deliver(e)
      PROVE  \/ inw' = inw /\ inJob' = inJob
             \/ \E id \in ExtIds :
                  /\ inw' = inw /\ inJob[id].state = "absent" /\ inJob'[id].state = "queued"
                  /\ \A i \in ExtIds \ {id} : inJob'[i] = inJob[i]
  <2>1. ExtIdOf[e] \in ExtIds
    BY StoreAssumption DEF StoreAssumption
  <2> QED
    BY <1>5, <2>1 DEF Deliver, TypeOK, NoInboundJob
<1>6. ASSUME NEW p \in Procs, AiStep(p) PROVE inw' = inw /\ inJob' = inJob
  BY <1>6, AiEffects
<1> QED
  BY <1>1, <1>2, <1>3, <1>4, <1>5, <1>6
  DEF Next, Environment, InboundQueue, AiStalled, UpdateConversation, CloseConversation
\* A worker begins to transcribe when it has marked the medium.
LEMMA TranscribeStarts ==
  ASSUME PipelineInv, Next, NEW q \in Procs, inw'[q].pc = "transcribe", ~ProcessMedia(q)
  PROVE  inw'[q] = inw[q]
<1> USE DEF PipelineInv, chatVars, replyVars, AiFrame, EnvFrame
<1>1. ASSUME InboundStep(q) PROVE FALSE
  <2>1. ASSUME NEW pc, Goto(q, pc) PROVE inw'[q].pc = pc
    BY <2>1 DEF Goto, TypeOK, InboundWorker
  <2>2. ASSUME NEW c, NEW ai,
               inw' = [inw EXCEPT ![q] = [@ EXCEPT !.pc = "persist", !.conv = c, !.ai = ai]]
        PROVE  inw'[q].pc = "persist"
    BY <2>2 DEF TypeOK, InboundWorker
  <2>3. ~InboundPick(q) /\ ~FinishInbound(q) /\ ~InboundThrow(q)
    <3>1. ~InboundPick(q)
      BY <1>1, InboundJobs
    <3>2. ~FinishInbound(q) /\ ~InboundThrow(q)
      BY DEF FinishInbound, InboundThrow, IdleInbound, TypeOK
    <3> QED
      BY <3>1, <3>2
  <2>4. ~FindConversation(q)
    <3>1. FindConversation(q) =>
            \/ Goto(q, "create")
            \/ \E c \in Convs : inw' = [inw EXCEPT ![q] = [@ EXCEPT !.pc = "persist",
                                                   !.conv = c, !.ai = conv[c].ai]]
      BY DEF FindConversation, Latest, ActiveOf
    <3> QED
      BY <2>1, <2>2, <3>1
  <2>5. ~CreateConversation(q)
    <3>1. CreateConversation(q) =>
            \E c \in Convs : inw' = [inw EXCEPT ![q] = [@ EXCEPT !.pc = "persist",
                                                   !.conv = c, !.ai = TRUE]]
      BY DEF CreateConversation
    <3> QED
      BY <2>2, <3>1
  <2> QED
    BY <1>1, <2>1, <2>3, <2>4, <2>5
    DEF InboundStep, ResolveContact, PersistMessage, TouchConversation,
        TranscribeMedia, RemoveAiJob, AddAiJob
<1>2. ASSUME NEW p \in Procs \ {q}, InboundStep(p) PROVE inw'[q] = inw[q]
  BY <1>2, InboundEffects
<1>3. ASSUME NEW p \in Procs, Crash(p) PROVE inw'[q] = inw[q]
  BY <1>3 DEF Crash, TypeOK, IdleInbound
<1> QED
  BY <1>1, <1>2, <1>3, AiEffects
  DEF Next, Environment, InboundQueue, Deliver, EvictInbound, InboundStalled,
      AiStalled, UpdateConversation, CloseConversation

\* Until something is spent, a job that is active has its worker, and one that may
\* still come to its medium is not one that came to it before.
LEMMA UntouchedNext ==
  ASSUME PipelineInv, TypeOK', MediaRowsInv, Next, Unspent', NEW id \in ExtIds
  PROVE  /\ ~OrphanInbound(id)'
         /\ Untouched(id)' => Untouched(id)
<1> USE DEF PipelineInv
<1>1. ~OrphanInbound(id)
  BY UnspentNext DEF MediaRowsInv
<1>2. ASSUME NEW p \in Procs, NEW i \in ExtIds,
             inJob[i].state = "queued", inJob'[i].state = "active",
             \A j \in ExtIds \ {i} : inJob'[j] = inJob[j],
             inw[p].pc = "idle", inw'[p].pc = "contact", inw'[p].id = i,
             \A q \in Procs \ {p} : inw'[q] = inw[q]
      PROVE  /\ ~OrphanInbound(id)'
             /\ Untouched(id)' => Untouched(id)
  <2>1. CASE id = i
    BY <1>2, <2>1 DEF OrphanInbound, HoldsInbound, Untouched
  <2>2. CASE id # i
    BY <1>1, <1>2, <2>2 DEF OrphanInbound, HoldsInbound, Untouched
  <2> QED
    BY <2>1, <2>2
<1>3. ASSUME NEW p \in Procs, inw[p].pc # "idle", inw'[p].pc = "idle",
             inJob'[inw[p].id].state = "completed",
             \A j \in ExtIds \ {inw[p].id} : inJob'[j] = inJob[j],
             \A q \in Procs \ {p} : inw'[q] = inw[q]
      PROVE  /\ ~OrphanInbound(id)'
             /\ Untouched(id)' => Untouched(id)
  <2>1. "idle" \notin BeforeMedia
    BY DEF BeforeMedia
  <2> QED
    BY <1>1, <1>3, <2>1 DEF OrphanInbound, HoldsInbound, Untouched
<1>4. ASSUME NEW p \in Procs, inJob' = inJob,
             inw[p].pc # "idle", inw'[p].pc # "idle", inw'[p].id = inw[p].id,
             inw'[p].pc \in BeforeMedia => inw[p].pc \in BeforeMedia,
             \A q \in Procs \ {p} : inw'[q] = inw[q]
      PROVE  /\ ~OrphanInbound(id)'
             /\ Untouched(id)' => Untouched(id)
  BY <1>1, <1>4 DEF OrphanInbound, HoldsInbound, Untouched
<1>5. ASSUME inw' = inw, NEW i \in ExtIds,
             inJob[i].state = "absent", inJob'[i].state = "queued",
             \A j \in ExtIds \ {i} : inJob'[j] = inJob[j]
      PROVE  /\ ~OrphanInbound(id)'
             /\ Untouched(id)' => Untouched(id)
  BY <1>1, <1>5 DEF OrphanInbound, HoldsInbound, Untouched
<1>6. ASSUME inw' = inw, inJob' = inJob
      PROVE  /\ ~OrphanInbound(id)'
             /\ Untouched(id)' => Untouched(id)
  BY <1>1, <1>6 DEF OrphanInbound, HoldsInbound, Untouched
<1> QED
  BY <1>2, <1>3, <1>4, <1>5, <1>6, UnspentSteps

LEMMA MediaRowsNext ==
  PipelineInv /\ TypeOK' /\ MediaRowsInv /\ [Next]_vars => MediaRowsInv'
<1>0. ASSUME MediaRowsInv, UNCHANGED vars PROVE MediaRowsInv'
  BY <1>0 DEF MediaRowsInv, Exists, Unspent, Undisturbed, OrphanInbound, HoldsInbound,
              Untouched, vars
<1> SUFFICES ASSUME PipelineInv, TypeOK', MediaRowsInv, Next PROVE MediaRowsInv'
  BY <1>0
<1> USE DEF PipelineInv
<1>1. \A kind \in BudgetKinds : budget'[kind] <= Budget[kind]
  BY UnspentNext
<1>2. ASSUME NEW id \in ExtIds,
             \A p \in Procs : ProcessMedia(p) \/ TranscribeMedia(p) => inw[p].id # id
      PROVE  row'[id].media = row[id].media
  <2>1. ASSUME NEW p \in Procs, ProcessMedia(p) \/ TranscribeMedia(p)
        PROVE  row'[id].media = row[id].media
    <3>1. inw[p].id # id
      BY <1>2, <2>1
    <3>2. row'[id] = row[id]
      BY <2>1, <3>1, MediaMoves
    <3> QED
      BY <3>2
  <2> QED
    BY <2>1, MediaNext
<1>3. ASSUME NEW id \in ExtIds, ~Exists(id)' PROVE row'[id].media = "PENDING"
  <2>1. ~Exists(id)
    <3>1. Exists(id) => row'[id].event = row[id].event
      BY RowsNext
    <3> QED
      BY <1>3, <3>1 DEF Exists
  <2>2. \A p \in Procs : ProcessMedia(p) \/ TranscribeMedia(p) => inw[p].id # id
    BY <2>1, MediaMoves
  <2> QED
    BY <1>2, <2>1, <2>2 DEF MediaRowsInv
<1>4. ASSUME NEW q \in Procs, inw'[q].pc = "transcribe"
      PROVE  row'[inw'[q].id].media = "PROCESSING"
  <2>1. CASE ProcessMedia(q)
    <3>1. PICK status \in MediaStatus :
            /\ row'[inw[q].id].media = status
            /\ inw'[q].pc = IF status = "PROCESSING" THEN "transcribe" ELSE "remove"
      BY <2>1, MediaMoves
    <3>2. inw'[q].id = inw[q].id
      BY <1>4, WorkersNext
    <3> QED
      BY <1>4, <3>1, <3>2
  <2>2. CASE ~ProcessMedia(q)
    <3>1. inw'[q] = inw[q]
      BY <1>4, <2>2, TranscribeStarts
    <3>2. inw[q].id \in ExtIds /\ \A p \in Procs \ {q} : inw[p].pc = "idle" \/ inw[p].id # inw[q].id
      BY <1>4, <3>1 DEF InboundHolds, HoldsInbound
    <3>3. ~TranscribeMedia(q)
      BY <1>4, MediaMoves
    <3>4. \A p \in Procs : ProcessMedia(p) \/ TranscribeMedia(p) => inw[p].id # inw[q].id
      BY <2>2, <3>2, <3>3 DEF ProcessMedia, TranscribeMedia
    <3> QED
      BY <1>2, <1>4, <3>1, <3>2, <3>4 DEF MediaRowsInv
  <2> QED
    BY <2>1, <2>2
<1>5. ASSUME Unspent', NEW id \in ExtIds, Untouched(id)'
      PROVE  row'[id].media = "PENDING"
  <2>1. Untouched(id) /\ Unspent
    BY <1>5, UntouchedNext, UnspentNext
  <2>2. ASSUME NEW p \in Procs, ProcessMedia(p) \/ TranscribeMedia(p), inw[p].id = id
        PROVE  FALSE
    <3>1. inJob[id].state = "active" /\ inJob' = inJob
      BY <2>2, MediaMoves DEF InboundHolds, ProcessMedia, TranscribeMedia
    <3>2. inw'[p].pc \notin BeforeMedia
      BY <2>2, MediaMoves DEF BeforeMedia
    <3>3. \A q \in Procs \ {p} : inw'[q] = inw[q]
      BY <2>2, InboundEffects DEF InboundStep
    <3>4. \A q \in Procs \ {p} : inw[q].pc = "idle" \/ inw[q].id # id
      BY <2>2 DEF InboundHolds, HoldsInbound, ProcessMedia, TranscribeMedia
    <3>5. "idle" \notin BeforeMedia
      BY DEF BeforeMedia
    <3> QED
      BY <1>5, <3>1, <3>2, <3>3, <3>4, <3>5 DEF Untouched
  <2> QED
    BY <1>2, <2>1, <2>2 DEF MediaRowsInv
<1>6. Unspent' => \A id \in ExtIds : /\ ~OrphanInbound(id)'
                                     /\ Untouched(id)' => row'[id].media = "PENDING"
  BY <1>5, UntouchedNext
<1> QED
  BY <1>1, <1>3, <1>4, <1>6 DEF MediaRowsInv

\* A step that leaves the media alone, and may spend something.
LEMMA MediaRest ==
  ASSUME \A id \in ExtIds : row'[id].media = row[id].media, Unspent' => Unspent
  PROVE  Medium!ContractNext
<1> DEFINE trouble == IF Unspent THEN {} ELSE ExtIds
<1>1. trouble' \in SUBSET ExtIds /\ trouble' = trouble \cup trouble'
  OBVIOUS
<1> QED
  BY <1>1 DEF Medium!ContractNext

LEMMA MediumStep ==
  PipelineInv /\ TypeOK' /\ MediaRowsInv /\ [Next]_vars
    => [Medium!ContractNext]_(Medium!mvars)
<1>0. ASSUME UNCHANGED vars PROVE UNCHANGED Medium!mvars
  BY <1>0 DEF vars, Medium!mvars, Unspent, Undisturbed
<1> SUFFICES ASSUME PipelineInv, TypeOK', MediaRowsInv, Next PROVE Medium!ContractNext
  BY <1>0
<1> USE DEF PipelineInv
<1>1. Unspent' => Unspent
  BY UnspentNext
<1>2. ASSUME NEW p \in Procs, ProcessMedia(p) \/ TranscribeMedia(p)
      PROVE  Medium!ContractNext
  <2> PICK id \in ExtIds : id = inw[p].id
    BY <1>2, MediaMoves
  <2> DEFINE trouble == IF Unspent THEN {} ELSE ExtIds
             status == [i \in ExtIds |-> row[i].media]
  <2>1. PICK s \in MediaStatus \ {"PENDING"} :
          /\ row'[id].media = s
          /\ ProcessMedia(p) => s # "COMPLETED"
          /\ TranscribeMedia(p) => s \in {"COMPLETED", "FAILED"}
    BY <1>2, MediaMoves
  <2>2. \A i \in ExtIds \ {id} : row'[i] = row[i]
    BY <1>2, MediaMoves
  <2>3. status' = [status EXCEPT ![id] = s]
    BY <2>1, <2>2
  <2>4. ProcessMedia(p) => status[id] = "PENDING" \/ id \in trouble
    <3>1. CASE Unspent /\ ProcessMedia(p)
      BY <2>2, <3>1 DEF MediaRowsInv, Untouched, BeforeMedia, ProcessMedia
    <3> QED
      BY <2>2, <3>1
  <2>5. TranscribeMedia(p) => status[id] = "PROCESSING"
    BY <2>2 DEF TranscribeMedia, MediaRowsInv
  <2>6. Medium!Start(id) \/ Medium!Skip(id) \/ Medium!Fail(id) \/ Medium!Complete(id)
    BY <1>2, <2>1, <2>3, <2>4, <2>5
    DEF MediaStatus, Medium!Start, Medium!Skip, Medium!Fail, Medium!Complete,
        Medium!Moves
  <2>7. \E i \in ExtIds : Medium!Start(i) \/ Medium!Skip(i) \/ Medium!Fail(i) \/ Medium!Complete(i)
    BY <2>6
  <2>8. \E S \in SUBSET ExtIds : trouble' = trouble \cup S
    <3>1. trouble' \in SUBSET ExtIds /\ trouble' = trouble \cup trouble'
      BY <1>1
    <3> QED
      BY <3>1
  <2> QED
    BY <2>7, <2>8 DEF Medium!ContractNext
<1> QED
  BY <1>1, <1>2, MediaNext, MediaRest

\* Until the first crash, error or evicted job no retry, race, debounce or repeated
\* webhook call decides a medium twice, however many workers there are; after it a
\* medium may be decided anew, but COMPLETED still follows PROCESSING
\* (MessageInboundProcessor, MediaProcessorService).
THEOREM MediumIsDecidedOnce == Spec => MediumDecidedOnce
<1>1. Init => MediaRowsInv
  <2> SUFFICES ASSUME Init PROVE MediaRowsInv
    OBVIOUS
  <2>1. \A kind \in BudgetKinds : budget[kind] <= Budget[kind]
    BY StoreAssumption DEF Init, StoreAssumption
  <2>2. \A id \in ExtIds : row[id].media = "PENDING" /\ inJob[id].state = "absent"
    BY DEF Init, NoMessage, NoInboundJob
  <2>3. \A p \in Procs : inw[p].pc = "idle"
    BY DEF Init, IdleInbound
  <2> QED
    BY <2>1, <2>2, <2>3 DEF MediaRowsInv, OrphanInbound
<1>2. Init => Medium!ContractInit
  BY DEF Init, NoMessage, Unspent, Undisturbed, Medium!ContractInit
<1>3. PipelineInv => TypeOK
  BY DEF PipelineInv
<1> QED
  BY <1>1, <1>2, <1>3, MediaRowsNext, MediumStep, PipelineInvariant, PTL
  DEF Spec, MediumDecidedOnce, Medium!ContractSpec

(***************************************************************************)
(* Replies to a conversation that is out of the AI's hands.                *)
(***************************************************************************)
\* A run becomes committed when it looks at its conversation and finds it live,
\* and is not any more once it has sent.
LEMMA RunCommits ==
  ASSUME PipelineInv, NEW p \in Procs, AiStep(p), Committed(p)'
  PROVE  /\ aiw[p].conv \in Convs /\ aiw'[p].conv = aiw[p].conv
         /\ Committed(p) \/ IsLive(aiw[p].conv)
         /\ aiw[p].pc # "send"
<1> USE DEF PipelineInv, Committed
<1>1. aiw[p].pc # "idle" /\ aiw'[p].conv = aiw[p].conv
  BY RunShape
<1>2. aiw[p].conv \in Convs
  BY <1>1 DEF AiHolds
<1>3. ASSUME SkipRead(p) PROVE FALSE
  <2>1. PICK pc \in {"skipLog", "skipMark"} :
          aiw' = [aiw EXCEPT ![p] = [aiw[p] EXCEPT !.batch = Pending(aiw[p].conv), !.pc = pc]]
    BY <1>3 DEF SkipRead, AiUpdate
  <2>2. aiw'[p].pc = pc
    BY <2>1 DEF TypeOK, AiWorker
  <2> QED
    BY <2>2
<1>4. CASE LoadConversation(p)
  BY <1>1, <1>2, <1>4, RunGoes DEF LoadConversation
<1>5. CASE ReadPending(p) \/ ReadFallback(p) \/ RunEngine(p)
  BY <1>1, <1>2, <1>5 DEF ReadPending, ReadFallback, RunEngine
<1>6. CASE MarkBatch(p)
  BY <1>1, <1>2, <1>6 DEF MarkBatch
<1>7. ~SendReply(p)
  BY RunReads
<1>8. ASSUME NEW pc \in {"skipLog", "finish", "logSend", "logRun", "logError"}, AiGoto(p, pc)
      PROVE  FALSE
  BY <1>8, RunGoes
<1>9. ~AiPick(p) /\ ~AiFinish(p) /\ ~AiThrow(p)
  <2>1. ASSUME aiw' = [aiw EXCEPT ![p] = IdleAi] PROVE FALSE
    BY <1>1, <2>1 DEF IdleAi, TypeOK
  <2> QED
    BY <1>1, <2>1 DEF AiPick, AiFinish, AiThrow, AiUpdate
<1>10. ~RecordOutbound(p)
  <2>1. RecordOutbound(p) => AiGoto(p, "logRun") \/ AiGoto(p, "logSend")
    BY DEF RecordOutbound
  <2> QED
    BY <1>8, <2>1
<1>11. ~SkipMark(p) /\ ~SkipLog(p) /\ ~LogOutbound(p) /\ ~LogRun(p) /\ ~AiCatch(p) /\ ~LogError(p)
  BY <1>8 DEF SkipMark, SkipLog, LogOutbound, LogRun, AiCatch, LogError
<1> HIDE DEF PipelineInv, Committed
<1> QED
  BY <1>3, <1>4, <1>5, <1>6, <1>7, <1>9, <1>10, <1>11 DEF AiStep

\* The same of every step: meanwhile no other run and no agent disturbs it.
LEMMA CommitsNext ==
  ASSUME PipelineInv, Next, NEW p \in Procs, Committed(p)'
  PROVE  /\ aiw[p].conv \in Convs /\ aiw'[p].conv = aiw[p].conv
         /\ Committed(p) \/ (IsLive(aiw[p].conv) /\ IsLive(aiw[p].conv)')
         /\ aiw[p].pc = "send" => ~Dispatched(aiw[p].conv)
<1> USE DEF PipelineInv, chatVars, replyVars, AiFrame, EnvFrame
<1>1. CASE AiStep(p)
  <2>1. conv' = conv
    BY <1>1 DEF AiStep, AiPick, LoadConversation, SkipRead, SkipMark, SkipLog,
       ReadPending, ReadFallback, RunEngine, MarkBatch, SendReply, RecordOutbound,
       LogOutbound, LogRun, AiFinish, AiCatch, LogError, AiThrow
  <2> QED
    BY <1>1, <2>1, RunCommits DEF IsLive
<1>2. CASE aiw'[p] = aiw[p]
  <2>1. aiw[p].pc # "idle" /\ aiw[p].conv \in Convs
    BY <1>2 DEF AiHolds, Committed
  <2>2. aiw[p].pc = "send" => ~Dispatched(aiw[p].conv)
    BY <1>2, <2>1 DEF AiHolds, HoldsAi, Dispatched
  <2> QED
    BY <1>2, <2>1, <2>2 DEF Committed
<1>3. ASSUME NEW q \in Procs \ {p}, AiStep(q) PROVE aiw'[p] = aiw[p]
  BY <1>3, AiEffects
<1>4. ASSUME NEW q \in Procs, InboundStep(q) PROVE aiw'[p] = aiw[p]
  BY <1>4, InboundEffects
<1>5. ASSUME NEW q \in Procs, Crash(q) PROVE aiw'[p] = aiw[p]
  BY <1>5 DEF Crash, TypeOK, IdleAi, Committed
<1> QED
  BY <1>1, <1>2, <1>3, <1>4, <1>5
  DEF Next, Environment, InboundQueue, Deliver, EvictInbound, InboundStalled,
      AiStalled, UpdateConversation, CloseConversation

\* An agent who takes a conversation over is followed by one reply at most, of the
\* run that had looked at it before, through any races, restarts, retries and
\* repeated calls (AiResponseProcessor, 73-213).
THEOREM TakeoverIsFinal == Spec => TakeoverEndsReplies
<1>1. ASSUME PipelineInv, Next, NEW c \in Convs, ~IsLive(c), ~IsLive(c)',
             NEW p \in Procs, Committed(p)', aiw'[p].conv = c
      PROVE  Committed(p) /\ aiw[p].conv = c /\ ~Dispatched(c)
  <2>1. aiw[p].conv = c /\ Committed(p)
    BY <1>1, CommitsNext
  <2>2. ASSUME NEW q \in Procs, aiw[q].pc = "send", aiw[q].conv = c, aiw'[q].pc = "record"
        PROVE  FALSE
    <3>1. q = p
      BY <2>1, <2>2, <1>1 DEF PipelineInv, AiHolds, HoldsAi, Committed
    <3> QED
      BY <1>1, <2>2, <3>1 DEF Committed
  <2> QED
    BY <2>1, <2>2 DEF Dispatched
<1>2. PipelineInv /\ [Next]_vars =>
        [\A c \in Convs : ~IsLive(c) /\ ~IsLive(c)' =>
           \A p \in Procs : Committed(p)' /\ aiw'[p].conv = c =>
             Committed(p) /\ aiw[p].conv = c /\ ~Dispatched(c)]_vars
  BY <1>1
<1> QED
  BY <1>2, PipelineInvariant, PTL DEF Spec, TakeoverEndsReplies

LEMMA LateNext ==
  PipelineInv /\ LateInv /\ [Next /\ CountLate]_<<vars, late>> => LateInv'
<1>1. ASSUME LateInv, UNCHANGED <<vars, late>> PROVE LateInv'
  BY <1>1 DEF LateInv, Committed, IsLive, vars
<1> SUFFICES ASSUME PipelineInv, LateInv, Next, CountLate, NEW c \in Convs
             PROVE  /\ late'[c] \in {0, 1}
                    /\ IsLive(c)' => late'[c] = 0
                    /\ late'[c] = 1 => \A p \in Procs : aiw'[p].conv = c => ~Committed(p)'
  BY <1>1 DEF LateInv
<1>2. late'[c] = IF IsLive(c)' THEN 0
                 ELSE IF Dispatched(c) THEN late[c] + 1 ELSE late[c]
  BY DEF CountLate
<1>3. Dispatched(c) => late[c] = 0
  BY DEF Dispatched, LateInv, Committed
<1>4. late'[c] \in {0, 1} /\ (IsLive(c)' => late'[c] = 0)
  BY <1>2, <1>3 DEF LateInv
<1>5. ASSUME late'[c] = 1, NEW p \in Procs, aiw'[p].conv = c, Committed(p)'
      PROVE  FALSE
  <2>1. ~IsLive(c)'
    BY <1>2, <1>5
  <2>2. aiw[p].conv = c /\ Committed(p)
    BY <1>5, <2>1, CommitsNext
  <2>3. late[c] # 1
    BY <2>2 DEF LateInv
  <2>4. PICK q \in Procs : aiw[q].pc = "send" /\ aiw[q].conv = c /\ aiw'[q].pc = "record"
    BY <1>2, <1>5, <2>1, <2>3 DEF Dispatched
  <2>5. q = p
    BY <2>2, <2>4 DEF PipelineInv, AiHolds, HoldsAi, Committed
  <2> QED
    BY <1>5, <2>4, <2>5 DEF Committed
<1> QED
  BY <1>4, <1>5

\* Once an agent has closed a conversation, taken it over or switched its AI off, at
\* most one reply still goes out, until it is handed back, through any races,
\* restarts, retries and repeated calls (AiResponseProcessor, 73-213).
THEOREM LateRepliesAreFew == LateSpec => []OneLateReply
<1>1. LateSpec => Spec
  <2>1. [Next /\ CountLate]_<<vars, late>> => [Next]_vars
    OBVIOUS
  <2> QED
    BY <2>1, PTL DEF LateSpec, Spec
<1>2. Init /\ late = [c \in Convs |-> 0] => LateInv
  BY DEF LateInv
<1>3. LateInv => OneLateReply
  BY DEF LateInv, OneLateReply
<1> QED
  BY <1>1, <1>2, <1>3, LateNext, PipelineInvariant, PTL DEF LateSpec
=============================================================================
