---------------------------- MODULE MediaWork_proofs ----------------------------
(* Proofs of the safety properties of MediaWork, for every value of its constants. *)
EXTENDS MediaWork, TLAPS

USE DEF NoEdit, NoFault

\* What a completed job j leaves in the row r of its medium, disturbed or not.
LeftBy(r, j, d) ==
  IF j.omitted THEN r.status = "PENDING" \/ d ELSE r.status \in Decided

\* What the invariant says of one message.
MessageState(m) ==
  /\ RowState(m)
  /\ row[m].status \in Decided =>
       \/ row[m].status = Outcome(row[m].medium, row[m].under)
       \/ /\ row[m].status = "FAILED" /\ Outcome(row[m].medium, row[m].under) = "COMPLETED"
          /\ m \in disturbed
  /\ row[m].transcription # None =>
       /\ row[m].medium.type \in Supported(row[m].transcription.by)
       /\ row[m].status = "COMPLETED" \/ m \in disturbed
  /\ job[m].state = "completed" => LeftBy(row[m], job[m], m \in disturbed)
  /\ told[m].after => told[m].status \in Decided
  /\ row[m].status = "PROCESSING" =>
       m \in disturbed \/ \E p \in Procs : work[p].message = m

\* The invariant is a type, a condition per worker and one per message.
LEMMA InvByParts ==
  MediaInv <=> /\ TypeOK
               /\ \A p \in Procs : WorkState(p)
               /\ \A m \in Messages : MessageState(m)
<1>1. ASSUME MediaInv PROVE \A m \in Messages : MessageState(m)
  BY <1>1 DEF MediaInv, MessageState, OneContextDecides, TranscriptionStaysUsable,
              LeftBy, DecidedWhenScheduled, ProcessingIsLive
<1>2. ASSUME \A m \in Messages : MessageState(m)
      PROVE  /\ \A m \in Messages : RowState(m)
             /\ OneContextDecides /\ TranscriptionStaysUsable
             /\ DecidedWhenScheduled /\ ProcessingIsLive
  BY <1>2 DEF MessageState, OneContextDecides, TranscriptionStaysUsable,
              LeftBy, DecidedWhenScheduled, ProcessingIsLive
<1> QED BY <1>1, <1>2 DEF MediaInv

\* A step that concerns message m alone, and no worker but the ones that hold m
\* before or after: it is enough to look at those and at m.
LEMMA Local ==
  ASSUME MediaInv, TypeOK', NEW m \in Messages, NEW Free \in SUBSET Procs,
         \A n \in Messages \ {m} : row'[n] = row[n] /\ job'[n] = job[n],
         row'[m].medium = row[m].medium,
         told' = told,
         disturbed \subseteq disturbed', disturbed' \subseteq disturbed \cup {m},
         \A q \in Free : work'[q] = work[q] /\ work[q].message # m,
         \A p \in Procs \ Free : /\ work[p].message \in {m, None}
                                 /\ work'[p].message \in {m, None}
                                 /\ WorkState(p)',
         MessageState(m)'
  PROVE  MediaInv'
<1>1. \A q \in Free : WorkState(q)'
  <2> SUFFICES ASSUME NEW q \in Free PROVE WorkState(q)'
    OBVIOUS
  <2>1. WorkState(q) /\ q \in Procs
    BY DEF MediaInv
  <2>2. work'[q] = work[q] /\ work[q].message # m
    OBVIOUS
  <2>3. work[q].message \in Messages \cup {None}
    BY <2>1 DEF MediaInv, TypeOK, Work
  <2>4. CASE work[q].message = None
    BY <2>1, <2>2, <2>4 DEF WorkState, At
  <2>5. CASE work[q].message \in Messages
    <3> DEFINE n == work[q].message
    <3>1. row'[n] = row[n] /\ job'[n] = job[n]
      BY <2>2, <2>5
    <3>2. n \in disturbed <=> n \in disturbed'
      BY <2>2
    <3>3. \A r \in Procs : work'[r].message = n => r = q
      BY <2>1, <2>2, <2>5, MediaAssumption DEF WorkState
    <3>5. n # None
      BY <2>5, MediaAssumption
    <3> QED BY <2>1, <2>2, <3>1, <3>2, <3>3, <3>5 DEF WorkState, At
  <2> QED BY <2>3, <2>4, <2>5
<1>2. \A n \in Messages \ {m} : MessageState(n)'
  <2> SUFFICES ASSUME NEW n \in Messages, n # m PROVE MessageState(n)'
    OBVIOUS
  <2>1. MessageState(n)
    BY InvByParts
  <2>2. row'[n] = row[n] /\ job'[n] = job[n] /\ told'[n] = told[n]
    OBVIOUS
  <2>3. n \in disturbed <=> n \in disturbed'
    BY <2>2
  <2>4. (\E p \in Procs : work[p].message = n) => \E p \in Procs : work'[p].message = n
    BY MediaAssumption
  <2> QED BY <2>1, <2>2, <2>3, <2>4 DEF MessageState, RowState
<1>3. \A p \in Procs : WorkState(p)'
  BY <1>1
<1>4. \A n \in Messages : MessageState(n)'
  BY <1>2
<1>5. \A n \in Messages : RowState(n)'
  BY <1>4 DEF MessageState
<1>6. OneContextDecides' /\ TranscriptionStaysUsable'
  BY <1>4 DEF MessageState, OneContextDecides, TranscriptionStaysUsable
<1>7. DecidedWhenScheduled' /\ ProcessingIsLive'
  BY <1>4 DEF MessageState, LeftBy, DecidedWhenScheduled, ProcessingIsLive
<1> QED BY <1>3, <1>5, <1>6, <1>7 DEF MediaInv

-----------------------------------------------------------------------------
(* Type correctness. *)

LEMMA Values ==
  /\ {"idle", "resolve", "omit", "getContext", "find", "markSkipped", "markFailed",
      "markProcessing", "graph", "getFile", "download", "transcribe", "complete",
      "schedule"} = Pc
  /\ Settings \subseteq AiContext
  /\ \A s \in AiContext : \A type : Transcriber(s, type) \in Provider \cup {None}
  /\ \A medium \in Media : FirstFetch(medium) \in {"download", "getFile", "graph", "markFailed"}
<1>1. \A s \in AiContext : \A type : Transcriber(s, type) \in Provider \cup {None}
  BY DEF Transcriber, AiContext, Provider
<1>2. \A medium \in Media : FirstFetch(medium) \in {"download", "getFile", "graph", "markFailed"}
  BY MediaAssumption DEF FirstFetch, Channel
<1> QED BY <1>1, <1>2, MediaAssumption DEF Pc

\* Where a worker goes, the rest of its locals staying.
LEMMA GotoTyped ==
  ASSUME TypeOK, NEW p \in Procs, NEW pc \in Pc, Goto(p, pc)
  PROVE  /\ work' \in [Procs -> Work]
         /\ work' = [work EXCEPT ![p] = [work[p] EXCEPT !.pc = pc]]
         /\ work'[p] = [work[p] EXCEPT !.pc = pc]
         /\ \A q \in Procs \ {p} : work'[q] = work[q]
<1>1. work[p] \in Work /\ [work[p] EXCEPT !.pc = pc] \in Work
  BY DEF TypeOK, Work
<1> QED BY <1>1 DEF TypeOK, Goto

LEMMA InitTyped == Init => TypeOK
<1> SUFFICES ASSUME Init PROVE TypeOK
  OBVIOUS
<1>1. row \in [Messages -> Row]
  BY DEF Init, Row, Status
<1>2. told \in [Messages -> Told] /\ job \in [Messages -> Job]
  BY DEF Init, NewJob, Told, Job, Status
<1>3. work \in [Procs -> Work]
  BY DEF Init, Idle, Work, Pc
<1> QED BY <1>1, <1>2, <1>3, MediaAssumption DEF Init, TypeOK

-----------------------------------------------------------------------------
(* Steps of a worker. *)

LEMMA Holding ==
  ASSUME MediaInv, NEW p \in Procs, work[p].pc # "idle"
  PROVE  LET m == work[p].message
         IN /\ m \in Messages /\ m # None /\ job[m].state = "active"
            /\ \A q \in Procs : work[q].message = m => q = p
            /\ work[p] \in Work /\ row[m] \in Row /\ job[m] \in Job
            /\ WorkState(p) /\ MessageState(m)
<1>1. WorkState(p) /\ work[p] \in Work /\ TypeOK
  BY DEF MediaInv, TypeOK
<1>2. work[p].message \in Messages /\ work[p].message # None
  BY <1>1 DEF WorkState, Work
<1>3. MessageState(work[p].message)
  BY <1>2, InvByParts
<1> QED BY <1>1, <1>2, <1>3 DEF WorkState, TypeOK

\* A step of the worker that holds m changes its locals to w, the row of m to r
\* and the job to j.
LEMMA WorkerLocal ==
  ASSUME MediaInv, NEW p \in Procs, work[p].pc # "idle",
         NEW w \in Work, NEW r \in Row, NEW j \in Job, NEW m, m = work[p].message,
         work' = [work EXCEPT ![p] = w], w.message \in {m, None},
         row' = [row EXCEPT ![m] = r], r.medium = row[m].medium,
         job' = [job EXCEPT ![m] = j], NoEdit,
         \/ NoFault
         \/ Fault(m),
         work'[p] = w /\ row'[m] = r /\ job'[m] = j
           /\ (\A q \in Procs : work'[q].message = m => q = p)
           => WorkState(p)' /\ MessageState(m)'
  PROVE  MediaInv'
<1>1. /\ m \in Messages /\ m # None /\ TypeOK
      /\ \A q \in Procs : work[q].message = m => q = p
  BY Holding DEF MediaInv
<1>2. work'[p] = w /\ row'[m] = r /\ job'[m] = j
  BY <1>1 DEF TypeOK
<1>3. \A q \in Procs \ {p} : work'[q] = work[q]
  BY <1>1 DEF TypeOK
<1>4. \A q \in Procs : work'[q].message = m => q = p
  BY <1>1, <1>3
<1>5. \A n \in Messages \ {m} : row'[n] = row[n] /\ job'[n] = job[n]
  BY <1>1 DEF TypeOK
<1>6. /\ disturbed \subseteq disturbed' /\ disturbed' \subseteq disturbed \cup {m}
      /\ disturbed' \in SUBSET Messages /\ faults' \in Nat
  BY <1>1 DEF TypeOK, Fault
<1>7. TypeOK'
  <2>1. work' \in [Procs -> Work] /\ row' \in [Messages -> Row] /\ job' \in [Messages -> Job]
    BY <1>1 DEF TypeOK
  <2> QED BY <1>1, <1>6, <2>1 DEF TypeOK
<1>8. WorkState(p)' /\ MessageState(m)'
  BY <1>2, <1>4
<1> DEFINE Free == Procs \ {p}
<1>9. \A q \in Free : work'[q] = work[q] /\ work[q].message # m
  BY <1>1, <1>3
<1>10. \A q \in Procs \ Free :
         work[q].message \in {m, None} /\ work'[q].message \in {m, None} /\ WorkState(q)'
  BY <1>2, <1>8
<1>11. told' = told /\ row'[m].medium = row[m].medium
  BY <1>2
<1>12. Free \in SUBSET Procs
  OBVIOUS
<1>13. m \in Messages
  BY <1>1
<1>14. disturbed \subseteq disturbed' /\ disturbed' \subseteq disturbed \cup {m}
  BY <1>6
<1>15. MessageState(m)'
  BY <1>8
<1> HIDE DEF Free, NoEdit, NoFault
<1> QED BY <1>5, <1>7, <1>9, <1>10, <1>11, <1>12, <1>13, <1>14, <1>15, Local

\* What the invariant says of a worker's locals w, with the row r of its message,
\* which is disturbed or not.
WorkerGood(w, r, d) ==
  /\ w.pc = "markSkipped" => Outcome(r.medium, w.context) = "SKIPPED"
  /\ w.pc \in {"markProcessing", "markFailed", "graph", "getFile", "download",
               "transcribe", "complete"} => Admits(w.context, r.medium.type)
  /\ w.pc = "markFailed" => Outcome(r.medium, w.context) = "FAILED" \/ d
  /\ w.pc \in {"graph", "getFile", "download", "transcribe", "complete"} =>
       w.by = Transcriber(w.context, r.medium.type) /\ w.by # None
  /\ w.pc \in {"transcribe", "complete"} => Fetchable(r.medium)
  /\ w.pc = "complete" => Transcribes(w.by, w.context)
  /\ w.pc = "schedule" => r.status \in Decided
  /\ w.pc \in {"resolve", "omit", "getContext", "find", "markSkipped", "markProcessing"} =>
       r.status = "PENDING" \/ d
  /\ w.pc \in {"graph", "getFile", "download", "transcribe", "complete"} =>
       r.status = "PROCESSING"
  /\ w.pc = "markFailed" => r.status \in {"PENDING", "PROCESSING"} \/ d

RowGood(r, d) ==
  /\ r.transcription # None =>
       /\ r.medium.type \in Supported(r.transcription.by)
       /\ r.status = "COMPLETED" \/ d
  /\ r.status = "COMPLETED" => r.transcription # None
  /\ r.status \in Decided =>
       \/ r.status = Outcome(r.medium, r.under)
       \/ r.status = "FAILED" /\ Outcome(r.medium, r.under) = "COMPLETED" /\ d

LEMMA Known ==
  ASSUME MediaInv, NEW p \in Procs, work[p].pc # "idle", NEW m, m = work[p].message
  PROVE  /\ WorkerGood(work[p], row[m], m \in disturbed)
         /\ RowGood(row[m], m \in disturbed)
         /\ m \in Messages /\ TypeOK
         /\ work[p] \in Work /\ row[m] \in Row /\ job[m] \in Job
<1>1. WorkState(p) /\ MessageState(m) /\ m \in Messages
  BY Holding
<1>2. WorkerGood(work[p], row[m], m \in disturbed)
  BY <1>1 DEF WorkState, At, WorkerGood
<1>3. RowGood(row[m], m \in disturbed)
  BY <1>1 DEF MessageState, RowState, RowGood
<1> QED BY <1>1, <1>2, <1>3, Holding DEF MediaInv

\* A step of the worker within its job.
LEMMA Advance ==
  ASSUME MediaInv, NEW p \in Procs, work[p].pc # "idle", NEW m, m = work[p].message,
         NEW w \in Work, NEW r \in Row, w.message = m, w.pc # "idle",
         r.medium = row[m].medium,
         work' = [work EXCEPT ![p] = w], row' = [row EXCEPT ![m] = r], job' = job,
         NoEdit, NoFault \/ Fault(m),
         WorkerGood(w, r, m \in disturbed'), RowGood(r, m \in disturbed')
  PROVE  MediaInv'
<1>1. /\ m \in Messages /\ m # None /\ job[m].state = "active" /\ TypeOK
      /\ job[m] \in Job /\ MessageState(m)
  BY Holding DEF MediaInv
<1>2. job' = [job EXCEPT ![m] = job[m]]
  BY <1>1 DEF TypeOK
<1>3. ASSUME work'[p] = w, row'[m] = r, job'[m] = job[m],
             \A q \in Procs : work'[q].message = m => q = p
      PROVE  WorkState(p)' /\ MessageState(m)'
  <2>1. WorkState(p)'
    BY <1>1, <1>3 DEF WorkState, At, WorkerGood
  <2>2. told' = told
    OBVIOUS
  <2>3. MessageState(m)'
    BY <1>1, <1>3, <2>2 DEF MessageState, RowState, RowGood
  <2> QED BY <2>1, <2>3
<1> HIDE DEF NoEdit, NoFault
<1> QED BY <1>1, <1>2, <1>3, WorkerLocal

LEMMA GetActiveContextKeeps ==
  ASSUME MediaInv, NEW p \in Procs, GetActiveContext(p) PROVE MediaInv'
<1> DEFINE m == work[p].message
<1>1. PICK s \in Settings \cup {None} :
        work' = [work EXCEPT ![p].pc = "find", ![p].context = s]
  BY DEF GetActiveContext
<1>2. work[p].pc = "getContext"
  BY DEF GetActiveContext, At
<1> DEFINE w == [work[p] EXCEPT !.pc = "find", !.context = s]
<1>3. /\ WorkerGood(work[p], row[m], m \in disturbed) /\ RowGood(row[m], m \in disturbed)
      /\ m \in Messages /\ TypeOK
      /\ work[p] \in Work /\ row[m] \in Row
  BY <1>2, Known
<1>4. w \in Work /\ w.message = m /\ w.pc = "find"
  BY <1>3, Values DEF Work
<1>5. work' = [work EXCEPT ![p] = w] /\ row' = [row EXCEPT ![m] = row[m]] /\ job' = job
  BY <1>1, <1>3 DEF GetActiveContext, TypeOK, Work
<1>6. WorkerGood(w, row[m], m \in disturbed')
  BY <1>2, <1>3, <1>4 DEF GetActiveContext, WorkerGood
<1>7. RowGood(row[m], m \in disturbed') /\ NoEdit /\ NoFault
  BY <1>3 DEF GetActiveContext
<1> HIDE DEF w, NoEdit, NoFault
<1> QED BY <1>2, <1>3, <1>4, <1>5, <1>6, <1>7, Advance

\* Steps that only go on.
LEMMA GotoKeeps ==
  ASSUME MediaInv, NEW p \in Procs, work[p].pc # "idle", NEW pc \in Pc, pc # "idle",
         Goto(p, pc), UNCHANGED <<row, job>>, NoEdit, NoFault \/ Fault(work[p].message),
         LET m == work[p].message
         IN WorkerGood(work[p], row[m], m \in disturbed)
              => WorkerGood([work[p] EXCEPT !.pc = pc], row[m], m \in disturbed')
  PROVE  MediaInv'
<1> DEFINE m == work[p].message
           w == [work[p] EXCEPT !.pc = pc]
<1>1. /\ WorkerGood(work[p], row[m], m \in disturbed) /\ RowGood(row[m], m \in disturbed)
      /\ m \in Messages /\ TypeOK
      /\ work[p] \in Work /\ row[m] \in Row
  BY Known
<1>2. w \in Work /\ w.message = m /\ w.pc = pc
  BY <1>1 DEF Work
<1>3. work' = [work EXCEPT ![p] = w] /\ row' = [row EXCEPT ![m] = row[m]]
  BY <1>1, GotoTyped DEF TypeOK
<1>4. RowGood(row[m], m \in disturbed')
  BY <1>1 DEF RowGood, Fault
<1>5. WorkerGood(w, row[m], m \in disturbed')
  BY <1>1
<1>6. NoEdit /\ (NoFault \/ Fault(m)) /\ job' = job
  OBVIOUS
<1> HIDE DEF w, NoEdit, NoFault
<1> QED BY <1>1, <1>2, <1>3, <1>4, <1>5, <1>6, Advance

LEMMA ResolveKeeps ==
  ASSUME MediaInv, NEW p \in Procs, ResolveConversation(p) PROVE MediaInv'
<1> DEFINE m == work[p].message
           pc == IF ai[m] THEN "getContext" ELSE "omit"
<1>1. work[p].pc = "resolve" /\ Goto(p, pc) /\ UNCHANGED <<row, job>> /\ NoEdit /\ NoFault
  BY DEF ResolveConversation, At
<1>2. pc \in Pc /\ pc \in {"getContext", "omit"}
  BY DEF Pc
<1>3. WorkerGood(work[p], row[m], m \in disturbed) /\ work[p] \in Work
  BY <1>1, Known
<1> HIDE DEF pc
<1>4. WorkerGood([work[p] EXCEPT !.pc = pc], row[m], m \in disturbed')
  BY <1>1, <1>2, <1>3 DEF WorkerGood, Work
<1> HIDE DEF NoEdit, NoFault
<1> QED BY <1>1, <1>2, <1>4, GotoKeeps

LEMMA FindKeeps ==
  ASSUME MediaInv, NEW p \in Procs, Find(p) PROVE MediaInv'
<1> DEFINE m == work[p].message
           pc == IF ~Admits(work[p].context, row[m].medium.type) THEN "markSkipped"
                 ELSE IF row[m].medium.mediaUrl = "none" THEN "markFailed" ELSE "markProcessing"
<1>1. work[p].pc = "find" /\ Goto(p, pc) /\ UNCHANGED <<row, job>> /\ NoEdit /\ NoFault
  BY DEF Find, At
<1>2. pc \in Pc /\ pc # "idle"
  BY DEF Pc
<1>3. row[m].medium.mediaUrl = "none" => ~Fetchable(row[m].medium)
  BY DEF Fetchable
<1>4. WorkerGood(work[p], row[m], m \in disturbed) /\ work[p] \in Work
  BY <1>1, Known
<1>5. WorkerGood([work[p] EXCEPT !.pc = pc], row[m], m \in disturbed')
  BY <1>1, <1>3, <1>4 DEF WorkerGood, Outcome, Work
<1> HIDE DEF pc, NoEdit, NoFault
<1> QED BY <1>1, <1>2, <1>5, GotoKeeps

\* FetchGraph, GetFile and Download go on if what they fetch is there.
LEMMA FetchKeeps ==
  ASSUME MediaInv, NEW p \in Procs, FetchGraph(p) \/ GetFile(p) \/ Download(p)
  PROVE  MediaInv'
<1> DEFINE m == work[p].message
<1>1. PICK pc \in {"download", "transcribe", "markFailed"} :
        /\ work[p].pc \in {"graph", "getFile", "download"}
        /\ Goto(p, pc) /\ UNCHANGED <<row, job>> /\ NoEdit /\ NoFault
        /\ pc = "transcribe" => Fetchable(row[m].medium)
        /\ pc = "markFailed" => ~Fetchable(row[m].medium)
  <2>1. CASE FetchGraph(p) \/ GetFile(p)
    BY <2>1 DEF FetchGraph, GetFile, AskFor, At
  <2>2. CASE Download(p)
    BY <2>2 DEF Download, At
  <2> QED BY <2>1, <2>2
<1>2. pc \in Pc /\ pc # "idle" /\ work[p].pc # "idle"
  BY <1>1 DEF Pc
<1>3. WorkerGood(work[p], row[m], m \in disturbed) /\ work[p] \in Work
  BY <1>2, Known
<1>4. WorkerGood([work[p] EXCEPT !.pc = pc], row[m], m \in disturbed')
  BY <1>1, <1>3 DEF WorkerGood, Outcome, Work
<1> HIDE DEF NoEdit, NoFault
<1> QED BY <1>1, <1>2, <1>4, GotoKeeps

LEMMA TranscribeKeeps ==
  ASSUME MediaInv, NEW p \in Procs, Transcribe(p) PROVE MediaInv'
<1> DEFINE m == work[p].message
<1>1. work[p].pc = "transcribe" /\ UNCHANGED <<row, job>> /\ NoEdit /\ NoFault
  BY DEF Transcribe, At
<1>2. /\ WorkerGood(work[p], row[m], m \in disturbed) /\ RowGood(row[m], m \in disturbed)
      /\ m \in Messages /\ TypeOK /\ work[p] \in Work /\ row[m] \in Row
  BY <1>1, Known
<1>3. CASE ~Transcribes(work[p].by, work[p].context) /\ Goto(p, "markFailed")
  <2>1. WorkerGood([work[p] EXCEPT !.pc = "markFailed"], row[m], m \in disturbed')
    BY <1>1, <1>2, <1>3 DEF WorkerGood, Outcome, Work
  <2>2. "markFailed" \in Pc
    BY DEF Pc
  <2> HIDE DEF NoEdit, NoFault
  <2> QED BY <1>1, <1>3, <2>1, <2>2, GotoKeeps
<1>4. ASSUME Transcribes(work[p].by, work[p].context), NEW empty \in BOOLEAN,
             work' = [work EXCEPT ![p].pc = "complete", ![p].empty = empty]
      PROVE  MediaInv'
  <2> DEFINE w == [work[p] EXCEPT !.pc = "complete", !.empty = empty]
  <2>1. w \in Work /\ w.message = m /\ w.pc = "complete"
    BY <1>2 DEF Work, Pc
  <2>2. work' = [work EXCEPT ![p] = w] /\ row' = [row EXCEPT ![m] = row[m]] /\ job' = job
    BY <1>1, <1>2, <1>4 DEF TypeOK, Work
  <2>3. WorkerGood(w, row[m], m \in disturbed')
    BY <1>1, <1>2, <1>4 DEF WorkerGood, Work
  <2>4. RowGood(row[m], m \in disturbed') /\ NoEdit /\ NoFault
    BY <1>1, <1>2
  <2> HIDE DEF w, NoEdit, NoFault
  <2> QED BY <1>1, <1>2, <2>1, <2>2, <2>3, <2>4, Advance
<1> QED BY <1>3, <1>4 DEF Transcribe

LEMMA MarkProcessingKeeps ==
  ASSUME MediaInv, NEW p \in Procs, MarkProcessing(p) PROVE MediaInv'
<1> DEFINE m == work[p].message
           by == Transcriber(work[p].context, row[m].medium.type)
           pc == IF by = None THEN "markFailed" ELSE FirstFetch(row[m].medium)
           w == [work[p] EXCEPT !.by = by, !.pc = pc]
           r == [row[m] EXCEPT !.status = "PROCESSING"]
<1>1. work[p].pc = "markProcessing" /\ job' = job /\ NoEdit /\ NoFault
  BY DEF MarkProcessing, At
<1>2. /\ WorkerGood(work[p], row[m], m \in disturbed) /\ RowGood(row[m], m \in disturbed)
      /\ m \in Messages /\ TypeOK /\ work[p] \in Work /\ row[m] \in Row
  BY <1>1, Known
<1>3. work[p].context \in AiContext
  BY <1>1, <1>2 DEF WorkerGood, Admits, Work
<1>4. by \in Provider \cup {None} /\ pc \in {"download", "getFile", "graph", "markFailed"}
  BY <1>2, <1>3, Values DEF Row
<1>5. FirstFetch(row[m].medium) = "markFailed" => ~Fetchable(row[m].medium)
  <2>1. row[m].medium \in Media
    BY <1>2 DEF Row
  <2>2. row[m].medium.channel \in Channel
    BY <2>1, MediaAssumption
  <2> QED BY <2>2 DEF FirstFetch, Fetchable, Channel
<1>6. w \in Work /\ w.message = m /\ w.pc = pc /\ w.by = by /\ w.context = work[p].context
  BY <1>2, <1>4 DEF Work, Pc
<1>7. r \in Row /\ r.medium = row[m].medium /\ r.status = "PROCESSING"
      /\ r.transcription = row[m].transcription /\ r.under = row[m].under
  BY <1>2 DEF Row, Status
<1>8. work' = [work EXCEPT ![p] = w] /\ row' = [row EXCEPT ![m] = r]
  BY <1>2 DEF MarkProcessing, Processing, TypeOK, Work
<1>9. WorkerGood(w, r, m \in disturbed')
  BY <1>1, <1>2, <1>4, <1>5, <1>6, <1>7 DEF WorkerGood, Outcome
<1>10. RowGood(r, m \in disturbed')
  <2>1. row[m].transcription # None => m \in disturbed
    BY <1>1, <1>2 DEF RowGood, WorkerGood
  <2> QED BY <1>1, <1>2, <1>7, <2>1 DEF RowGood, Decided
<1> HIDE DEF w, r, pc, by, NoEdit, NoFault
<1> QED BY <1>1, <1>2, <1>4, <1>6, <1>7, <1>8, <1>9, <1>10, Advance

\* The row after the last update of a medium that was transcribed.
LEMMA CompletedGood ==
  ASSUME MediaInv, NEW p \in Procs, work[p].pc = "complete",
         NEW m, m = work[p].message
  PROVE  \E r \in Row : /\ Completed(p) = [row EXCEPT ![m] = r]
                        /\ r.medium = row[m].medium /\ r.status = "COMPLETED"
                        /\ RowGood(r, FALSE)
<1>1. /\ WorkerGood(work[p], row[m], m \in disturbed) /\ m \in Messages /\ TypeOK
      /\ work[p] \in Work /\ row[m] \in Row
  BY Known
<1> DEFINE t == [by |-> work[p].by, empty |-> work[p].empty]
           r == [row[m] EXCEPT !.status = "COMPLETED", !.under = work[p].context,
                               !.transcription = t]
<1>2. t \in Transcription /\ t.by = work[p].by /\ t # None
  <2>1. t \in Transcription
    BY <1>1 DEF Work, Transcription, WorkerGood
  <2> QED BY <2>1, MediaAssumption DEF Transcription
<1>3. r \in Row
  BY <1>1, <1>2 DEF Row, Status, Work
<1>4. /\ r.medium = row[m].medium /\ r.status = "COMPLETED"
      /\ r.transcription = t /\ r.under = work[p].context
  BY <1>1 DEF Row
<1>5. row[m].medium.type \in Supported(work[p].by)
  BY <1>1 DEF WorkerGood, Transcriber
<1>6. Outcome(r.medium, r.under) = "COMPLETED"
  BY <1>1, <1>4 DEF WorkerGood, Outcome
<1>7. RowGood(r, FALSE)
  BY <1>2, <1>4, <1>5, <1>6 DEF RowGood
<1>8. Completed(p) = [row EXCEPT ![m] = r]
  BY <1>1 DEF Completed
<1> QED BY <1>3, <1>4, <1>7, <1>8

LEMMA CompleteKeeps ==
  ASSUME MediaInv, NEW p \in Procs, Complete(p) PROVE MediaInv'
<1> DEFINE m == work[p].message
           w == [work[p] EXCEPT !.pc = "schedule"]
<1>1. /\ work[p].pc = "complete" /\ job' = job /\ NoEdit /\ NoFault
      /\ row' = Completed(p) /\ Goto(p, "schedule")
  BY DEF Complete, At
<1>2. TypeOK /\ work[p] \in Work
  BY <1>1, Known
<1>3. PICK r \in Row : /\ Completed(p) = [row EXCEPT ![m] = r]
                       /\ r.medium = row[m].medium /\ r.status = "COMPLETED"
                       /\ RowGood(r, FALSE)
  BY <1>1, CompletedGood
<1>4. w \in Work /\ w.message = m /\ w.pc = "schedule" /\ "schedule" \in Pc
  BY <1>2 DEF Work, Pc
<1>5. work' = [work EXCEPT ![p] = w]
  BY <1>1, <1>2, <1>4, GotoTyped
<1>6. WorkerGood(w, r, m \in disturbed') /\ RowGood(r, m \in disturbed')
  BY <1>3, <1>4 DEF WorkerGood, RowGood, Decided
<1> HIDE DEF w, NoEdit, NoFault
<1> QED BY <1>1, <1>3, <1>4, <1>5, <1>6, Advance

LEMMA MarkKeeps ==
  ASSUME MediaInv, NEW p \in Procs, MarkSkipped(p) \/ MarkFailed(p) PROVE MediaInv'
<1> DEFINE m == work[p].message
           w == [work[p] EXCEPT !.pc = "schedule"]
<1>1. PICK status \in {"SKIPPED", "FAILED"} :
        /\ work[p].pc = IF status = "SKIPPED" THEN "markSkipped" ELSE "markFailed"
        /\ row' = Marked(p, status) /\ Goto(p, "schedule")
        /\ job' = job /\ NoEdit /\ NoFault
  BY DEF MarkSkipped, MarkFailed, At
<1>2. /\ WorkerGood(work[p], row[m], m \in disturbed) /\ RowGood(row[m], m \in disturbed)
      /\ m \in Messages /\ TypeOK /\ work[p] \in Work /\ row[m] \in Row
  BY <1>1, Known
<1> DEFINE r == [row[m] EXCEPT !.status = status, !.under = work[p].context]
<1>3. /\ r \in Row /\ r.medium = row[m].medium /\ r.status = status
      /\ r.transcription = row[m].transcription /\ r.under = work[p].context
  BY <1>2 DEF Row, Status, Work
<1>4. row' = [row EXCEPT ![m] = r]
  BY <1>1, <1>2 DEF Marked, TypeOK, Row
<1>5. w \in Work /\ w.message = m /\ w.pc = "schedule" /\ "schedule" \in Pc
  BY <1>2 DEF Work, Pc
<1>6. work' = [work EXCEPT ![p] = w]
  BY <1>1, <1>2, <1>5, GotoTyped
<1>7. WorkerGood(w, r, m \in disturbed')
  BY <1>3, <1>5 DEF WorkerGood, Decided
<1>8. RowGood(r, m \in disturbed')
  <2>1. row[m].transcription # None => m \in disturbed
    BY <1>1, <1>2 DEF RowGood, WorkerGood
  <2>2. r.status = Outcome(r.medium, r.under)
        \/ (r.status = "FAILED" /\ Outcome(r.medium, r.under) = "COMPLETED" /\ m \in disturbed)
    BY <1>1, <1>2, <1>3 DEF WorkerGood, Outcome
  <2> QED BY <1>1, <1>2, <1>3, <2>1, <2>2 DEF RowGood
<1> HIDE DEF w, r, NoEdit, NoFault
<1> QED BY <1>1, <1>2, <1>3, <1>4, <1>5, <1>6, <1>7, <1>8, Advance

LEMMA CaughtKeeps ==
  ASSUME MediaInv, NEW p \in Procs, Caught(p) PROVE MediaInv'
<1> DEFINE m == work[p].message
           w == [work[p] EXCEPT !.pc = "markFailed"]
<1>1. /\ work[p].pc \in {"graph", "getFile", "download", "transcribe", "complete"}
      /\ Fault(m) /\ Goto(p, "markFailed") /\ job' = job /\ NoEdit
      /\ row' = row \/ (work[p].pc = "complete" /\ row' = Completed(p))
  BY DEF Caught, At
<1>2. /\ WorkerGood(work[p], row[m], m \in disturbed) /\ RowGood(row[m], m \in disturbed)
      /\ m \in Messages /\ TypeOK /\ work[p] \in Work /\ row[m] \in Row
  BY <1>1, Known
<1>3. m \in disturbed'
  BY <1>1 DEF Fault
<1>4. PICK r \in Row : /\ row' = [row EXCEPT ![m] = r] /\ r.medium = row[m].medium
                       /\ RowGood(r, TRUE)
  <2>1. CASE row' = row
    <3>1. row' = [row EXCEPT ![m] = row[m]]
      BY <1>2, <2>1 DEF TypeOK
    <3>2. RowGood(row[m], TRUE)
      BY <1>2 DEF RowGood
    <3> QED BY <1>2, <3>1, <3>2
  <2>2. CASE work[p].pc = "complete" /\ row' = Completed(p)
    <3>1. \A s : RowGood(s, FALSE) => RowGood(s, TRUE)
      BY DEF RowGood
    <3> QED BY <2>2, <3>1, CompletedGood
  <2> QED BY <1>1, <2>1, <2>2
<1>5. w \in Work /\ w.message = m /\ w.pc = "markFailed" /\ "markFailed" \in Pc
  BY <1>2 DEF Work, Pc
<1>6. work' = [work EXCEPT ![p] = w]
  BY <1>1, <1>2, <1>5, GotoTyped
<1>7. WorkerGood(w, r, m \in disturbed')
  <2>1. w.context = work[p].context
    BY <1>2 DEF Work
  <2> QED BY <1>1, <1>2, <1>3, <1>4, <1>5, <2>1 DEF WorkerGood
<1>8. RowGood(r, m \in disturbed')
  BY <1>3, <1>4 DEF RowGood
<1> HIDE DEF w, NoEdit, NoFault
<1> QED BY <1>1, <1>2, <1>4, <1>5, <1>6, <1>7, <1>8, Advance

\* A worker lets go of its job, with its end, an error or a crash.
LEMMA Release ==
  ASSUME MediaInv, NEW p \in Procs, work[p].pc # "idle", NEW m, m = work[p].message,
         NEW r \in Row, NEW j \in Job, r.medium = row[m].medium,
         work' = [work EXCEPT ![p] = Idle], row' = [row EXCEPT ![m] = r],
         job' = [job EXCEPT ![m] = j], NoEdit, NoFault \/ Fault(m),
         RowGood(r, m \in disturbed'),
         j.state = "completed" => LeftBy(r, j, m \in disturbed'),
         j.state = "completed" \/ m \in disturbed'
  PROVE  MediaInv'
<1>1. MessageState(m) /\ m \in Messages
  BY Holding
<1>2. Idle \in Work /\ Idle.message = None /\ Idle.pc = "idle"
  BY DEF Idle, Work, Pc
<1>3. ASSUME work'[p] = Idle, row'[m] = r, job'[m] = j
      PROVE  WorkState(p)' /\ MessageState(m)'
  <2>1. WorkState(p)'
    BY <1>2, <1>3 DEF WorkState, At
  <2>2. told' = told
    OBVIOUS
  <2>3. MessageState(m)'
    BY <1>1, <1>3, <2>2 DEF MessageState, RowState, RowGood, LeftBy, Decided
  <2> QED BY <2>1, <2>3
<1> HIDE DEF NoEdit, NoFault
<1> QED BY <1>2, <1>3, WorkerLocal

\* The AI was off: nothing was written.
LEMMA OmitKeeps ==
  ASSUME MediaInv, NEW p \in Procs, Omit(p) PROVE MediaInv'
<1> DEFINE m == work[p].message
           j == [job[m] EXCEPT !.state = "completed", !.omitted = TRUE]
<1>1. /\ work[p].pc = "omit" /\ work' = [work EXCEPT ![p] = Idle]
      /\ row' = row /\ NoEdit /\ NoFault
  BY DEF Omit, At
<1>2. /\ WorkerGood(work[p], row[m], m \in disturbed) /\ RowGood(row[m], m \in disturbed)
      /\ m \in Messages /\ TypeOK /\ row[m] \in Row /\ job[m] \in Job
  BY <1>1, Known
<1>3. j \in Job /\ j.state = "completed" /\ j.omitted
  BY <1>2 DEF Job
<1>4. job' = [job EXCEPT ![m] = j] /\ row' = [row EXCEPT ![m] = row[m]]
  BY <1>1, <1>2 DEF Omit, TypeOK, Job
<1>5. LeftBy(row[m], j, m \in disturbed') /\ RowGood(row[m], m \in disturbed')
  BY <1>1, <1>2, <1>3 DEF WorkerGood, LeftBy
<1> HIDE DEF j, NoEdit, NoFault
<1> QED BY <1>1, <1>2, <1>3, <1>4, <1>5, Release

LEMMA ScheduleKeeps ==
  ASSUME MediaInv, NEW p \in Procs, Schedule(p) PROVE MediaInv'
<1> DEFINE m == work[p].message
           j == [job[m] EXCEPT !.state = "completed", !.omitted = FALSE]
<1>1. /\ work[p].pc = "schedule" /\ work' = [work EXCEPT ![p] = Idle]
      /\ row' = row /\ NoEdit /\ NoFault
  BY DEF Schedule, At
<1>2. /\ WorkerGood(work[p], row[m], m \in disturbed) /\ RowGood(row[m], m \in disturbed)
      /\ m \in Messages /\ TypeOK /\ row[m] \in Row /\ job[m] \in Job
  BY <1>1, Known
<1>3. j \in Job /\ j.state = "completed" /\ ~j.omitted
  BY <1>2 DEF Job
<1>4. job' = [job EXCEPT ![m] = j] /\ row' = [row EXCEPT ![m] = row[m]]
  BY <1>1, <1>2 DEF Schedule, TypeOK, Job
<1>5. LeftBy(row[m], j, m \in disturbed') /\ RowGood(row[m], m \in disturbed')
  BY <1>1, <1>2, <1>3 DEF WorkerGood, LeftBy
<1> HIDE DEF j, NoEdit, NoFault
<1> QED BY <1>1, <1>2, <1>3, <1>4, <1>5, Release

LEMMA ThrowKeeps ==
  ASSUME MediaInv, NEW p \in Procs, Throw(p) PROVE MediaInv'
<1> DEFINE m == work[p].message
           state == IF job[m].attempts + 1 < Attempts THEN "queued" ELSE "failed"
           j == [job[m] EXCEPT !.state = state, !.attempts = @ + 1]
<1>1. /\ work[p].pc # "idle" /\ work' = [work EXCEPT ![p] = Idle]
      /\ Fault(m) /\ NoEdit
      /\ row' = row \/ (work[p].pc = "markProcessing" /\ row' = Processing(m))
  BY DEF Throw, At
<1>2. /\ WorkerGood(work[p], row[m], m \in disturbed) /\ RowGood(row[m], m \in disturbed)
      /\ m \in Messages /\ TypeOK /\ row[m] \in Row /\ job[m] \in Job
  BY <1>1, Known
<1>3. m \in disturbed'
  BY <1>1 DEF Fault
<1>4. PICK r \in Row : /\ row' = [row EXCEPT ![m] = r] /\ r.medium = row[m].medium
                       /\ RowGood(r, TRUE)
  <2>1. CASE row' = row
    <3>1. row' = [row EXCEPT ![m] = row[m]]
      BY <1>2, <2>1 DEF TypeOK
    <3>2. RowGood(row[m], TRUE)
      BY <1>2 DEF RowGood
    <3> QED BY <1>2, <3>1, <3>2
  <2>2. CASE row' = Processing(m)
    <3> DEFINE s == [row[m] EXCEPT !.status = "PROCESSING"]
    <3>1. s \in Row /\ s.medium = row[m].medium /\ s.status = "PROCESSING"
          /\ s.transcription = row[m].transcription
      BY <1>2 DEF Row, Status
    <3>2. RowGood(s, TRUE)
      BY <1>2, <3>1 DEF RowGood, Decided
    <3>3. row' = [row EXCEPT ![m] = s]
      BY <1>2, <2>2 DEF Processing
    <3> QED BY <3>1, <3>2, <3>3
  <2> QED BY <1>1, <2>1, <2>2
<1>5. j \in Job /\ j.state # "completed"
  <2> DEFINE n == job[m].attempts + 1
  <2>1. /\ state \in {"queued", "failed"} /\ n \in Nat
        /\ j = [job[m] EXCEPT !.state = state, !.attempts = n]
    BY <1>2 DEF Job
  <2> HIDE DEF state, n, j
  <2> QED BY <1>2, <2>1 DEF Job
<1>6. job' = [job EXCEPT ![m] = j]
  BY <1>2 DEF Throw, TypeOK, Job
<1>7. RowGood(r, m \in disturbed')
  BY <1>3, <1>4 DEF RowGood
<1> HIDE DEF j, NoEdit, NoFault
<1> QED BY <1>1, <1>3, <1>4, <1>5, <1>6, <1>7, Release

LEMMA CrashKeeps ==
  ASSUME MediaInv, NEW p \in Procs, Crash(p) PROVE MediaInv'
<1> DEFINE m == work[p].message
<1>1. /\ work[p].pc # "idle" /\ work' = [work EXCEPT ![p] = Idle]
      /\ Fault(m) /\ NoEdit /\ row' = row /\ job' = job
  BY DEF Crash, At
<1>2. /\ RowGood(row[m], m \in disturbed) /\ m \in Messages /\ TypeOK
      /\ row[m] \in Row /\ job[m] \in Job /\ job[m].state = "active"
  BY <1>1, Known, Holding
<1>3. m \in disturbed' /\ RowGood(row[m], m \in disturbed')
  BY <1>1, <1>2 DEF Fault, RowGood
<1>4. row' = [row EXCEPT ![m] = row[m]] /\ job' = [job EXCEPT ![m] = job[m]]
  BY <1>1, <1>2 DEF TypeOK
<1> HIDE DEF NoEdit, NoFault
<1> QED BY <1>1, <1>2, <1>3, <1>4, Release

-----------------------------------------------------------------------------
(* Steps that take up a job, and those of the queue, the agents and the AI worker. *)

LEMMA PickKeeps ==
  ASSUME MediaInv, NEW p \in Procs, NEW m \in Messages, Pick(p, m) PROVE MediaInv'
<1> DEFINE w == [Idle EXCEPT !.pc = "resolve", !.message = m]
           Free == Procs \ {p}
<1>1. /\ work[p].pc = "idle" /\ job[m].state = "queued"
      /\ job' = [job EXCEPT ![m].state = "active"] /\ work' = [work EXCEPT ![p] = w]
      /\ row' = row /\ NoEdit /\ NoFault
  BY DEF Pick
<1>2. TypeOK /\ job[m] \in Job /\ row[m] \in Row /\ MessageState(m) /\ work[p] \in Work
  BY InvByParts DEF TypeOK
<1>3. /\ w \in Work /\ w.pc = "resolve" /\ w.message = m /\ m # None
      /\ work[p].message = None
  <2>1. work[p].message = None
    BY <1>1 DEF MediaInv, WorkState
  <2> QED BY <2>1, MediaAssumption DEF Idle, Work, Pc
<1>4. \A q \in Procs : work[q].message # m
  BY <1>1, <1>3 DEF MediaInv, WorkState
<1>5. /\ job' \in [Messages -> Job] /\ job'[m].state = "active"
      /\ \A n \in Messages \ {m} : job'[n] = job[n]
  BY <1>1, <1>2 DEF TypeOK, Job
<1>6. work'[p] = w /\ \A q \in Free : work'[q] = work[q]
  BY <1>1, <1>2 DEF TypeOK
<1>7. TypeOK'
  BY <1>1, <1>2, <1>3, <1>5 DEF TypeOK
<1>8. WorkState(p)'
  <2>1. row[m].status = "PENDING" \/ m \in disturbed
    BY <1>1, <1>2 DEF MessageState, RowState
  <2> HIDE DEF w
  <2> QED BY <1>1, <1>3, <1>4, <1>5, <1>6, <2>1 DEF WorkState, At
<1>9. MessageState(m)'
  <2>1. \E q \in Procs : work'[q].message = m
    BY <1>3, <1>6
  <2>2. told' = told /\ row' = row /\ disturbed' = disturbed
    BY <1>1
  <2> HIDE DEF w
  <2> QED BY <1>2, <1>5, <2>1, <2>2 DEF MessageState, RowState
<1>10. \A q \in Procs \ Free : /\ work[q].message \in {m, None}
                               /\ work'[q].message \in {m, None} /\ WorkState(q)'
  BY <1>3, <1>6, <1>8
<1>11. \A q \in Free : work'[q] = work[q] /\ work[q].message # m
  BY <1>4, <1>6
<1>12. /\ told' = told /\ disturbed' = disturbed /\ row' = row /\ Free \in SUBSET Procs
  BY <1>1
<1> HIDE DEF w, Free, NoEdit, NoFault
<1> QED BY <1>5, <1>7, <1>9, <1>10, <1>11, <1>12, Local

\* The stalled checker, and a webhook that is repeated: nobody holds the job.
LEMMA QueueKeeps ==
  ASSUME MediaInv, NEW m \in Messages, Stalled(m) \/ Redeliver(m) PROVE MediaInv'
<1>1. TypeOK /\ job[m] \in Job /\ MessageState(m)
  BY InvByParts DEF MediaInv, TypeOK
<1>2. PICK j \in Job : job' = [job EXCEPT ![m] = j] /\ j.state \in {"queued", "failed"}
  <2>1. CASE Stalled(m)
    <3> DEFINE state == IF job[m].stalls < MaxStalls THEN "queued" ELSE "failed"
               j == [job[m] EXCEPT !.state = state, !.stalls = @ + 1]
    <3>1. j \in Job /\ j.state \in {"queued", "failed"}
      <4> DEFINE n == job[m].stalls + 1
      <4>1. /\ state \in {"queued", "failed"} /\ n \in Nat
            /\ j = [job[m] EXCEPT !.state = state, !.stalls = n]
        BY <1>1 DEF Job
      <4> HIDE DEF state, n, j
      <4> QED BY <1>1, <4>1 DEF Job
    <3>2. job' = [job EXCEPT ![m] = j]
      BY <1>1, <2>1 DEF Stalled, TypeOK, Job
    <3> QED BY <3>1, <3>2
  <2>2. CASE Redeliver(m)
    <3>1. NewJob \in Job /\ NewJob.state = "queued"
      BY DEF Job, NewJob
    <3> QED BY <2>2, <3>1 DEF Redeliver
  <2> QED BY <2>1, <2>2
<1>3. \A q \in Procs : work[q].message # m
  <2>1. CASE Stalled(m)
    BY <2>1 DEF Stalled
  <2>2. CASE Redeliver(m)
    <3>1. job[m].state # "active" /\ m # None
      BY <2>2, MediaAssumption DEF Redeliver
    <3> QED BY <3>1 DEF MediaInv, WorkState
  <2> QED BY <2>1, <2>2
<1>4. /\ work' = work /\ row' = row /\ told' = told /\ NoEdit
      /\ disturbed' \in {disturbed, disturbed \cup {m}}
      /\ m \in disturbed' /\ faults' \in Nat
  <2>1. CASE Stalled(m)
    BY <1>1, <1>3, <2>1 DEF Stalled, MessageState, RowState, TypeOK
  <2>2. CASE Redeliver(m)
    BY <1>1, <2>2 DEF Redeliver, Fault, TypeOK
  <2> QED BY <2>1, <2>2
<1>5. TypeOK'
  BY <1>1, <1>2, <1>4 DEF TypeOK
<1>6. job'[m] = j /\ \A n \in Messages \ {m} : job'[n] = job[n]
  BY <1>1, <1>2 DEF TypeOK
<1>7. MessageState(m)'
  BY <1>1, <1>2, <1>4, <1>6 DEF MessageState, RowState
<1> DEFINE Free == Procs
<1>8. Free \in SUBSET Procs /\ \A q \in Free : work'[q] = work[q] /\ work[q].message # m
  BY <1>3, <1>4
<1>9. \A q \in Procs \ Free : /\ work[q].message \in {m, None}
                              /\ work'[q].message \in {m, None} /\ WorkState(q)'
  OBVIOUS
<1>10. disturbed \subseteq disturbed' /\ disturbed' \subseteq disturbed \cup {m}
  BY <1>4
<1> HIDE DEF Free, NoEdit, NoFault
<1> QED BY <1>4, <1>5, <1>6, <1>7, <1>8, <1>9, <1>10, Local

\* A step that moves neither messages nor workers.
LEMMA ElsewhereKeeps ==
  ASSUME MediaInv, TypeOK', UNCHANGED <<row, job, work, disturbed>>,
         \A m \in Messages : told'[m].after => told'[m].status \in Decided
  PROVE  MediaInv'
<1>1. \A p \in Procs : WorkState(p)'
  BY DEF MediaInv, WorkState, At
<1>2. \A m \in Messages : MessageState(m)'
  <2> SUFFICES ASSUME NEW m \in Messages PROVE MessageState(m)'
    OBVIOUS
  <2>1. MessageState(m)
    BY InvByParts
  <2> QED BY <2>1 DEF MessageState, RowState
<1>3. \A m \in Messages : RowState(m)'
  BY <1>2 DEF MessageState
<1>4. OneContextDecides' /\ TranscriptionStaysUsable'
  BY <1>2 DEF MessageState, OneContextDecides, TranscriptionStaysUsable
<1>5. DecidedWhenScheduled' /\ ProcessingIsLive'
  BY <1>2 DEF MessageState, LeftBy, DecidedWhenScheduled, ProcessingIsLive
<1> QED BY <1>1, <1>3, <1>4, <1>5 DEF MediaInv

LEMMA AgentKeeps ==
  ASSUME MediaInv,
         \/ CreateContext
         \/ \E i \in Contexts : EditContext(i)
         \/ \E m \in Messages : SwitchAi(m)
  PROVE  MediaInv'
<1>1. TypeOK /\ \A m \in Messages : told[m].after => told[m].status \in Decided
  BY DEF MediaInv, DecidedWhenScheduled
<1>2. UNCHANGED <<row, told, job, work, disturbed, faults>>
  BY DEF CreateContext, EditContext, SwitchAi
<1>3. /\ context' \in [Contexts -> Settings \cup {None}]
      /\ created' \in 0..MaxContexts /\ edits' \in Nat
      /\ ai' \in [Messages -> BOOLEAN]
  <2>1. ASSUME CreateContext
        PROVE  /\ context' \in [Contexts -> Settings \cup {None}] /\ created' \in 0..MaxContexts
               /\ edits' = edits /\ ai' = ai
    <3>1. PICK s \in Settings : context' = [context EXCEPT ![created + 1] = s]
      BY <2>1 DEF CreateContext
    <3>2. context' \in [Contexts -> Settings \cup {None}]
      BY <1>1, <3>1 DEF TypeOK
    <3>3. created' \in 0..MaxContexts
      BY <1>1, <2>1, MediaAssumption DEF CreateContext, TypeOK, MediaAssumption
    <3> QED
      BY <2>1, <3>2, <3>3 DEF CreateContext
  <2>2. ASSUME NEW i \in Contexts, EditContext(i)
        PROVE  /\ context' \in [Contexts -> Settings \cup {None}] /\ edits' \in Nat
               /\ created' = created /\ ai' = ai
    BY <1>1, <2>2 DEF EditContext, TypeOK
  <2>3. ASSUME NEW m \in Messages, SwitchAi(m)
        PROVE  ai' \in [Messages -> BOOLEAN] /\ edits' \in Nat
               /\ created' = created /\ context' = context
    <3> DEFINE on == ~ai[m]
    <3>1. on \in BOOLEAN
      OBVIOUS
    <3>2. ai' = [ai EXCEPT ![m] = on]
      BY <2>3 DEF SwitchAi
    <3> HIDE DEF on
    <3> QED
      BY <1>1, <2>3, <3>1, <3>2 DEF SwitchAi, TypeOK
  <2> QED BY <1>1, <2>1, <2>2, <2>3 DEF TypeOK
<1>4. TypeOK'
  BY <1>1, <1>2, <1>3 DEF TypeOK
<1> QED BY <1>1, <1>2, <1>4, ElsewhereKeeps

LEMMA FormatKeeps ==
  ASSUME MediaInv, NEW m \in Messages, FormatMessageForAi(m) PROVE MediaInv'
<1> DEFINE t == [as |-> FormatFor(row[m]), status |-> row[m].status,
                 after |-> job[m].state = "completed" /\ ~job[m].omitted]
<1>1. TypeOK /\ row[m] \in Row /\ MessageState(m)
  BY InvByParts DEF TypeOK
<1>2. t \in Told
  BY <1>1 DEF Told, Row, FormatFor
<1>3. UNCHANGED <<context, created, ai, row, job, work, disturbed, edits, faults>>
      /\ told' = [told EXCEPT ![m] = t]
  BY DEF FormatMessageForAi
<1>4. TypeOK'
  BY <1>1, <1>2, <1>3 DEF TypeOK
<1>5. t.after => t.status \in Decided
  BY <1>1 DEF MessageState, LeftBy
<1>6. \A n \in Messages : told'[n].after => told'[n].status \in Decided
  BY <1>1, <1>3, <1>5 DEF MediaInv, DecidedWhenScheduled, TypeOK
<1> QED BY <1>3, <1>4, <1>6, ElsewhereKeeps

-----------------------------------------------------------------------------
(* The theorems. *)

LEMMA InitKeeps == Init => MediaInv
<1> SUFFICES ASSUME Init PROVE MediaInv
  OBVIOUS
<1>1. TypeOK
  BY InitTyped
<1>2. \A m \in Messages : /\ row[m].status = "PENDING" /\ row[m].transcription = None
                          /\ job[m].state = "queued" /\ ~told[m].after
  BY DEF Init, NewJob
<1>3. \A p \in Procs : work[p].pc = "idle" /\ work[p].message = None
  BY DEF Init, Idle
<1>4. \A p \in Procs : WorkState(p)
  BY <1>3 DEF WorkState, At
<1>5. \A m \in Messages : MessageState(m)
  BY <1>2 DEF MessageState, RowState, Decided
<1> QED BY <1>1, <1>4, <1>5, InvByParts

LEMMA NextKeeps == MediaInv /\ [Next]_vars => MediaInv'
<1> SUFFICES ASSUME MediaInv, [Next]_vars PROVE MediaInv'
  OBVIOUS
<1>1. CASE \/ CreateContext
           \/ \E i \in Contexts : EditContext(i)
           \/ \E m \in Messages : SwitchAi(m)
  BY <1>1, AgentKeeps
<1>2. ASSUME NEW p \in Procs, WorkStep(p) PROVE MediaInv'
  BY <1>2, PickKeeps, ResolveKeeps, OmitKeeps, GetActiveContextKeeps, FindKeeps, MarkProcessingKeeps, FetchKeeps,
     TranscribeKeeps, CompleteKeeps, MarkKeeps, ScheduleKeeps, CaughtKeeps, ThrowKeeps
     DEF WorkStep
<1>3. ASSUME NEW p \in Procs, Crash(p) PROVE MediaInv'
  BY <1>3, CrashKeeps
<1>4. ASSUME NEW m \in Messages, Stalled(m) \/ Redeliver(m) PROVE MediaInv'
  BY <1>4, QueueKeeps
<1>5. ASSUME NEW m \in Messages, FormatMessageForAi(m) PROVE MediaInv'
  BY <1>5, FormatKeeps
<1>6. CASE UNCHANGED vars
  <2>1. TypeOK'
    BY <1>6 DEF vars, MediaInv, TypeOK
  <2>2. \A m \in Messages : told'[m].after => told'[m].status \in Decided
    BY <1>6 DEF vars, MediaInv, DecidedWhenScheduled
  <2> QED BY <1>6, <2>1, <2>2, ElsewhereKeeps DEF vars
<1> QED BY <1>1, <1>2, <1>3, <1>4, <1>5, <1>6 DEF Next

\* MediaInv holds in every reachable state (MediaProcessorService.process, 33-176).
THEOREM MediaInvariant == MediaSpec => []MediaInv
BY InitKeeps, NextKeeps, PTL DEF MediaSpec

\* The status of a medium is what one context makes of it (33-148).
THEOREM OneContextDecidesHolds == MediaSpec => []OneContextDecides
<1>1. MediaInv => OneContextDecides
  BY DEF MediaInv
<1> QED BY <1>1, MediaInvariant, PTL

\* A transcription stays usable but for faults (124-176).
THEOREM TranscriptionStaysUsableHolds == MediaSpec => []TranscriptionStaysUsable
<1>1. MediaInv => TranscriptionStaysUsable
  BY DEF MediaInv
<1> QED BY <1>1, MediaInvariant, PTL

\* A job that completed leaves a decided medium if it found the AI on, and one it has
\* not touched if it found it off (inbound 62-72).
THEOREM DecidedWhenScheduledHolds == MediaSpec => []DecidedWhenScheduled
<1>1. MediaInv => DecidedWhenScheduled
  BY DEF MediaInv
<1> QED BY <1>1, MediaInvariant, PTL

\* PROCESSING means that a worker is at it, or a fault cut it off (77).
THEOREM ProcessingIsLiveHolds == MediaSpec => []ProcessingIsLive
<1>1. MediaInv => ProcessingIsLive
  BY DEF MediaInv
<1> QED BY <1>1, MediaInvariant, PTL

-----------------------------------------------------------------------------
(* The refinement of MediaContract. *)

LEMMA ContractInitially == Init => Contract!ContractInit
  BY DEF Init, Contract!ContractInit

\* A step that leaves the rows alone and only adds faults.
LEMMA RowsStay ==
  ASSUME TypeOK, row' = row,
         disturbed' = disturbed \/ \E m \in Messages : disturbed' = disturbed \cup {m}
  PROVE  Contract!ContractNext
<1>1. PICK S \in SUBSET Messages : disturbed' = disturbed \cup S
  <2>1. CASE disturbed' = disturbed
    <3>1. {} \in SUBSET Messages /\ disturbed' = disturbed \cup {}
      BY <2>1
    <3> QED BY <3>1
  <2>2. ASSUME NEW m \in Messages, disturbed' = disturbed \cup {m}
        PROVE  \E S \in SUBSET Messages : disturbed' = disturbed \cup S
    <3>1. {m} \in SUBSET Messages
      OBVIOUS
    <3> QED BY <2>2, <3>1
  <2> QED BY <2>1, <2>2
<1> QED BY <1>1 DEF Contract!ContractNext

\* A step that gives one message another status.
LEMMA RowMoves ==
  ASSUME TypeOK, NEW m \in Messages, NEW r \in Row, row' = [row EXCEPT ![m] = r],
         NoFault \/ Fault(m),
         \/ r.status = "PROCESSING" /\ (row[m].status = "PENDING" \/ m \in disturbed)
         \/ r.status = "SKIPPED" /\ (row[m].status = "PENDING" \/ m \in disturbed)
         \/ r.status = "FAILED" /\ (row[m].status \in {"PENDING", "PROCESSING"} \/ m \in disturbed)
         \/ r.status = "COMPLETED" /\ row[m].status = "PROCESSING"
  PROVE  Contract!ContractNext
<1> DEFINE status == [i \in Messages |-> row[i].status]
           moved == [i \in Messages |-> row'[i].status]
<1>1. moved = [status EXCEPT ![m] = r.status]
  BY DEF TypeOK
<1>2. status[m] = row[m].status
  OBVIOUS
<1>3. \E S \in SUBSET Messages : disturbed' = disturbed \cup S
  <2>1. {} \in SUBSET Messages /\ {m} \in SUBSET Messages
    OBVIOUS
  <2>2. disturbed' = disturbed \cup {} \/ disturbed' = disturbed \cup {m}
    BY DEF Fault
  <2> QED BY <2>1, <2>2
<1>4. Contract!Start(m) \/ Contract!Skip(m) \/ Contract!Fail(m) \/ Contract!Complete(m)
  <2> HIDE DEF status, moved, NoFault
  <2> QED BY <1>1, <1>2
          DEF Contract!Start, Contract!Skip, Contract!Fail, Contract!Complete,
              Contract!Moves, status, moved
<1> QED BY <1>3, <1>4 DEF Contract!ContractNext

LEMMA MarkProcessingMoves ==
  ASSUME MediaInv, NEW p \in Procs,
         work[p].pc = "markProcessing", row' = Processing(work[p].message),
         NoFault \/ Fault(work[p].message)
  PROVE  Contract!ContractNext
<1> DEFINE m == work[p].message
           r == [row[m] EXCEPT !.status = "PROCESSING"]
<1>1. WorkerGood(work[p], row[m], m \in disturbed) /\ m \in Messages /\ TypeOK
      /\ row[m] \in Row
  BY Known
<1>2. r \in Row /\ r.status = "PROCESSING"
  BY <1>1 DEF Row, Status
<1>3. row' = [row EXCEPT ![m] = r]
  BY <1>1 DEF Processing, TypeOK
<1>4. row[m].status = "PENDING" \/ m \in disturbed
  BY <1>1 DEF WorkerGood
<1> HIDE DEF r, NoFault
<1> QED BY <1>1, <1>2, <1>3, <1>4, RowMoves

LEMMA CompleteMoves ==
  ASSUME MediaInv, NEW p \in Procs,
         work[p].pc = "complete", row' = Completed(p), NoFault \/ Fault(work[p].message)
  PROVE  Contract!ContractNext
<1> DEFINE m == work[p].message
<1>1. WorkerGood(work[p], row[m], m \in disturbed) /\ m \in Messages /\ TypeOK
      /\ row[m] \in Row /\ work[p] \in Work
  BY Known
<1> DEFINE t == [by |-> work[p].by, empty |-> work[p].empty]
           r == [row[m] EXCEPT !.status = "COMPLETED", !.under = work[p].context,
                               !.transcription = t]
<1>2. work[p].by # None /\ row[m].status = "PROCESSING"
  BY <1>1 DEF WorkerGood
<1>3. t \in Transcription
  BY <1>1, <1>2 DEF Work, Transcription
<1>4. r \in Row /\ r.status = "COMPLETED"
  BY <1>1, <1>3 DEF Row, Status, Work
<1>5. row' = [row EXCEPT ![m] = r]
  BY <1>1 DEF Completed, TypeOK
<1> HIDE DEF r, NoFault
<1> QED BY <1>1, <1>2, <1>4, <1>5, RowMoves

LEMMA MarkMoves ==
  ASSUME MediaInv, NEW p \in Procs, MarkSkipped(p) \/ MarkFailed(p)
  PROVE  Contract!ContractNext
<1> DEFINE m == work[p].message
           status == IF At(p, "markSkipped") THEN "SKIPPED" ELSE "FAILED"
           r == [row[m] EXCEPT !.status = status, !.under = work[p].context]
<1>1. /\ \/ work[p].pc = "markSkipped" /\ status = "SKIPPED"
         \/ work[p].pc = "markFailed" /\ status = "FAILED"
      /\ row' = Marked(p, status) /\ NoFault
  BY DEF MarkSkipped, MarkFailed, At
<1>2. WorkerGood(work[p], row[m], m \in disturbed) /\ m \in Messages /\ TypeOK
      /\ row[m] \in Row /\ work[p] \in Work
  BY <1>1, Known
<1>3. r \in Row /\ r.status = status
  BY <1>2 DEF Row, Status, Work
<1>4. row' = [row EXCEPT ![m] = r]
  BY <1>1, <1>2 DEF Marked, TypeOK, Row
<1>5. \/ status = "SKIPPED" /\ (row[m].status = "PENDING" \/ m \in disturbed)
      \/ /\ status = "FAILED"
         /\ row[m].status \in {"PENDING", "PROCESSING"} \/ m \in disturbed
  BY <1>1, <1>2 DEF WorkerGood
<1> HIDE DEF r, status, NoFault
<1> QED BY <1>1, <1>2, <1>3, <1>4, <1>5, RowMoves

\* The other steps of a worker: the rows stay, or the failing update was applied.
LEMMA FaultMoves ==
  ASSUME MediaInv, NEW p \in Procs, Caught(p) \/ Throw(p) \/ Crash(p)
  PROVE  Contract!ContractNext
<1> DEFINE m == work[p].message
<1>1. work[p].pc # "idle" /\ Fault(m)
  BY DEF Caught, Throw, Crash, At
<1>2. m \in Messages /\ TypeOK
  BY <1>1, Known
<1>3. CASE row' = row
  BY <1>1, <1>2, <1>3, RowsStay DEF Fault
<1>4. CASE work[p].pc = "complete" /\ row' = Completed(p)
  BY <1>1, <1>4, CompleteMoves
<1>5. CASE work[p].pc = "markProcessing" /\ row' = Processing(m)
  BY <1>1, <1>5, MarkProcessingMoves
<1> QED BY <1>3, <1>4, <1>5 DEF Caught, Throw, Crash, At

\* Every step is a step of the contract.
LEMMA ContractStep == MediaInv /\ [Next]_vars => [Contract!ContractNext]_(Contract!mvars)
<1> SUFFICES ASSUME MediaInv, [Next]_vars PROVE Contract!ContractNext
  OBVIOUS
<1>0. TypeOK
  BY DEF MediaInv
<1>1. CASE row' = row /\ disturbed' = disturbed
  BY <1>0, <1>1, RowsStay
<1>2. ASSUME NEW p \in Procs, WorkStep(p) \/ Crash(p) PROVE Contract!ContractNext
  <2>1. CASE MarkProcessing(p)
    BY <2>1, MarkProcessingMoves DEF MarkProcessing, At
  <2>2. CASE Complete(p)
    BY <2>2, CompleteMoves DEF Complete, At
  <2>3. CASE MarkSkipped(p) \/ MarkFailed(p)
    BY <2>3, MarkMoves
  <2>4. CASE Caught(p) \/ Throw(p) \/ Crash(p)
    BY <2>4, FaultMoves
  <2> QED BY <1>1, <1>2, <2>1, <2>2, <2>3, <2>4
          DEF WorkStep, Pick, ResolveConversation, Omit, GetActiveContext, Find,
              FetchGraph, GetFile, AskFor,
              Download, Transcribe, Schedule
<1>3. ASSUME NEW m \in Messages, Redeliver(m) PROVE Contract!ContractNext
  BY <1>0, <1>3, RowsStay DEF Redeliver, Fault
<1> QED BY <1>1, <1>2, <1>3
        DEF Next, vars, CreateContext, EditContext, SwitchAi, Stalled, FormatMessageForAi

\* The processing implements MediaContract: whatever faults, edits and repeated
\* webhooks meet it, no medium is COMPLETED that is not PROCESSING, and a status is
\* decided anew only after a fault (77-176).
THEOREM ImplementsMediaContract == MediaSpec => MediaContractHolds
<1>1. Init => Contract!ContractInit
  BY ContractInitially
<1>2. MediaInv /\ [Next]_vars => [Contract!ContractNext]_(Contract!mvars)
  BY ContractStep
<1> QED BY <1>1, <1>2, MediaInvariant, PTL
        DEF MediaSpec, MediaContractHolds, Contract!ContractSpec

-----------------------------------------------------------------------------
(* The fallback to Gemini. *)

\* Every context that a worker or a row remembers was stored by an agent.
Remembered ==
  /\ \A p \in Procs : work[p].context \in Settings \cup {None}
  /\ \A m \in Messages : row[m].under \in Settings \cup {None}

\* A worker's context changes when it reads one, and when it is idle again.
LEMMA ContextsNext ==
  ASSUME TypeOK, Next, NEW q \in Procs
  PROVE  work'[q].context \in {work[q].context, None} \cup Settings
<1>1. ASSUME NEW p \in Procs, NEW w, work' = [work EXCEPT ![p] = w],
             w.context \in {work[p].context, None} \cup Settings
      PROVE  work'[q].context \in {work[q].context, None} \cup Settings
  BY <1>1 DEF TypeOK
<1>2. ASSUME NEW p \in Procs, NEW pc, Goto(p, pc)
      PROVE  work'[q].context \in {work[q].context, None} \cup Settings
  BY <1>2 DEF Goto, TypeOK, Work
<1>3. ASSUME NEW p \in Procs, GetActiveContext(p)
      PROVE  work'[q].context \in {work[q].context, None} \cup Settings
  <2>1. PICK s \in Settings \cup {None} :
          work' = [work EXCEPT ![p].pc = "find", ![p].context = s]
    BY <1>3 DEF GetActiveContext
  <2> QED BY <2>1 DEF TypeOK, Work
<1>4. ASSUME NEW p \in Procs, MarkProcessing(p)
      PROVE  work'[q].context \in {work[q].context, None} \cup Settings
  <2>1. \E by, pc : work' = [work EXCEPT ![p].by = by, ![p].pc = pc]
    BY <1>4 DEF MarkProcessing
  <2> QED BY <2>1 DEF TypeOK, Work
<1>5. ASSUME NEW p \in Procs, Transcribe(p)
      PROVE  work'[q].context \in {work[q].context, None} \cup Settings
  <2>1. \/ \E pc, empty : work' = [work EXCEPT ![p].pc = pc, ![p].empty = empty]
        \/ Goto(p, "markFailed")
    BY <1>5 DEF Transcribe
  <2>2. ASSUME NEW pc, NEW empty, work' = [work EXCEPT ![p].pc = pc, ![p].empty = empty]
        PROVE  work'[q].context \in {work[q].context, None} \cup Settings
    BY <2>2 DEF TypeOK, Work
  <2> QED BY <1>2, <2>1, <2>2
<1>6. ASSUME NEW p \in Procs, NEW m \in Messages, Pick(p, m)
      PROVE  work'[q].context \in {work[q].context, None} \cup Settings
  <2>1. [Idle EXCEPT !.pc = "resolve", !.message = m].context = None
    BY DEF Idle
  <2> QED BY <1>1, <1>6, <2>1 DEF Pick
<1>7. ASSUME NEW p \in Procs, Omit(p) \/ Schedule(p) \/ Throw(p) \/ Crash(p)
      PROVE  work'[q].context \in {work[q].context, None} \cup Settings
  BY <1>1, <1>7 DEF Omit, Schedule, Throw, Crash, Idle
<1>8. ASSUME NEW p \in Procs,
             \/ ResolveConversation(p) \/ Find(p) \/ FetchGraph(p) \/ GetFile(p)
             \/ Download(p) \/ Complete(p) \/ MarkSkipped(p) \/ MarkFailed(p) \/ Caught(p)
      PROVE  work'[q].context \in {work[q].context, None} \cup Settings
  BY <1>2, <1>8 DEF ResolveConversation, Find, FetchGraph, GetFile, AskFor, Download, Complete,
                    MarkSkipped, MarkFailed, Caught
<1>9. CASE work' = work
  BY <1>9
<1> QED BY <1>3, <1>4, <1>5, <1>6, <1>7, <1>8, <1>9
        DEF Next, WorkStep, CreateContext, EditContext, SwitchAi, Stalled, Redeliver,
            FormatMessageForAi

\* A row remembers the context of the worker that decided it.
LEMMA UndersNext ==
  ASSUME TypeOK, Next, NEW m \in Messages
  PROVE  row'[m].under = row[m].under \/ \E p \in Procs : row'[m].under = work[p].context
<1> DEFINE Kept == row'[m].under = row[m].under
                     \/ \E p \in Procs : row'[m].under = work[p].context
<1>1. ASSUME row' = row PROVE Kept
  BY <1>1
<1>2. ASSUME NEW n, row' = Processing(n) PROVE Kept
  BY <1>2 DEF Processing, TypeOK, Row
<1>3. ASSUME NEW p \in Procs, row' = Completed(p) PROVE Kept
  BY <1>3 DEF Completed, TypeOK, Row
<1>4. ASSUME NEW p \in Procs, NEW status, row' = Marked(p, status) PROVE Kept
  BY <1>4 DEF Marked, TypeOK, Row
<1> SUFFICES Kept
  OBVIOUS
<1> HIDE DEF Kept
<1>5. ASSUME NEW p \in Procs, WorkStep(p) PROVE Kept
  <2>1. CASE MarkProcessing(p)
    BY <1>2, <2>1 DEF MarkProcessing
  <2>2. CASE Complete(p) \/ Caught(p)
    <3>1. row' = row \/ row' = Completed(p)
      BY <2>2 DEF Complete, Caught
    <3> QED BY <1>1, <1>3, <3>1
  <2>3. CASE MarkSkipped(p) \/ MarkFailed(p)
    <3>1. row' = Marked(p, "SKIPPED") \/ row' = Marked(p, "FAILED")
      BY <2>3 DEF MarkSkipped, MarkFailed
    <3> QED BY <1>4, <3>1
  <2>4. CASE Throw(p)
    <3>1. row' = row \/ row' = Processing(work[p].message)
      BY <2>4 DEF Throw
    <3> QED BY <1>1, <1>2, <3>1
  <2>5. CASE ResolveConversation(p) \/ Omit(p) \/ GetActiveContext(p)
    <3>1. row' = row
      BY <2>5 DEF ResolveConversation, Omit, GetActiveContext
    <3> QED BY <1>1, <3>1
  <2>6. CASE Find(p) \/ FetchGraph(p) \/ GetFile(p) \/ Download(p) \/ Transcribe(p) \/ Schedule(p)
    <3>1. row' = row
      BY <2>6 DEF Find, FetchGraph, GetFile, AskFor, Download, Transcribe, Schedule
    <3> QED BY <1>1, <3>1
  <2>7. ASSUME NEW n \in Messages, Pick(p, n) PROVE Kept
    BY <1>1, <2>7 DEF Pick
  <2> QED BY <1>5, <2>1, <2>2, <2>3, <2>4, <2>5, <2>6, <2>7 DEF WorkStep
<1>6. CASE \/ CreateContext
           \/ \E i \in Contexts : EditContext(i)
           \/ \E p \in Procs : Crash(p)
           \/ \E n \in Messages : SwitchAi(n) \/ Stalled(n) \/ Redeliver(n) \/ FormatMessageForAi(n)
  <2>1. row' = row
    BY <1>6 DEF CreateContext, EditContext, SwitchAi, Stalled, Redeliver, FormatMessageForAi, Crash
  <2> QED BY <1>1, <2>1
<1> QED BY <1>5, <1>6 DEF Next

LEMMA RememberedNext == TypeOK /\ Remembered /\ [Next]_vars => Remembered'
<1>1. ASSUME Remembered, UNCHANGED vars PROVE Remembered'
  BY <1>1 DEF Remembered, vars
<1>2. ASSUME TypeOK, Remembered, Next PROVE Remembered'
  <2>1. \A p \in Procs : work'[p].context \in Settings \cup {None}
    BY <1>2, ContextsNext DEF Remembered
  <2>2. \A m \in Messages : row'[m].under \in Settings \cup {None}
    BY <1>2, UndersNext DEF Remembered
  <2> QED BY <2>1, <2>2 DEF Remembered
<1> QED BY <1>1, <1>2

\* The fallback of create-ai-context.dto.ts does what it says as long as no context
\* that has it carries another provider's key: the key that is lent to Gemini is all
\* that can break it (62-88, 124-148).
THEOREM FallbackNeedsGeminisKey ==
  ASSUME \A s \in Settings : s.fallback => s.apiKey \in {None, "GEMINI"}
  PROVE  MediaSpec => []FallbackTranscribes
<1>1. Init => Remembered
  BY DEF Init, Remembered, Idle
<1>2. MediaInv /\ Remembered => FallbackTranscribes
  <2> SUFFICES ASSUME MediaInv, Remembered, NEW m \in Messages,
                      row[m].status \in Decided, m \notin disturbed,
                      Admits(row[m].under, row[m].medium.type), row[m].under.fallback,
                      row[m].medium.type \notin Supported(row[m].under.provider),
                      Fetchable(row[m].medium), "GEMINI" \in EnvKeys
               PROVE  row[m].status = "COMPLETED"
    BY DEF FallbackTranscribes
  <2> DEFINE s == row[m].under
             type == row[m].medium.type
  <2>1. row[m].status = Outcome(row[m].medium, s)
    BY DEF MediaInv, OneContextDecides
  <2>2. s \in Settings /\ s.apiKey \in {None, "GEMINI"} /\ type \in Prompted
    BY DEF Remembered, Admits
  <2>3. Transcriber(s, type) = "GEMINI"
    BY <2>2 DEF Transcriber, Supported
  <2>4. Transcribes("GEMINI", s)
    BY <2>2 DEF Transcribes, GeminiTranscribes, HasKey
  <2>5. "GEMINI" # None
    BY MediaAssumption DEF Provider
  <2> QED BY <2>1, <2>3, <2>4, <2>5 DEF Outcome
<1>3. MediaInv => TypeOK
  BY DEF MediaInv
<1> QED BY <1>1, <1>2, <1>3, RememberedNext, MediaInvariant, PTL DEF MediaSpec
===============================================================================
