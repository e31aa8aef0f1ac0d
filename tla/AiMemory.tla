------------------------------ MODULE AiMemory ------------------------------
(***************************************************************************)
(* The memory of one conversation: AiMemoryService and its one caller,     *)
(* AiEngineService.processMessage.  An entry is named by its place in the  *)
(* order of createdAt; what it says is the set of messages (entries whose  *)
(* role is not SUMMARY) that its content quotes.  The ai-response queue    *)
(* runs one processMessage per conversation at a time.                     *)
(***************************************************************************)
EXTENDS Naturals, FiniteSets

CONSTANTS
  Windows,      \* the memoryWindowSize values of the tenant's AiContext
  MaxWindow,    \* the largest of them
  MaxEntries    \* bound: no run starts once so many entries exist

\* create-ai-context.dto.ts allows 5 to 50; the summaries need at least 2.
ASSUME MemoryAssumption ==
  /\ MaxWindow \in Nat
  /\ Windows \subseteq 2..MaxWindow
  /\ MaxEntries \in Nat

VARIABLES
  last,     \* entries created so far
  says,     \* what each entry quotes
  active,   \* entries with isActive
  pc,       \* where processMessage is suspended
  window,   \* context.memoryWindowSize, read when the run started
  prompt,   \* the entries sent to the provider
  overrun   \* history: entries since a run last got as far as the summary

mvars == <<last, says, active, pc, window, prompt, overrun>>

-----------------------------------------------------------------------------
Entry == 1..last

\* findMany({isActive}, orderBy createdAt asc, take k)
Rank(i, S)   == Cardinality({j \in S : j < i})
Oldest(S, k) == {i \in S : Rank(i, S) < k}

Quoted(S) == UNION {says[i] : i \in S}

Threshold(w) == (w * 3) \div 2

\* aiMemoryEntry.create
Create(quote) ==
  /\ last' = last + 1
  /\ says' = [i \in 1..(last + 1) |-> IF i = last + 1 THEN quote ELSE says[i]]

AddEntry ==
  /\ Create({last + 1})
  /\ active' = active \cup {last + 1}
  /\ overrun' = overrun + 1

-----------------------------------------------------------------------------
MemoryTypeOK ==
  /\ last \in Nat
  /\ says \in [Entry -> SUBSET Entry]
  /\ active \subseteq Entry
  /\ pc \in {"idle", "recall", "call", "reply", "summarize"}
  /\ window \in Windows \cup {0}
  /\ pc # "idle" => window \in Windows
  /\ prompt \subseteq Entry
  /\ overrun \in Nat

MemoryInit ==
  /\ last = 0
  /\ says = [i \in 1..0 |-> {}]
  /\ active = {}
  /\ pc = "idle"
  /\ window = 0
  /\ prompt = {}
  /\ overrun = 0

\* The active AiContext, then the USER entry.  Without a context nothing
\* happens at all.
RememberUser ==
  /\ pc = "idle"
  /\ last < MaxEntries
  /\ \E w \in Windows : window' = w
  /\ AddEntry
  /\ pc' = "recall"
  /\ UNCHANGED prompt

\* Mutant: the window counts the message besides the entries recalled.
RecallMore ==
  /\ pc = "recall"
  /\ prompt' = Oldest(active, window + 1)
  /\ pc' = "call"
  /\ UNCHANGED <<last, says, active, window, overrun>>

Recall ==
  /\ pc = "recall"
  /\ prompt' = Oldest(active, window)
  /\ pc' = "call"
  /\ UNCHANGED <<last, says, active, window, overrun>>

ProviderReplies ==
  /\ pc = "call"
  /\ pc' = "reply"
  /\ UNCHANGED <<last, says, active, window, prompt, overrun>>

\* fallbackMessage: neither an ASSISTANT entry nor a summary.
ProviderFails ==
  /\ pc = "call"
  /\ pc' = "idle"
  /\ UNCHANGED <<last, says, active, window, prompt, overrun>>

RememberReply ==
  /\ pc = "reply"
  /\ AddEntry
  /\ pc' = "summarize"
  /\ UNCHANGED <<window, prompt>>

\* Mutants: the summary leaves out the youngest entry it replaces; the
\* threshold is the double of the window; orderBy desc.
SummarizeWith(threshold, old, quoted) ==
  /\ pc = "summarize"
  /\ IF Cardinality(active) <= threshold
     THEN UNCHANGED <<last, says, active>>
     ELSE Create(Quoted(quoted)) /\ active' = (active \ old) \cup {last + 1}
  /\ overrun' = 0
  /\ pc' = "idle"
  /\ UNCHANGED <<window, prompt>>
Excess == Cardinality(active) - window
SummarizeAllButOne ==
  SummarizeWith(Threshold(window), Oldest(active, Excess), Oldest(active, Excess - 1))
SummarizeLate ==
  SummarizeWith(2 * window, Oldest(active, Excess), Oldest(active, Excess))
SummarizeYoungest ==
  LET young == active \ Oldest(active, window)
  IN SummarizeWith(Threshold(window), young, young)

\* The count, the oldest entries, then one transaction: a SUMMARY that quotes
\* them, younger than all, and the end of their isActive.
SummarizeOldEntries ==
  LET old == Oldest(active, Excess)
  IN /\ pc = "summarize"
     /\ IF Cardinality(active) <= Threshold(window)
        THEN UNCHANGED <<last, says, active>>
        ELSE /\ Create(Quoted(old))
             /\ active' = (active \ old) \cup {last + 1}
     /\ overrun' = 0
     /\ pc' = "idle"
     /\ UNCHANGED <<window, prompt>>

\* A database error or the death of the process, between any two steps.
Interrupt ==
  /\ pc # "idle"
  /\ pc' = "idle"
  /\ UNCHANGED <<last, says, active, window, prompt, overrun>>

MemoryNext ==
  \/ RememberUser \/ Recall \/ ProviderReplies \/ ProviderFails
  \/ RememberReply \/ SummarizeOldEntries \/ Interrupt

MemorySpec == MemoryInit /\ [][MemoryNext]_mvars

-----------------------------------------------------------------------------
Messages == {i \in Entry : i \in says[i]}

\* The active entries quote every message of the conversation, each exactly
\* once, through any chain of summaries of summaries, failures and crashes.
NothingForgotten ==
  /\ Quoted(active) = Messages
  /\ \A i, j \in active : i # j => says[i] \cap says[j] = {}

\* A summary stands for older messages than all those remembered verbatim.
SummariesPrecede ==
  \A s \in active \ Messages, i \in active \cap Messages :
    \A q \in says[s] : q < i

\* docs/service-analysis.md:238: the active entries exceed the threshold only by
\* what was added since a run last reached summarizeOldEntries.
ActiveBounded == Cardinality(active) <= Threshold(MaxWindow) + overrun

\* docs/project-documentation.md:417 "Construye array de mensajes (system +
\* memoria + nuevo mensaje)": the message to be answered is in the prompt.
PromptHasMessage == pc = "call" => last \in Quoted(prompt)

\* What the summaries are made of: a message quotes itself alone, a summary
\* only what is older than itself.
SaysWhat ==
  /\ \A i \in Messages : says[i] = {i}
  /\ \A i \in Entry : \A q \in says[i] : q <= i

\* From the recall to the answer nothing is remembered: the youngest entry is
\* the message of this run, and the prompt the oldest entries.
Recalled ==
  /\ pc \in {"recall", "call"} => last \in active \cap Messages
  /\ pc = "call" => prompt = Oldest(active, window)

\* The prompt shows the message it is to answer exactly as long as the active
\* entries fit in the window (ai-memory.service.ts:31): between the window and
\* the threshold of the summary the provider answers without having seen it.
PromptShowsMessage ==
  pc = "call" => (last \in Quoted(prompt) <=> Cardinality(active) <= window)

MemoryInv == /\ MemoryTypeOK /\ SaysWhat /\ NothingForgotten
             /\ SummariesPrecede /\ ActiveBounded /\ Recalled
=============================================================================
