---------------------------- MODULE ReplyContract ----------------------------
(***************************************************************************)
(* What the message pipeline promises for every inbound message, whatever  *)
(* its queues, workers and crashes do: a stored message is settled         *)
(* (aiProcessed) once, as part of a batch, and only a settled batch is     *)
(* answered, once.  A message may stay settled and unanswered.             *)
(***************************************************************************)
EXTENDS Naturals

CONSTANT Ids    \* identities of inbound messages

VARIABLES
  stage,        \* how far each message has come
  replies       \* how many replies covering it a provider has accepted

cvars == <<stage, replies>>

Stage == {"absent", "pending", "settled", "answered"}

ContractTypeOK == /\ stage \in [Ids -> Stage]
                  /\ replies \in [Ids -> Nat]

ContractInit == /\ stage = [i \in Ids |-> "absent"]
                /\ replies = [i \in Ids |-> 0]

Store(i) ==
  /\ stage[i] = "absent"
  /\ stage' = [stage EXCEPT ![i] = "pending"]
  /\ UNCHANGED replies

Settle(S) ==
  /\ \A i \in S : stage[i] = "pending"
  /\ stage' = [i \in Ids |-> IF i \in S THEN "settled" ELSE stage[i]]
  /\ UNCHANGED replies

Answer(S) ==
  /\ \A i \in S : stage[i] = "settled"
  /\ stage' = [i \in Ids |-> IF i \in S THEN "answered" ELSE stage[i]]
  /\ replies' = [i \in Ids |-> IF i \in S THEN replies[i] + 1 ELSE replies[i]]

ContractNext ==
  \/ \E i \in Ids : Store(i)
  \/ \E S \in SUBSET Ids : Settle(S) \/ Answer(S)

ContractSpec == ContractInit /\ [][ContractNext]_cvars

\* Every message is answered at most once, and exactly then is it "answered".
AtMostOneReply ==
  \A i \in Ids : replies[i] = IF stage[i] = "answered" THEN 1 ELSE 0
=============================================================================
