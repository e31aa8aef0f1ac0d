---------------------------- MODULE MediaContract ----------------------------
(***************************************************************************)
(* What the inbound job promises about the medium of a message, however    *)
(* the processing is cut into steps: its status is decided once, and only  *)
(* what was being processed is completed.  A medium in trouble (an error,  *)
(* a crash or a repeated webhook met it) may be taken up and decided anew, *)
(* but is never PENDING again.                                             *)
(***************************************************************************)
CONSTANT Ids    \* identities of messages

VARIABLES
  status,       \* mediaProcessingStatus
  trouble       \* the messages that met a fault; the faults are not promised away

mvars == <<status, trouble>>

ContractInit == /\ status = [i \in Ids |-> "PENDING"]
                /\ trouble = {}

Moves(i, s) == status' = [status EXCEPT ![i] = s]

Start(i) == (status[i] = "PENDING" \/ i \in trouble) /\ Moves(i, "PROCESSING")
Skip(i)  == (status[i] = "PENDING" \/ i \in trouble) /\ Moves(i, "SKIPPED")
Fail(i)  == (status[i] \in {"PENDING", "PROCESSING"} \/ i \in trouble) /\ Moves(i, "FAILED")
Complete(i) == status[i] = "PROCESSING" /\ Moves(i, "COMPLETED")

ContractNext ==
  /\ \E S \in SUBSET Ids : trouble' = trouble \cup S
  /\ \/ \E i \in Ids : Start(i) \/ Skip(i) \/ Fail(i) \/ Complete(i)
     \/ UNCHANGED status

ContractSpec == ContractInit /\ [][ContractNext]_mvars
=============================================================================
