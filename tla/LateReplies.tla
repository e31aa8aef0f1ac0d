----------------------------- MODULE LateReplies -----------------------------
(***************************************************************************)
(* MessagePipeline with a history of the replies that go out although an   *)
(* agent has closed the conversation, taken it over or switched its AI     *)
(* off: what the steps of TakeoverEndsReplies add up to.                   *)
(***************************************************************************)
EXTENDS MessagePipeline

VARIABLE late   \* history: per conversation, the replies since it was last live

CountLate ==
  late' = [c \in Convs |-> IF IsLive(c)' THEN 0
                           ELSE IF Dispatched(c) THEN late[c] + 1 ELSE late[c]]

LateSpec == /\ Init /\ late = [c \in Convs |-> 0]
            /\ [][Next /\ CountLate]_<<vars, late>>

\* Once a conversation is out of the AI's hands the run that had looked at it
\* before may still reply, and no other (AiResponseProcessor, 73-213).
OneLateReply == \A c \in Convs : late[c] <= 1

\* Behind OneLateReply: after a late reply no run is committed.
LateInv ==
  \A c \in Convs :
    /\ late[c] \in {0, 1}
    /\ IsLive(c) => late[c] = 0
    /\ late[c] = 1 => \A p \in Procs : aiw[p].conv = c => ~Committed(p)
=============================================================================
