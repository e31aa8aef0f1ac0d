----------------------------- MODULE MCPipeline -----------------------------
(* Values for the constants of MessagePipeline. *)
EXTENDS MessagePipeline, TLC

CONSTANTS e1, e2, e3, k1, k2, x1, x2, x3, c1, c2, p1, p2

\* Two messages of one contact, or of two.
OneSender  == (e1 :> k1) @@ (e2 :> k1)
TwoSenders == (e1 :> k1) @@ (e2 :> k2)
\* Two messages of one contact and one of another.
TwoAndOne  == (e1 :> k1) @@ (e2 :> k1) @@ (e3 :> k2)

DistinctIds == (e1 :> x1) @@ (e2 :> x2)
ThreeIds    == (e1 :> x1) @@ (e2 :> x2) @@ (e3 :> x3)
\* Telegram numbers the messages of each chat separately.
SameId      == (e1 :> x1) @@ (e2 :> x1)

Limits(deliver, crash, fault, edit, evict) ==
  [deliver |-> deliver, crash |-> crash, fault |-> fault, edit |-> edit,
   evict |-> evict]

Calm       == Limits(2, 0, 0, 0, 0)
Failures   == Limits(2, 1, 1, 0, 0)
OneFault   == Limits(2, 0, 1, 0, 0)
OneCrash   == Limits(2, 1, 0, 0, 0)
Agents     == Limits(2, 0, 0, 1, 0)
Redelivery == Limits(2, 0, 0, 1, 1)

\* Processes and conversation ids are interchangeable, and the two messages of
\* one contact with their ids.
SwapMessages == (e1 :> e2) @@ (e2 :> e1) @@ (x1 :> x2) @@ (x2 :> x1)
Interchangeable == Permutations(Procs) \cup Permutations(Convs) \cup {SwapMessages}
=============================================================================
