------------------------------- MODULE MCIntake -------------------------------
(* Values for the constants of WebhookIntake. *)
EXTENDS WebhookIntake, TLC

CONSTANTS ch1, ch2, ch3, b1, b2, b3, m1, m2, m3, r1, r2

Types     == (ch1 :> "MESSENGER") @@ (ch2 :> "WHATSAPP") @@ (ch3 :> "WEBCHAT")
Providers == (ch1 :> "META") @@ (ch2 :> "EVOLUTION") @@ (ch3 :> "META")

\* A batch of two entries, a part of it posted again with a status between,
\* and a message that a group wrote or that repeats the id of another channel.
Item1(id, wire) == [id |-> id, wire |-> wire]
Payloads ==
  (b1 :> << <<Item1(m1, "text"), Item1(m2, "image")>>, <<Item1(m3, "text")>> >>)
  @@ (b2 :> << <<Item1(m2, "image"), Item1(m3, "event"), Item1(m3, "share")>> >>)
  @@ (b3 :> << <<Item1(m1, "audio")>> >>)
Posting == (ch1 :> {b1, b2}) @@ (ch2 :> {b3}) @@ (ch3 :> {b3})

Interchangeable == Permutations(Calls)
=============================================================================
