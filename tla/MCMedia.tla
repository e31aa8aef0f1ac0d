-------------------------------- MODULE MCMedia --------------------------------
(* Values for the constants of MediaWork. *)
EXTENDS MediaWork, TLC

CONSTANTS m1, p1, p2

\* A video of Evolution, a picture of Telegram, a voice message of Messenger, whose
\* URL Graph does not know.
ThreeMedia ==
  {[type |-> "VIDEO", channel |-> "evolution", mediaUrl |-> "url"],
   [type |-> "IMAGE", channel |-> "telegram", mediaUrl |-> "id"],
   [type |-> "AUDIO", channel |-> "meta", mediaUrl |-> "url"]}

AnyMedia ==
  [isActive |-> TRUE, allowed |-> {"VIDEO", "IMAGE", "AUDIO"}, provider |-> "OPENAI",
   fallback |-> FALSE, apiKey |-> None, baseUrl |-> FALSE]

\* The keys of the environment, but nobody supports videos; the URL and the key of
\* another server, which Gemini, for videos, does not accept; switched off.
ThreeSettings ==
  {AnyMedia,
   [AnyMedia EXCEPT !.allowed = {"VIDEO", "IMAGE"}, !.fallback = TRUE,
                    !.apiKey = "CUSTOM", !.baseUrl = TRUE],
   [AnyMedia EXCEPT !.isActive = FALSE]}

WithKey == {[AnyMedia EXCEPT !.fallback = TRUE, !.apiKey = "OPENAI"]}
=============================================================================
