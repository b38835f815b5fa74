----------------------------- MODULE MCObjects -----------------------------
(***************************************************************************)
(* Small instance of MessageObjects.                                       *)
(***************************************************************************)
EXTENDS MessageObjects

Request  == <<[kind |-> "request"], [kind |-> "blank"]>>
Response == <<[kind |-> "response"], [kind |-> "length", n |-> 1], [kind |-> "blank"],
              [kind |-> "data", unit |-> "d"]>>

\* No text, a request with its response, and a response without a body.
MCTexts == {<<>>, Request \o Response, <<[kind |-> "response"], [kind |-> "length", n |-> 0], [kind |-> "blank"]>>}
=============================================================================
