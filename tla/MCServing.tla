------------------------------ MODULE MCServing -----------------------------
(* A small deployment for TLC.                                             *)
EXTENDS Serving

Chat(m, s, n) == [messages |-> m, stream |-> s, max_tokens |-> n]
Models == [messages |-> <<>>, stream |-> FALSE, max_tokens |-> -1]

\* Conversations that begin alike: "x" is the text a client has seen of a streamed
\* answer that broke off, "a" a complete answer, followed up to the end of the
\* context.
MCConversations ==
    {<<Chat(<<"u">>, TRUE, 1), Models, Chat(<<"u", "x", "v">>, FALSE, 1)>>,
     <<Chat(<<"u">>, FALSE, 1), Models, Chat(<<"u", "a", "v">>, FALSE, -1)>>}
MCContents == {"u", "v", "x", "a"}
MCAnswers == {"a"}
=============================================================================
