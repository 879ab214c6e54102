----------------------------- MODULE MCLlmRelay -----------------------------
(***************************************************************************)
(* Instances of LlmRelay for TLC.                                          *)
(***************************************************************************)
EXTENDS LlmRelay

\* A fragment, an event of each kind, and two events, the last of several
\* lines.
MCChunks ==
  {<<>>, <<<<"text">>, <<"no_content", "text", "[DONE]">>>>} \cup
  {<<<<line>>>> : line \in DataLines}

TextChunks == {<<>>, <<<<"text">>>>}
=============================================================================
