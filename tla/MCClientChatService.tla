------------------------ MODULE MCClientChatService ------------------------
(***************************************************************************)
(* Instances of ClientChatService for TLC.                                 *)
(***************************************************************************)
EXTENDS ClientChatService, TLC

Symmetry ==
  Permutations(Line) \cup Permutations(Caller \ Abortable) \cup
  Permutations(Fresh)
=============================================================================
