---------------------------- MODULE MCChatClient ----------------------------
(* Commands of two units; replies of none to three units, where three are  *)
(* too many for the caller.                                                *)
EXTENDS ChatClient
=============================================================================
