---------------------------- MODULE MCAssistant ----------------------------
(* Assistant with the bot, the digest (no tools) and one analysis. *)
EXTENDS Assistant
=============================================================================
