------------------------------ MODULE MCBotControl ------------------------------
(* BotControl for TLC.                                                           *)
EXTENDS BotControl
=============================================================================
