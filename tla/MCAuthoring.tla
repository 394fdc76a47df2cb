---------------------------- MODULE MCAuthoring ----------------------------
(* An agent session and a caller that overwrites or uses the template,   *)
(* on one bot.                                                              *)
EXTENDS Authoring
=============================================================================
