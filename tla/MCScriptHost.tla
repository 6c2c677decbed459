---------------------------- MODULE MCScriptHost ----------------------------
(***************************************************************************)
(* Small instances of ScriptHost for TLC.                                  *)
(***************************************************************************)
EXTENDS ScriptHost

MCScene == <<<<"p">>, <<"q", "r">>>>
MCPlayer == <<"p">>
=============================================================================
