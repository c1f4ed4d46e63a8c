-------------------------- MODULE MC_SessionThread --------------------------
(* Model-checking instance of SessionThread; the constants are given in  *)
(* the .cfg files.                                                         *)
EXTENDS SessionThread, TLC

MCChunks == {<<"ok">>, <<"ok", "ok">>, <<"garbage">>}
=============================================================================
