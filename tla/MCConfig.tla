------------------------------- MODULE MCConfig -------------------------------
(* A key of one letter, that of debugCfg, and one that fills cfgKey. *)
EXTENDS Config

MCFields == {<<"a">>, <<"a", "b">>}
MCDebug == <<"a">>
=============================================================================
