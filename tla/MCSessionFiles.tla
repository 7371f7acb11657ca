---------------------------- MODULE MCSessionFiles ----------------------------
(* A base with /d/s/f and /f; a session also names /f/s, below a file.  Home  *)
(* is /d.                                                                     *)
EXTENDS SessionFiles

CONSTANTS c0, c1

MCPaths == {<<>>, <<"d">>, <<"f">>, <<"d", "s">>, <<"f", "s">>, <<"d", "s", "f">>}
MCBase == [p \in MCPaths |->
    CASE p \in {<<>>, <<"d">>, <<"d", "s">>} -> "dir"
      [] p \in {<<"f">>, <<"d", "s", "f">>} -> c1
      [] OTHER -> "none"]
MCHome == <<"d">>
=============================================================================
