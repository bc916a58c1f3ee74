---------------------------- MODULE MCShellLine ----------------------------
(***************************************************************************)
(* The shell's line by itself, for what becomes of a line that is too      *)
(* long.                                                                   *)
(***************************************************************************)
EXTENDS ShellLine

\* Two commands that share a front.
MCCommands == << <<"A", "B">>, <<"A">> >>
=============================================================================
