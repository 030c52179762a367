------------------------------ MODULE MCConsole ------------------------------
(***************************************************************************)
(* A screen of three lines of three characters.                             *)
(***************************************************************************)
EXTENDS Console

\* A prompt, an empty line, a text that is longer than a line, and one with a
\* conversion.
TextsDef == {<<"p">>, <<"LF", "LF">>, <<"p", "p", "q", "LF">>, <<"p", "conv">>}
=============================================================================
