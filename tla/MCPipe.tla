------------------------------- MODULE MCPipe -------------------------------
(* An instance of Pipe: a text that fits the buffer and one that does not.     *)
EXTENDS Pipe

Texts == {<<0, 1, 1>>, <<1>>}
=============================================================================
