------------------------------ MODULE MCShell ------------------------------
(* Commands that connect, redirect, list and leave programs in the         *)
(* background; programs read all their input or write to the end.          *)
EXTENDS Shell

EXEC(calls) == [type |-> "EXEC", calls |-> calls]
PIPE(left, right) == [type |-> "PIPE", left |-> left, right |-> right]
Source == EXEC(<<Op("write"), Op("write")>>)
Sink == EXEC(<<Op("read")>>)
Filter == EXEC(<<Op("read"), Op("write")>>)

Pipeline == PIPE(Source, PIPE(Filter, Sink))
List == [type |-> "LIST", left |-> Sink,
         right |-> [type |-> "REDIR", fd |-> 1, cmd |-> EXEC(<<Op("write")>>)]]
Back == [type |-> "BACK", cmd |-> [type |-> "LIST", left |-> Sink, right |-> Sink]]

(* With six entries the pipeline has all the processes it needs; with four *)
(* it does not, and what is left in the background may take them all.      *)
MCCommands ==
  [taken \in {{}, {5, 6}} |-> IF taken = {} THEN {Pipeline, List}
                             ELSE {PIPE(Source, Sink), Back}]
=============================================================================
