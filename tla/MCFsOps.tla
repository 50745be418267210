------------------------------- MODULE MCFsOps -------------------------------
(* Instances of FsOps: what the programs of each run call, and their paths.    *)
(* A path starts at the root or at the process's current directory.            *)
EXTENDS FsOps, TLC

CONSTANTS p, q

Processes == {p, q}

FilesAndDirectories ==
    (p :> {"create", "open", "close", "unlink", "chdir"}) @@ (q :> {"mkdir", "chdir", "unlink", "link"})
Files == [x \in Proc |-> {"create", "mknod", "open", "close", "unlink"}]

OneName == {<<"a">>}
RootAndName == {<<>>, <<"a">>}
=============================================================================
