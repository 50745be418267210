----------------------------- MODULE FileBytes -----------------------------
(***************************************************************************)
(* What the file layer promises: a file is a sequence of bytes, an open    *)
(* file a position in it.  A read returns the bytes at the position;       *)
(* a write replaces or extends them there, in pieces, first bytes first,   *)
(* and may stop early.  Both move the position of that open file only.     *)
(***************************************************************************)
EXTENDS Naturals, Sequences

CONSTANTS Inode, File, Byte, NoInode

VARIABLES content, ip, off,
          todo,    \* what a write has still to write
          result   \* the bytes this step returns

vars == <<content, ip, off, todo, result>>

Init ==
  /\ content = [i \in Inode |-> <<>>]
  /\ ip = [f \in File |-> NoInode]
  /\ off = [f \in File |-> 0]
  /\ todo = [f \in File |-> <<>>]
  /\ result = <<>>

Overwrite(c, o, s) ==
  [j \in 1 .. (IF o + Len(s) > Len(c) THEN o + Len(s) ELSE Len(c)) |->
     IF j \in o + 1 .. o + Len(s) THEN s[j - o] ELSE c[j]]

Idle(f) == ip[f] # NoInode /\ todo[f] = <<>>

StartWrite(f) ==
  /\ Idle(f)
  /\ todo'[f] \in Seq(Byte)
  /\ todo' = [todo EXCEPT ![f] = todo'[f]]
  /\ result' = <<>> /\ UNCHANGED <<content, ip, off>>

WritePiece(f) ==
  /\ todo[f] # <<>> /\ todo'[f] # todo[f] /\ UNCHANGED ip
  /\ LET n == Len(todo[f]) - Len(todo'[f])
     IN /\ off' = [off EXCEPT ![f] = @ + n]
        /\ todo' = [todo EXCEPT ![f] = SubSeq(@, n + 1, Len(@))]
        /\ content' = [content EXCEPT ![ip[f]] = Overwrite(@, off[f], SubSeq(todo[f], 1, n))]
  /\ result' = <<>>

GiveUp(f) ==
  /\ todo[f] # <<>>
  /\ todo' = [todo EXCEPT ![f] = <<>>]
  /\ result' = <<>> /\ UNCHANGED <<content, ip, off>>

Read(f) ==
  /\ Idle(f) /\ UNCHANGED <<ip, todo>>
  /\ off' = [off EXCEPT ![f] = off'[f]] /\ off'[f] >= off[f]
  /\ LET c == content[ip[f]]
     IN result' = SubSeq(c, off[f] + 1, off'[f]) /\ Len(result') = off'[f] - off[f]
  /\ UNCHANGED content

Open(f, i) ==
  /\ ip[f] = NoInode
  /\ ip' = [ip EXCEPT ![f] = i]
  /\ off' = [off EXCEPT ![f] = 0]
  /\ result' = <<>> /\ UNCHANGED <<content, todo>>

(* Closing a file, or removing it, may discard the contents, if nobody has *)
(* the file open any more.                                                 *)
Discard(i) ==
  /\ \A f \in File : ip'[f] # i
  /\ content' = [content EXCEPT ![i] = <<>>]

Close(f) ==
  /\ Idle(f)
  /\ ip' = [ip EXCEPT ![f] = NoInode]
  /\ result' = <<>> /\ UNCHANGED <<off, todo>>
  /\ UNCHANGED content \/ Discard(ip[f])

Remove(i) == result' = <<>> /\ UNCHANGED <<ip, off, todo>> /\ (UNCHANGED content \/ Discard(i))

Next ==
  \/ \E i \in Inode : Remove(i)
  \/ \E f \in File : \/ StartWrite(f) \/ WritePiece(f) \/ GiveUp(f) \/ Read(f) \/ Close(f)
                     \/ \E i \in Inode : Open(f, i)

Spec == Init /\ [][Next]_vars
=============================================================================
