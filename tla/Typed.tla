------------------------------- MODULE Typed -------------------------------
(***************************************************************************)
(* What the console promises its readers: a line is edited until it is     *)
(* ended, and what was ended is delivered once, in the order it was typed, *)
(* no read going past the end of a line.  ^D ends a line without being     *)
(* delivered, and a read that finds nothing before it returns nothing.     *)
(***************************************************************************)
EXTENDS Naturals, Sequences

CONSTANTS Reader, Char, NL, EOT, Room

VARIABLES line,      \* being edited
          ready,     \* ended, and not yet delivered
          got,       \* what the read in progress of each reader has
          reading    \* the readers whose read is in progress

vars == <<line, ready, got, reading>>

Init ==
  /\ line = <<>> /\ ready = <<>>
  /\ got = [p \in Reader |-> <<>>]
  /\ reading = {}

Type(c) ==
  /\ Len(ready) + Len(line) < Room
  /\ LET l == Append(line, c)
     IN \/ /\ c \notin {NL, EOT} /\ Len(ready) + Len(l) < Room
           /\ line' = l /\ UNCHANGED ready
        \/ /\ c \in {NL, EOT} \/ Len(ready) + Len(l) = Room
           /\ line' = <<>> /\ ready' = ready \o l
  /\ UNCHANGED <<got, reading>>

Erase ==
  /\ \E n \in 0 .. Len(line) : line' = SubSeq(line, 1, n)
  /\ UNCHANGED <<ready, got, reading>>

Start(p) ==
  /\ p \notin reading
  /\ reading' = reading \cup {p} /\ got' = [got EXCEPT ![p] = <<>>]
  /\ UNCHANGED <<line, ready>>

(* One read takes a part of one line, and then may end; it does end at the *)
(* end of the line.                                                        *)
Deliver(p) ==
  /\ p \in reading
  /\ \E n \in 0 .. Len(ready) :
       LET s == SubSeq(ready, 1, n)
           ended == n > 0 /\ ready[n] = NL
           eof == n < Len(ready) /\ ready[n + 1] = EOT
       IN /\ \A j \in 1 .. n - 1 : s[j] # NL
          /\ \A j \in 1 .. n : s[j] # EOT
          /\ got' = [got EXCEPT ![p] = @ \o s]
          /\ ready' = SubSeq(ready, (IF eof /\ got'[p] = <<>> THEN n + 2 ELSE n + 1), Len(ready))
          /\ reading' \in {reading, reading \ {p}}
          /\ ended \/ (eof /\ got'[p] = <<>>) => p \notin reading'
  /\ UNCHANGED line

Next ==
  \/ Erase
  \/ \E c \in Char : Type(c)
  \/ \E p \in Reader : Start(p) \/ Deliver(p)

Spec == Init /\ [][Next]_vars
=============================================================================
