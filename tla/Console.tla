------------------------------ MODULE Console ------------------------------
(***************************************************************************)
(* The console: consoleintr() puts what is typed into the ring input.buf,  *)
(* consoleread() takes lines out of it, and every character echoed or      *)
(* written moves the cursor of the screen in cgaputc().  cons.lock makes   *)
(* the bodies atomic, up to the sleep() of a reader.  The indices are      *)
(* unsigned ints, which wrap; INPUT_BUF divides 2^32, as it does WRAP.     *)
(***************************************************************************)
EXTENDS Integers, Sequences, FiniteSets, FiniteSetsExt

CONSTANTS Reader, Char, NL, EOT, INPUT_BUF, WRAP,
          ReadLen,       \* n of consoleread()
          ROWS, COLS     \* 24 and 80

ASSUME ConsoleAssumption ==
  /\ WRAP % INPUT_BUF = 0 /\ INPUT_BUF < WRAP
  /\ {NL, EOT} \subseteq Char

VARIABLES input_buf, input_r, input_w, input_e,        \* input
          rpc, left, target,      \* consoleread() of each reader
          dst,                 \* what it has stored so far
          killed,
          pos,                 \* the cursor
          overflow             \* panic("pos under/overflow")

consolevars == <<input_buf, input_r, input_w, input_e, rpc, left, target, dst, killed, pos, overflow>>

Minus(a, b) == (a - b) % WRAP

(* cgaputc(): the cursor after a character, a new line or a backspace.     *)
CharAt(q) == q + 1
Newline(q) == q + COLS - (q % COLS)
Backspace(q) == IF q > 0 THEN q - 1 ELSE q
Scroll(q) == IF q \div COLS >= ROWS THEN q - COLS ELSE q

Cga(q, c) == IF c = NL THEN Newline(q) ELSE CharAt(q)
BadPos(q) == q < 0 \/ q > (ROWS + 1) * COLS

ConsoleInit ==
  /\ input_buf = [x \in 0 .. INPUT_BUF - 1 |-> NL]
  /\ input_r = 0 /\ input_w = 0 /\ input_e = 0
  /\ rpc = [p \in Reader |-> "idle"]
  /\ left = [p \in Reader |-> 0] /\ target = [p \in Reader |-> 0]
  /\ dst = [p \in Reader |-> <<>>]
  /\ killed = [p \in Reader |-> FALSE]
  /\ pos = 0 /\ overflow = FALSE

readvars == <<left, target, dst, killed>>

(* ^U: back to the start of the line.                                      *)
consoleintr_kill ==
  LET erased == {k \in 1 .. Minus(input_e, input_w) : \A j \in 1 .. k : input_buf[Minus(input_e, j) % INPUT_BUF] # NL}
  IN /\ erased # {}
     /\ input_e' = Minus(input_e, Cardinality(erased))
     /\ pos' = Max({0, pos - Cardinality(erased)})
     /\ UNCHANGED <<input_buf, input_r, input_w, rpc, readvars, overflow>>

consoleintr_erase_any ==   \* mutant: without the test of input.w
  /\ input_e' = Minus(input_e, 1)
  /\ pos' = Backspace(pos)
  /\ UNCHANGED <<input_buf, input_r, input_w, rpc, readvars, overflow>>

(* ^H.                                                                     *)
consoleintr_erase ==
  /\ input_e # input_w
  /\ input_e' = Minus(input_e, 1)
  /\ pos' = Backspace(pos)
  /\ UNCHANGED <<input_buf, input_r, input_w, rpc, readvars, overflow>>

wakeup_readers_none == rpc   \* mutant

wakeup_readers == [p \in Reader |-> IF rpc[p] = "asleep" THEN "reading" ELSE rpc[p]]

consoleintr(c) ==
  LET e1 == (input_e + 1) % WRAP
      ended == c \in {NL, EOT} \/ e1 = (input_r + INPUT_BUF) % WRAP
  IN /\ Minus(input_e, input_r) < INPUT_BUF
     /\ input_buf' = [input_buf EXCEPT ![input_e % INPUT_BUF] = c]
     /\ input_e' = e1
     /\ input_w' = IF ended THEN e1 ELSE input_w
     /\ rpc' = IF ended THEN wakeup_readers ELSE rpc
     /\ overflow' = BadPos(Cga(pos, c))
     /\ pos' = Scroll(Cga(pos, c))
     /\ UNCHANGED <<input_r, readvars>>

consolewrite(c) ==
  /\ overflow' = BadPos(Cga(pos, c))
  /\ pos' = Scroll(Cga(pos, c))
  /\ UNCHANGED <<input_buf, input_r, input_w, input_e, rpc, readvars>>

consoleread(p, len) ==
  /\ rpc[p] = "idle" /\ ~killed[p]
  /\ rpc' = [rpc EXCEPT ![p] = "reading"]
  /\ left' = [left EXCEPT ![p] = len] /\ target' = [target EXCEPT ![p] = len]
  /\ dst' = [dst EXCEPT ![p] = <<>>]
  /\ UNCHANGED <<input_buf, input_r, input_w, input_e, killed, pos, overflow>>

(* The loop of consoleread(), from acquire() or the return of sleep() to   *)
(* release() or sleep(): it takes characters until it has n, or an end of  *)
(* line, or there are none.                                                *)
Ready == [j \in 1 .. Minus(input_w, input_r) |-> input_buf[(input_r + j - 1) % INPUT_BUF]]

consoleread_loop(p) ==
  LET ends == {j \in 1 .. Len(Ready) : Ready[j] \in {NL, EOT}}
      stop == IF ends = {} THEN Len(Ready) + 1 ELSE Min(ends)
      eof == stop <= Len(Ready) /\ stop <= left[p] /\ Ready[stop] = EOT
      take == IF eof THEN stop - 1 ELSE Min({stop, left[p], Len(Ready)})
      done == eof \/ take = left[p] \/ take = stop
      keep == left[p] - take < target[p]             \* ^D is saved for next time
  IN /\ rpc[p] = "reading"
     /\ input_r' = (input_r + take + (IF eof /\ ~keep THEN 1 ELSE 0)) % WRAP
     /\ left' = [left EXCEPT ![p] = @ - take]
     /\ dst' = [dst EXCEPT ![p] = @ \o SubSeq(Ready, 1, take)]
     /\ rpc' = [rpc EXCEPT ![p] = IF done \/ killed[p] THEN "idle" ELSE "asleep"]
     /\ UNCHANGED <<input_buf, input_w, input_e, target, killed, pos, overflow>>

kill_reader(p) ==
  /\ ~killed[p]
  /\ killed' = [killed EXCEPT ![p] = TRUE]
  /\ rpc' = [rpc EXCEPT ![p] = IF @ = "asleep" THEN "reading" ELSE @]
  /\ UNCHANGED <<input_buf, input_r, input_w, input_e, left, target, dst, pos, overflow>>

ConsoleNext ==
  \/ consoleintr_kill \/ consoleintr_erase
  \/ \E c \in Char : consoleintr(c) \/ consolewrite(c)
  \/ \E p \in Reader : \/ \E len \in ReadLen : consoleread(p, len)
                       \/ consoleread_loop(p) \/ kill_reader(p)

ConsoleSpec == ConsoleInit /\ [][ConsoleNext]_consolevars
-----------------------------------------------------------------------------
(* console.c: the ring keeps r <= w <= e <= r + INPUT_BUF across the wrap  *)
(* of the indices, no reader sleeps while a line is ready, and whatever is *)
(* echoed, erased and written, the cursor stays on the screen.             *)
ConsoleConsistent ==
  /\ Minus(input_w, input_r) <= Minus(input_e, input_r) /\ Minus(input_e, input_r) <= INPUT_BUF
  /\ (\E p \in Reader : rpc[p] = "asleep") => input_r = input_w
  /\ ~overflow /\ pos \in 0 .. ROWS * COLS - 1

(* Lines are delivered as Typed says, whatever is typed while readers      *)
(* sleep, run and are killed.                                              *)
Lines == INSTANCE Typed WITH
  ready <- Ready,
  line <- [j \in 1 .. Minus(input_e, input_w) |-> input_buf[(input_w + j - 1) % INPUT_BUF]],
  got <- dst, reading <- {p \in Reader : rpc[p] # "idle"}, Room <- INPUT_BUF

DeliversLines == Lines!Spec
=============================================================================
