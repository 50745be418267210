------------------------------ MODULE Mailbox ------------------------------
(***************************************************************************)
(* A mailbox of lab-messages: sendmsg() and recvmsg() under its lock, with *)
(* the test for a full queue before the lock is taken.  A message names    *)
(* its sender.  "send_index + 1 % MAILBOX_MSG_QUEUE" is                    *)
(* send_index + 1, so the indices only grow; the model stops at the first  *)
(* copy past the end of the queue, which writes over send_index.           *)
(***************************************************************************)
EXTENDS Integers, Sequences

CONSTANTS Talker, NoMessage, MAILBOX_MSG_QUEUE

ASSUME MailboxAssumption == MAILBOX_MSG_QUEUE \in Nat \ {0}

VARIABLES queue, send_index, recv_index, qsize,
          sync,          \* sync[] of struct mailbox
          mpc,           \* where each process is: "user", "sending", "sent",
                         \* "receiving", or asleep on the mailbox
          msync, mslot,  \* how it sends (1 if sync), and its message's slot
          mkilled,       \* the processes that are killed
          posted, received, \* the messages copied in and out, in order
          overrun

mailvars == <<queue, send_index, recv_index, qsize, sync, mpc, msync, mslot, mkilled, posted, received, overrun>>
boxvars == <<queue, send_index, recv_index, qsize, sync, posted, received, overrun>>

MailboxInit ==
  /\ queue = [x \in 0 .. MAILBOX_MSG_QUEUE - 1 |-> NoMessage]
  /\ send_index = 0 /\ recv_index = 0 /\ qsize = 0
  /\ sync = [x \in 0 .. MAILBOX_MSG_QUEUE - 1 |-> 0]
  /\ mpc = [t \in Talker |-> "user"]
  /\ msync = [t \in Talker |-> 0] /\ mslot = [t \in Talker |-> 0]
  /\ mkilled = {}
  /\ posted = <<>> /\ received = <<>>
  /\ overrun = FALSE

AtCall(t, where) == mpc[t] = where /\ ~overrun

(* wakeup(): where process s is after it.                                  *)
Awake_receivers(s) ==   \* mutant: a sync sender is not woken
  IF mpc[s] = "asleep_receiving" THEN "receiving" ELSE mpc[s]

Awake(s) ==
  IF mpc[s] = "asleep_sent" THEN "sent"
  ELSE IF mpc[s] = "asleep_receiving" THEN "receiving" ELSE mpc[s]

(* sendmsg() before acquire(): it returns -1 if the queue is full.         *)
sendmsg(t, s) ==
  /\ AtCall(t, "user") /\ t \notin mkilled
  /\ qsize # MAILBOX_MSG_QUEUE
  /\ mpc' = [mpc EXCEPT ![t] = "sending"]
  /\ msync' = [msync EXCEPT ![t] = s]
  /\ UNCHANGED <<boxvars, mslot, mkilled>>

(* Under the lock: the message is copied in and everybody woken.  A sync   *)
(* sender goes on to its loop.                                             *)
sendmsg_locked(t) ==
  /\ AtCall(t, "sending") /\ send_index < MAILBOX_MSG_QUEUE
  /\ sync' = [sync EXCEPT ![send_index] = msync[t]]
  /\ queue' = [queue EXCEPT ![send_index] = t]
  /\ qsize' = qsize + 1
  /\ send_index' = send_index + 1
  /\ mpc' = [s \in Talker |-> IF s # t THEN Awake(s)
                            ELSE IF msync[t] = 1 THEN "asleep_sent" ELSE "user"]
  /\ mslot' = [mslot EXCEPT ![t] = send_index]
  /\ posted' = Append(posted, t)
  /\ UNCHANGED <<recv_index, msync, mkilled, received, overrun>>

sendmsg_overrun(t) ==
  /\ AtCall(t, "sending") /\ send_index = MAILBOX_MSG_QUEUE
  /\ overrun' = TRUE
  /\ UNCHANGED <<queue, send_index, recv_index, qsize, sync, mpc, msync, mslot, mkilled, posted, received>>

(* The return of sleep(): while(sync[send_index]).                         *)
sendmsg_woken(t) ==
  /\ AtCall(t, "sent")
  /\ mpc' = [mpc EXCEPT ![t] = IF sync[mslot[t]] = 1 THEN "asleep_sent" ELSE "user"]
  /\ UNCHANGED <<boxvars, msync, mslot, mkilled>>

recvmsg(t) ==
  /\ AtCall(t, "user") /\ t \notin mkilled
  /\ mpc' = [mpc EXCEPT ![t] = "receiving"]
  /\ UNCHANGED <<boxvars, msync, mslot, mkilled>>

(* From acquire() or the return of sleep(), with nothing to receive.       *)
recvmsg_empty(t) ==
  /\ AtCall(t, "receiving") /\ qsize = 0
  /\ mpc' = [mpc EXCEPT ![t] = IF t \in mkilled THEN "user" ELSE "asleep_receiving"]
  /\ UNCHANGED <<boxvars, msync, mslot, mkilled>>

recvmsg_take(t) ==
  /\ AtCall(t, "receiving") /\ qsize # 0
  /\ received' = Append(received, queue[recv_index])
  /\ qsize' = qsize - 1
  /\ recv_index' = recv_index + 1
  /\ sync' = [sync EXCEPT ![recv_index] = 0]
  /\ mpc' = [s \in Talker |-> IF s = t THEN "user"
                            ELSE IF sync[recv_index] = 1 THEN Awake(s) ELSE mpc[s]]
  /\ UNCHANGED <<queue, send_index, msync, mslot, mkilled, posted, overrun>>

kill_talker(t) ==
  /\ t \notin mkilled /\ ~overrun
  /\ mkilled' = mkilled \cup {t}
  /\ mpc' = [mpc EXCEPT ![t] = Awake(t)]
  /\ UNCHANGED <<boxvars, msync, mslot>>

MailboxNext ==
  \E t \in Talker :
    \/ \E s \in {0, 1} : sendmsg(t, s)
    \/ sendmsg_locked(t) \/ sendmsg_overrun(t) \/ sendmsg_woken(t)
    \/ recvmsg(t) \/ recvmsg_empty(t) \/ recvmsg_take(t) \/ kill_talker(t)

MailboxSpec == MailboxInit /\ [][MailboxNext]_mailvars
-----------------------------------------------------------------------------
(* The README of lab-messages: the mailbox is FIFO, and a sync sender      *)
(* "blocks until the receiver receives the message", and not longer: while *)
(* the queue is in bounds, messages leave in the order they came, none     *)
(* twice; a sender that waits does so for exactly as long as its message   *)
(* is in the queue, killed or not, and nobody sleeps through a wakeup.     *)
MailDelivered ==
  /\ received = SubSeq(posted, 1, recv_index)
  /\ qsize = Len(posted) - Len(received)
  /\ \A t \in Talker :
       /\ mpc[t] = "asleep_receiving" => qsize = 0 /\ t \notin mkilled
       /\ mpc[t] = "asleep_sent" => mslot[t] >= recv_index
       /\ mpc[t] = "sent" /\ sync[mslot[t]] = 0 => mslot[t] < recv_index
       /\ mpc[t] = "user" /\ msync[t] = 1 => mslot[t] < recv_index

(* The indices stay inside the queue: the README of lab-messages has       *)
(* MAILBOX_MSG_QUEUE as the maximum number of messages in a mailbox.  They *)
(* do not: after that many messages the next is copied past its end.       *)
StaysInQueue == ~overrun
=============================================================================
