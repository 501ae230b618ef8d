------------------------------ MODULE Mailbox ------------------------------
(***************************************************************************)
(* What the mailbox of a task promises to those that send it messages and  *)
(* to the task: a message sent while the receiver runs is kept until it is *)
(* received, once; the last one sent is received first (vec_pop).          *)
(***************************************************************************)
EXTENDS Sequences, SequencesExt

CONSTANT Message

VARIABLES box, received, alive

mailboxVars == <<box, received, alive>>

MailboxInit == box = <<>> /\ received = <<>> /\ alive = TRUE

Send(m) ==
    /\ alive
    /\ box' = Append(box, m)
    /\ UNCHANGED <<received, alive>>

Receive ==
    /\ alive /\ box # <<>>
    /\ received' = Append(received, Last(box))
    /\ box' = Front(box)
    /\ UNCHANGED alive

\* The receiver ends; what it has not received is lost.
End == alive /\ alive' = FALSE /\ UNCHANGED <<box, received>>

MailboxNext == (\E m \in Message : Send(m)) \/ Receive \/ End

MailboxSpec == MailboxInit /\ [][MailboxNext]_mailboxVars
=============================================================================
