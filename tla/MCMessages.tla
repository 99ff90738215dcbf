----------------------------- MODULE MCMessages -----------------------------
(* A message queue of two slots and a mailbox of three words, used by two
   threads each.  They have nothing to do with each other, so one stays as it
   was made while the other is used; the names of the mailbox start with box. *)
EXTENDS MessageQueue, TLC

CONSTANTS t1, t2, v1, v2, s1, s2

MCThreads == {t1, t2}
MCPrio == t1 :> 1 @@ t2 :> 1

VARIABLES
    boxSusp, boxArmed, boxTtmr, boxError, boxExpiring, boxPrio,
    boxPool, boxEntry, boxIn, boxOut, boxAlive, boxPc, boxMail, boxLost

boxVars == <<boxSusp, boxArmed, boxTtmr, boxError, boxExpiring, boxPrio,
             boxPool, boxEntry, boxIn, boxOut, boxAlive, boxPc, boxMail, boxLost>>

Box == INSTANCE Mailbox WITH
    Size <- Size + 1,
    susp <- boxSusp, armed <- boxArmed, ttmr <- boxTtmr, error <- boxError,
    expiring <- boxExpiring, prio <- boxPrio, pool <- boxPool, entry <- boxEntry,
    inOffset <- boxIn, outOffset <- boxOut, alive <- boxAlive, pc <- boxPc,
    mail <- boxMail, lost <- boxLost

MCInit == Init /\ Box!Init

MCNext ==
    \/ Box!Init /\ Next /\ UNCHANGED boxVars
    \/ Init /\ Box!Next /\ UNCHANGED vars

MCSpec == MCInit /\ [][MCNext]_<<vars, boxVars>>

\* Threads of one priority in FIFO order play equal parts, and so do messages.
MCSymmetry == Permutations(MCThreads) \cup Permutations({v1, v2})

-----------------------------------------------------------------------------
\* Type invariant of the mailbox, its offsets and number of mails among it.
BoxTypeOK == Box!TypeOK

\* The mailbox is a bounded queue: whatever wraps around, waits, times out or is
\* reset, mails are neither lost nor doubled nor overtaken.
BoxRefinesQueue == Box!RefinesQueue

\* No wakeup is lost between senders, receivers, timeouts and resets of the
\* mailbox, except with a raced or deleted thread.
BoxNobodyForgotten == Box!NobodyForgotten
=============================================================================
