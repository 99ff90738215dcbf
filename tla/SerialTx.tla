------------------------------ MODULE SerialTx ------------------------------
(***************************************************************************)
(* The sending side of a serial device (components/drivers/serial/         *)
(* dev_serial.c).  In interrupt mode a writer hands the hardware one       *)
(* character at a time and waits for a completion while there is no room.  *)
(* In DMA mode writers push buffers on a data queue, and the interrupt at  *)
(* the end of each transfer starts the next one.  The hardware is          *)
(* external: it has room for one character, or transfers one buffer.  How  *)
(* a push waits for room in the queue is the matter of module Blocks.      *)
(***************************************************************************)
EXTENDS Completion, Naturals, Sequences

CONSTANTS
    Writers,     \* the threads that write, one at a time in interrupt mode
    Buffers,     \* what they write by DMA
    NoBuffer,
    QueueSize,   \* items of data_queue
    Texts        \* what is written by interrupts: sequences of "x" and "nl"

ASSUME TxAssumption ==
    /\ NoBuffer \notin Buffers
    /\ QueueSize \in Nat \ {0}
    /\ Texts \subseteq Seq({"x", "nl"})

VARIABLES
    dmaTx,       \* RT_DEVICE_FLAG_DMA_TX instead of RT_DEVICE_FLAG_INT_TX
    text,        \* data and length of the last write by interrupts
    at,          \* characters of it that were sent: all when the write has returned
    step,        \* the next thing to send: "cr" (for a line feed) or "char"
    phase,       \* "try" it, "refused" by the hardware, "waits" for the completion
    busy,        \* the hardware has no room
    sent,        \* characters the hardware got since the write began
    queue,       \* data_queue
    activated,
    data,        \* writer -> its buffer, until its write returns
    sending,     \* writer -> "idle", "pushed" or "starting" a transfer
    onWire,      \* the buffer that the hardware transfers
    outrun       \* history: between its push and its look at activated a writer
                 \* met another push, or the end of the transfer of its own buffer

charVars == <<text, at, step, phase, busy, sent, compVars>>
dmaVars == <<queue, activated, data, sending, onWire, outrun>>
txVars == <<dmaTx, charVars, dmaVars>>

TxInit ==
    /\ dmaTx \in BOOLEAN
    /\ CompletionInit
    /\ text = <<>> /\ at = 0 /\ step = "cr" /\ phase = "try" /\ busy = FALSE /\ sent = <<>>
    /\ queue = <<>> /\ activated = FALSE
    /\ data = [w \in Writers |-> NoBuffer]
    /\ sending = [w \in Writers |-> "idle"]
    /\ onWire = NoBuffer
    /\ outrun = FALSE

-----------------------------------------------------------------------------
\* _serial_int_tx on a stream: a line feed gets a carriage return before it.
WriteText(s) ==
    /\ ~dmaTx /\ at = Len(text)
    /\ text' = s /\ at' = 0 /\ step' = "cr" /\ sent' = <<>>
    /\ UNCHANGED <<dmaTx, phase, busy, compVars, dmaVars>>

\* putc with room in the hardware.
Putc(c) == ~busy /\ busy' = TRUE /\ sent' = Append(sent, c)

\* A character of the text is left, and the writer is about to do this.
Writes(what) == at < Len(text) /\ step = what /\ phase = "try"

SendCr ==
    /\ Writes("cr")
    /\ IF text[at + 1] = "nl" THEN Putc("cr") ELSE UNCHANGED <<busy, sent>>
    /\ step' = "char"
    /\ UNCHANGED <<dmaTx, text, at, phase, compVars, dmaVars>>

SendChar ==
    /\ Writes("char")
    /\ Putc(text[at + 1])
    /\ at' = at + 1 /\ step' = "cr"
    /\ UNCHANGED <<dmaTx, text, phase, compVars, dmaVars>>

\* putc finds no room and returns -1.
NoRoom ==
    /\ Writes("char") \/ (Writes("cr") /\ text[at + 1] = "nl")
    /\ busy
    /\ phase' = "refused"
    /\ UNCHANGED <<dmaTx, text, at, step, busy, sent, compVars, dmaVars>>

\* Faulty: the completion is initialised before each wait.
WaitAfresh ==
    /\ phase = "refused"
    /\ comp' = "thread" /\ asleep' = TRUE /\ phase' = "waits"
    /\ UNCHANGED <<armed, expiring, dmaTx, text, at, step, busy, sent, dmaVars>>

\* rt_completion_wait, which finds it done if the hardware was quick.
Wait ==
    /\ phase = "refused"
    /\ \/ WaitSleeps(FALSE) /\ phase' = "waits"
       \/ WaitFindsDone /\ phase' = "try"
    /\ UNCHANGED <<dmaTx, text, at, step, busy, sent, dmaVars>>

\* Faulty: after its wait the writer goes on to the line feed itself.
GoesOnPastCr ==
    /\ phase = "waits"
    /\ WaitEnds
    /\ phase' = "try" /\ step' = "char"
    /\ UNCHANGED <<dmaTx, text, at, busy, sent, dmaVars>>

\* The writer runs again, and whatever woke it tries the same character.
GoesOn ==
    /\ phase = "waits"
    /\ WaitEnds
    /\ phase' = "try"
    /\ UNCHANGED <<dmaTx, text, at, step, busy, sent, dmaVars>>

\* The hardware has room again: RT_SERIAL_EVENT_TX_DONE.
TxDone ==
    /\ ~dmaTx /\ busy
    /\ busy' = FALSE
    /\ CompletionDone
    /\ UNCHANGED <<dmaTx, text, at, step, phase, sent, dmaVars>>

WriterResumed ==
    /\ ResumeWaiter
    /\ UNCHANGED <<dmaTx, text, at, step, phase, busy, sent, dmaVars>>

-----------------------------------------------------------------------------
\* _serial_dma_tx: the push.
PushBuffer(w, b) ==
    /\ dmaTx /\ sending[w] = "idle"
    /\ b # onWire /\ \A i \in DOMAIN queue : queue[i] # b
    /\ \A v \in Writers : data[v] # b
    /\ Len(queue) < QueueSize
    /\ queue' = Append(queue, b)
    /\ data' = [data EXCEPT ![w] = b]
    /\ sending' = [sending EXCEPT ![w] = "pushed"]
    /\ outrun' = (outrun \/ \E v \in Writers : sending[v] = "pushed")
    /\ UNCHANGED <<dmaTx, charVars, activated, onWire>>

\* Then, with interrupts disabled, the writer sees whether a transfer is under way.
LookAtActivated(w) ==
    /\ sending[w] = "pushed"
    /\ activated' = TRUE
    /\ IF activated
         THEN sending' = [sending EXCEPT ![w] = "idle"] /\ data' = [data EXCEPT ![w] = NoBuffer]
         ELSE sending' = [sending EXCEPT ![w] = "starting"] /\ UNCHANGED data
    /\ UNCHANGED <<dmaTx, charVars, queue, onWire, outrun>>

\* dma_transmit of its own buffer.
StartTransfer(w) ==
    /\ sending[w] = "starting"
    /\ onWire' = data[w]
    /\ sending' = [sending EXCEPT ![w] = "idle"]
    /\ data' = [data EXCEPT ![w] = NoBuffer]
    /\ UNCHANGED <<dmaTx, charVars, queue, activated, outrun>>

\* RT_SERIAL_EVENT_TX_DMADONE: the first buffer is popped and reported to
\* tx_complete (of an empty queue none, and the pointer is not set), and the next
\* one, if there is one, is transferred.
TransferEnds ==
    /\ onWire # NoBuffer
    /\ queue' = IF queue = <<>> THEN <<>> ELSE Tail(queue)
    /\ onWire' = IF queue' = <<>> THEN NoBuffer ELSE Head(queue')
    /\ activated' = (queue' # <<>>)
    /\ outrun' = (outrun \/ \E w \in Writers : sending[w] = "pushed" /\ data[w] = onWire)
    /\ UNCHANGED <<dmaTx, charVars, data, sending>>

TxNext ==
    \/ \E s \in Texts : WriteText(s)
    \/ SendCr \/ SendChar \/ NoRoom \/ Wait \/ GoesOn \/ TxDone \/ WriterResumed
    \/ \E w \in Writers, b \in Buffers : PushBuffer(w, b)
    \/ \E w \in Writers : LookAtActivated(w) \/ StartTransfer(w)
    \/ TransferEnds

-----------------------------------------------------------------------------
TxTypeOK ==
    /\ CompletionTypeOK /\ ~armed /\ ~expiring
    /\ {dmaTx, busy, activated, outrun} \subseteq BOOLEAN
    /\ text \in Texts \cup {<<>>} /\ at \in 0..Len(text)
    /\ step \in {"cr", "char"} /\ phase \in {"try", "refused", "waits"}
    /\ sent \in Seq({"x", "nl", "cr"})
    /\ queue \in Seq(Buffers) /\ Len(queue) <= QueueSize
    /\ data \in [Writers -> Buffers \cup {NoBuffer}]
    /\ sending \in [Writers -> {"idle", "pushed", "starting"}]
    /\ onWire \in Buffers \cup {NoBuffer}

\* What the hardware must have got when k characters were sent.
Expanded[k \in 0..Len(text)] ==
    IF k = 0 THEN <<>>
    ELSE Expanded[k - 1] \o IF text[k] = "nl" THEN <<"cr", "nl">> ELSE <<text[k]>>

LineComplete ==
    sent = Expanded[at] \o IF at < Len(text) /\ step = "char" /\ text[at + 1] = "nl"
                            THEN <<"cr">> ELSE <<>>

WireCarriesHead == onWire # NoBuffer => queue # <<>> /\ onWire = Head(queue)

NobodyWaitsForNothing ==
    /\ asleep => busy
    /\ queue # <<>> => onWire # NoBuffer \/ \E w \in Writers : sending[w] # "idle"
=============================================================================
