------------------------------ MODULE SerialRx ------------------------------
(***************************************************************************)
(* The receiving side of a serial device (components/drivers/serial/       *)
(* dev_serial.c) and the thread that reads it.  Bytes come by interrupts,  *)
(* one by one, or in blocks by DMA, into a ring that overwrites its oldest *)
(* bytes.  The one reader sleeps on the device's wait queue, which         *)
(* rx_indicate wakes (components/drivers/ipc/waitqueue.c), as the shell    *)
(* does through read(2).  The bytes of a DMA block are taken to be written *)
(* when its event comes.                                                   *)
(***************************************************************************)
EXTENDS Naturals, Sequences

CONSTANTS
    Bytes,       \* what may come over the line
    BufSize,     \* config.bufsz
    ReadLens     \* how many bytes the reader may ask for; the shell asks for 1

ASSUME RxAssumption ==
    /\ 0 \in Bytes
    /\ BufSize \in Nat /\ BufSize > 1
    /\ ReadLens \subseteq Nat \ {0}

VARIABLES
    dmaRx,       \* RT_DEVICE_FLAG_DMA_RX instead of RT_DEVICE_FLAG_INT_RX
    byBlocks,    \* a DMA ring read by _serial_dma_rx; a ring that serial_fops_open
                 \* has opened once more is read by _serial_int_rx
    buffer, putIndex, getIndex, isFull,
    inIsr,       \* rt_hw_serial_isr is in its loop over the bytes received
    indicates,   \* rx_indicate is set
    wakeFlag,    \* the wait queue's RT_WQ_FLAG_WAKEUP
    reader,      \* what the reading thread does: "opening", "reading", "empty" (its
                 \* read got nothing), "asleep" on the wait queue, "woken"
    left,        \* bytes the read under way still wants
    got          \* that read has got some

ringVars == <<buffer, putIndex, getIndex, isFull>>
readerVars == <<reader, left, got>>
modeVars == <<dmaRx, byBlocks>>
rxVars == <<modeVars, ringVars, inIsr, indicates, wakeFlag, readerVars>>

\* The device was opened, in one of the modes, before the reader opens it.
RxInit ==
    /\ dmaRx \in BOOLEAN /\ byBlocks \in BOOLEAN /\ (byBlocks => dmaRx)
    /\ buffer = [i \in 0..(BufSize - 1) |-> 0]
    /\ putIndex = 0 /\ getIndex = 0 /\ isFull = FALSE
    /\ inIsr = FALSE /\ indicates = FALSE
    /\ wakeFlag = FALSE
    /\ reader = "opening" /\ left \in ReadLens /\ got = FALSE

\* Faulty: the index may point one past the ring.
FollowingLate(i) == IF i + 1 > BufSize THEN 0 ELSE i + 1

Following(i) == IF i + 1 >= BufSize THEN 0 ELSE i + 1

\* The reader finds nothing.
RingEmpty == getIndex = putIndex /\ ~isFull

\* _serial_fifo_calc_recved_len
ReceivedLen ==
    IF putIndex = getIndex THEN IF isFull THEN BufSize ELSE 0
    ELSE IF putIndex > getIndex THEN putIndex - getIndex
    ELSE BufSize - (getIndex - putIndex)

-----------------------------------------------------------------------------
\* rx_indicate, if there is one: serial_fops_rx_ind, that is rt_wqueue_wakeup.
Indicates ==
    /\ wakeFlag' = (wakeFlag \/ indicates)
    /\ reader' = IF indicates /\ reader = "asleep" THEN "woken" ELSE reader

\* RT_SERIAL_EVENT_RX_IND, one byte: the ring holds one byte less than its
\* buffer, and is_full says only that bytes were overwritten.
ReceiveByte(b) ==
    /\ ~dmaRx
    /\ buffer' = [buffer EXCEPT ![putIndex] = b]
    /\ putIndex' = Following(putIndex)
    /\ IF putIndex' = getIndex
         THEN getIndex' = Following(getIndex) /\ isFull' = TRUE
         ELSE UNCHANGED <<getIndex, isFull>>
    /\ inIsr' = TRUE
    /\ UNCHANGED <<modeVars, indicates, wakeFlag, readerVars>>

\* The length for rx_indicate; whether the ring is full is not looked at.
RxLength ==
    IF putIndex >= getIndex THEN putIndex - getIndex ELSE BufSize - (getIndex - putIndex)

BytesReceived ==
    /\ inIsr
    /\ inIsr' = FALSE
    /\ IF RxLength # 0 THEN Indicates ELSE UNCHANGED <<wakeFlag, reader>>
    /\ UNCHANGED <<modeVars, ringVars, indicates, left, got>>

\* Faulty: a block that ends where the reader is does not count as overwriting.
PutIndexAfterOffByOne(len) ==
    LET p == putIndex + len
        full == isFull \/ IF getIndex <= putIndex THEN p >= BufSize /\ p % BufSize > getIndex
                          ELSE p > getIndex
    IN [put |-> p % BufSize, full |-> full]

\* rt_dma_recv_update_put_index: where the ring ends, and whether it is full now.
PutIndexAfter(len) ==
    LET p == putIndex + len
        full == isFull \/ IF getIndex <= putIndex THEN p >= BufSize /\ p % BufSize >= getIndex
                          ELSE p >= getIndex
    IN [put |-> p % BufSize, full |-> full]

\* RT_SERIAL_EVENT_RX_DMADONE
ReceiveBlock(bs) ==
    /\ dmaRx
    /\ LET n == Len(bs)  r == PutIndexAfter(n)
       IN /\ buffer' = [i \in DOMAIN buffer |->
                           LET k == (i + BufSize - putIndex) % BufSize
                           IN IF k < n THEN bs[k + 1] ELSE buffer[i]]
          /\ putIndex' = r.put /\ isFull' = r.full
          /\ getIndex' = IF r.full THEN r.put ELSE getIndex
    /\ Indicates
    /\ UNCHANGED <<modeVars, inIsr, indicates, left, got>>

-----------------------------------------------------------------------------
\* Threads run between interrupts.
Reader(at) == reader = at /\ ~inIsr

\* serial_fops_open sets rx_indicate, and the first read is called.
Listen ==
    /\ Reader("opening")
    /\ indicates' = TRUE
    /\ reader' = "reading"
    /\ UNCHANGED <<modeVars, ringVars, inIsr, wakeFlag, left, got>>

\* The read returns some bytes, and another one is called.
ReadReturns ==
    /\ left' \in ReadLens /\ got' = FALSE
    /\ UNCHANGED reader

\* The read got nothing: serial_fops_read goes on to wait.
ReadFails ==
    /\ reader' = "empty"
    /\ UNCHANGED <<left, got>>

\* _serial_int_rx: each byte is taken with interrupts disabled.
ReadByte ==
    /\ Reader("reading") /\ ~byBlocks /\ ~RingEmpty
    /\ getIndex' = Following(getIndex)
    /\ isFull' = FALSE
    /\ IF left = 1 THEN ReadReturns ELSE left' = left - 1 /\ got' = TRUE /\ UNCHANGED reader
    /\ UNCHANGED <<modeVars, buffer, putIndex, inIsr, indicates, wakeFlag>>

ReadStops ==
    /\ Reader("reading") /\ ~byBlocks /\ RingEmpty
    /\ IF got THEN ReadReturns ELSE ReadFails
    /\ UNCHANGED <<modeVars, ringVars, inIsr, indicates, wakeFlag>>

\* _serial_dma_rx: all that is there, in one section.
ReadBlock ==
    /\ Reader("reading") /\ byBlocks
    /\ LET n == IF left < ReceivedLen THEN left ELSE ReceivedLen
       IN /\ getIndex' = (getIndex + n) % BufSize
          /\ isFull' = (isFull /\ n = 0)
          /\ IF n = 0 THEN ReadFails ELSE ReadReturns
    /\ UNCHANGED <<modeVars, buffer, putIndex, inIsr, indicates, wakeFlag>>

\* rt_wqueue_wait: it does not sleep if somebody was to be woken meanwhile.
WaitForInput ==
    /\ Reader("empty")
    /\ wakeFlag' = FALSE
    /\ reader' = IF wakeFlag THEN "reading" ELSE "asleep"
    /\ UNCHANGED <<modeVars, ringVars, inIsr, indicates, left, got>>

\* The reader runs again, whoever woke it: the flag is cleared, then the ring read.
WaitOver ==
    /\ Reader("woken")
    /\ wakeFlag' = FALSE
    /\ reader' = "reading"
    /\ UNCHANGED <<modeVars, ringVars, inIsr, indicates, left, got>>

\* rt_thread_resume of the reader by anybody.
ReaderResumed ==
    /\ Reader("asleep")
    /\ reader' = "woken"
    /\ UNCHANGED <<modeVars, ringVars, inIsr, indicates, wakeFlag, left, got>>

RxNext ==
    \/ \E b \in Bytes : ReceiveByte(b)
    \/ BytesReceived
    \/ \E n \in 1..BufSize : \E bs \in [1..n -> Bytes] : ReceiveBlock(bs)
    \/ Listen \/ ReadByte \/ ReadStops \/ ReadBlock
    \/ WaitForInput \/ WaitOver \/ ReaderResumed

-----------------------------------------------------------------------------
RxTypeOK ==
    /\ {dmaRx, byBlocks, isFull, inIsr, indicates, wakeFlag, got} \subseteq BOOLEAN
    /\ buffer \in [0..(BufSize - 1) -> Bytes]
    /\ putIndex \in 0..(BufSize - 1) /\ getIndex \in 0..(BufSize - 1)
    /\ reader \in {"opening", "reading", "empty", "asleep", "woken"}
    /\ left \in Nat \ {0}

\* The bytes a reader will get.
Unread ==
    LET n == IF dmaRx THEN ReceivedLen ELSE RxLength
    IN [i \in 1..n |-> buffer[(getIndex + i - 1) % BufSize]]

Capacity == IF dmaRx THEN BufSize ELSE BufSize - 1

NoSleeperBesideInput ==
    (reader = "asleep" \/ (reader = "empty" /\ ~wakeFlag)) /\ ~inIsr => RingEmpty
=============================================================================
