------------------------------- MODULE Serial -------------------------------
(***************************************************************************)
(* A serial device that is read and written at the same time, as the       *)
(* console is: the two sides share nothing but the interrupt.              *)
(***************************************************************************)
EXTENDS SerialRx, SerialTx

serialVars == <<rxVars, txVars>>

SerialInit == RxInit /\ TxInit

\* Nothing of the sending side runs while the handler is in its loop.
SerialNext ==
    \/ RxNext /\ UNCHANGED txVars
    \/ TxNext /\ ~inIsr /\ UNCHANGED rxVars

SerialSpec == SerialInit /\ [][SerialNext]_serialVars

-----------------------------------------------------------------------------
\* Type invariant.
SerialTypeOK == RxTypeOK /\ TxTypeOK

\* The ring with its indices, its flag and the read and put arithmetic of all
\* modes is a queue of the last bytes received: whatever comes is added, what is
\* read is in order, once, and only the oldest bytes are ever lost.
Line == INSTANCE LastBytes WITH line <- Unread, limit <- Capacity

AllThatComesIsAdded ==
    [][rxVars' # rxVars =>
          /\ \A b \in Bytes : ReceiveByte(b) => Line!Receive(<<b>>)
          /\ \A n \in 1..BufSize : \A bs \in [1..n -> Bytes] :
                ReceiveBlock(bs) => Line!Receive(bs)]_serialVars

RefinesLine == Line!LineSpec /\ AllThatComesIsAdded

\* Nobody waits for what has happened: a reader sleeps, or is bound to, only
\* beside an empty ring, also if bytes come between its read and its wait or
\* before rx_indicate is set; a writer only if an interrupt will wake it; and a
\* buffer is in the queue only if a transfer runs or somebody is about to start it.
NobodyForgotten == NoSleeperBesideInput /\ NobodyWaitsForNothing

\* What is written is sent once and in order: by interrupts with a carriage return
\* before every line feed, by DMA always the buffer that the end of the transfer
\* will pop and report.  (Not if a writer was outrun between its push and its look
\* at activated.)
SentInOrder == LineComplete /\ (~outrun => WireCarriesHead)
=============================================================================
