------------------------------ MODULE LastBytes ------------------------------
(***************************************************************************)
(* What a serial line promises its reader: the bytes in the order they     *)
(* came, and of those not yet read the last ones, if they are too many.    *)
(***************************************************************************)
EXTENDS Naturals, Sequences

CONSTANT Bytes

VARIABLES
    line,        \* the bytes received and not read, first to last
    limit        \* how many are kept

LineInit == line = <<>>

Receive(bs) ==
    LET all == line \o bs
        over == IF Len(all) > limit THEN Len(all) - limit ELSE 0
    IN line' = SubSeq(all, over + 1, Len(all))

Read(n) == line' = SubSeq(line, n + 1, Len(line))

LineNext ==
    /\ line' # line
    /\ \/ \E n \in 1..limit : \E bs \in [1..n -> Bytes] : Receive(bs)
       \/ \E n \in 1..Len(line) : Read(n)
    /\ UNCHANGED limit

LineSpec == LineInit /\ [][LineNext]_<<line, limit>>
=============================================================================
