---------------------------- MODULE PacketChannel ---------------------------
(***************************************************************************)
(* What the modules about the two sides assume of one direction of the     *)
(* socket pair: packets that fit are queued, handed over whole, once and   *)
(* in order; the others vanish.                                            *)
(***************************************************************************)
EXTENDS Sequences

CONSTANT Packet

VARIABLES queue, handled     \* handled: every packet handed over so far

vars == <<queue, handled>>

Init == queue = <<>> /\ handled = <<>>

Put(p) == queue' = Append(queue, p) /\ UNCHANGED handled

Take ==
    /\ queue # <<>>
    /\ handled' = Append(handled, Head(queue))
    /\ queue' = Tail(queue)

Next == (\E p \in Packet : Put(p)) \/ Take

Spec == Init /\ [][Next]_vars /\ WF_vars(Take)
=============================================================================
