-------------------------------- MODULE Relay --------------------------------
(***************************************************************************)
(* What a gateway promises to a client that connects: its connection goes  *)
(* to one destination, chosen once, or is refused before a byte of it has  *)
(* reached anyone; and the destination hears the client as if it had been  *)
(* connected from the start, though the gateway has read some of it.       *)
(***************************************************************************)
EXTENDS Naturals, Sequences

CONSTANTS Undecided, Refused

VARIABLES
    sent,   \* what the client has sent
    heard,  \* what the destination has read
    dest    \* the destination

vars == <<sent, heard, dest>>

IsPrefixOf(s, t) == Len(s) <= Len(t) /\ s = SubSeq(t, 1, Len(s))

Init == sent = <<>> /\ heard = <<>> /\ dest = Undecided

Send ==
    /\ IsPrefixOf(sent, sent') /\ Len(sent') = Len(sent) + 1
    /\ UNCHANGED <<heard, dest>>

\* The host the client named, or a refusal: which one is the gateway's business.
Decide ==
    /\ dest = Undecided /\ dest' # Undecided
    /\ UNCHANGED <<sent, heard>>

Deliver ==
    /\ dest \notin {Undecided, Refused}
    /\ IsPrefixOf(heard, heard') /\ heard # heard'
    /\ IsPrefixOf(heard', sent)
    /\ UNCHANGED <<sent, dest>>

Next == Send \/ Decide \/ Deliver

Safety == Init /\ [][Next]_vars

\* Every connection is decided, and a destination catches up with its client.
Liveness == []<>(dest = Refused \/ (dest # Undecided /\ heard = sent))

Spec == Safety /\ Liveness
=============================================================================
