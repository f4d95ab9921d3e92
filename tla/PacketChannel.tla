---------------------------- MODULE PacketChannel ----------------------------
(***************************************************************************)
(* What an application may rely on when one encoder feeds one decoder over *)
(* a network that may drop frames: packets arrive whole, at most once and  *)
(* in the order in which they were encoded; any of them may be missing.    *)
(***************************************************************************)
EXTENDS Naturals, Sequences

VARIABLES
    sent,       \* the packets passed to encode(), in order
    received    \* indices in sent of the packets decode() returned, in order

Init == sent = <<>> /\ received = <<>>

\* encode() is called with one packet or more.
Send ==
    /\ Len(sent') > Len(sent)
    /\ SubSeq(sent', 1, Len(sent)) = sent
    /\ UNCHANGED received

Deliver(i) ==
    /\ i \in 1 .. Len(sent)
    /\ \A k \in DOMAIN received : received[k] < i
    /\ received' = Append(received, i)
    /\ UNCHANGED sent

Next == Send \/ \E i \in 1 .. Len(sent) : Deliver(i)

Spec == Init /\ [][Next]_<<sent, received>>
=============================================================================
