---------------------------- MODULE ByteStreams -----------------------------
(***************************************************************************)
(* What a forwarder promises on each of its streams: the receiver gets the  *)
(* bytes of the sender, in order, none twice and none left out, and may be  *)
(* cut off at any point.                                                    *)
(***************************************************************************)
EXTENDS Naturals, Sequences, SequencesExt

CONSTANT Streams
VARIABLES sent, got   \* per stream: bytes put in, bytes taken out

Init == sent = [s \in Streams |-> <<>>] /\ got = [s \in Streams |-> <<>>]

Put(s) ==
    /\ IsPrefix(sent[s], sent'[s])
    /\ sent' = [sent EXCEPT ![s] = sent'[s]]
    /\ UNCHANGED got

Deliver(s) ==
    /\ IsPrefix(got[s], got'[s]) /\ IsPrefix(got'[s], sent[s])
    /\ got' = [got EXCEPT ![s] = got'[s]]
    /\ UNCHANGED sent

Next == \E s \in Streams : Put(s) \/ Deliver(s)
Spec == Init /\ [][Next]_<<sent, got>>
=============================================================================
