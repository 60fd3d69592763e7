------------------------------ MODULE MCMailbox -----------------------------
(* Messages, senders and receivers are interchangeable.                     *)
EXTENDS Mailbox, TLC

Symmetry == Permutations(Sender) \cup Permutations(Receiver) \cup Permutations(Msg)
=============================================================================
