------------------------------ MODULE FileCopy ------------------------------
(***************************************************************************)
(* What a file transfer between two machines promises, whatever the        *)
(* protocol: the copy grows by the next units of the file and by nothing   *)
(* else, and neither end says that the file arrived unless it did -- or    *)
(* the line has done something the protocol cannot see (spoiled).  Unit i  *)
(* of the source is the number i; units from need onwards are padding.     *)
(***************************************************************************)
EXTENDS Naturals, Sequences

CONSTANT MaxUnits        \* the most units one step may copy

VARIABLES need,          \* units the file has
          copy,          \* what the addressee has written
          outcome,       \* what the addressee's end reports
          claim,         \* what the sender's end reports
          spoiled        \* the line broke the protocol's assumptions

vars == <<need, copy, outcome, claim, spoiled>>

Whole == Len(copy) >= need

Init == /\ need \in Nat \ {0}
        /\ copy = <<>>
        /\ outcome = "open"
        /\ claim = "open"
        /\ spoiled = FALSE

\* The next n units are written at the end of the copy.
Extend == /\ outcome = "open"
          /\ \E n \in 1..MaxUnits :
                copy' = copy \o [i \in 1..n |-> Len(copy) + i - 1]
          /\ UNCHANGED <<need, outcome, claim, spoiled>>

\* The addressee reports the file, or throws it away.
Deliver == /\ outcome = "open"
           /\ Whole \/ spoiled
           /\ outcome' = "received"
           /\ UNCHANGED <<need, copy, claim, spoiled>>

Discard == /\ outcome = "open"
           /\ outcome' = "failed"
           /\ UNCHANGED <<need, copy, claim, spoiled>>

\* The sender reports the file sent, or not.
Claim == /\ claim = "open"
         /\ Whole \/ spoiled
         /\ claim' = "sent"
         /\ UNCHANGED <<need, copy, outcome, spoiled>>

Disclaim == /\ claim = "open"
            /\ claim' = "failed"
            /\ UNCHANGED <<need, copy, outcome, spoiled>>

Spoil == /\ spoiled' = TRUE
         /\ UNCHANGED <<need, copy, outcome, claim>>

Next == Extend \/ Deliver \/ Discard \/ Claim \/ Disclaim \/ Spoil

Spec == Init /\ [][Next]_vars
=============================================================================
