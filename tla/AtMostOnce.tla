----------------------------- MODULE AtMostOnce -----------------------------
(***************************************************************************)
(* What every replay filter of the code base promises: each identifier (a  *)
(* message number, a sequence number) is honoured at most once.  The       *)
(* filters may refuse whatever they like; they may never honour twice.     *)
(* EpochSpec is the promise of a filter that can be reset: once per epoch. *)
(***************************************************************************)
EXTENDS Naturals

CONSTANT Id          \* the identifiers a message may carry

VARIABLE honoured    \* how many times each identifier has been honoured

Fresh == [i \in Id |-> 0]

Init == honoured = Fresh

Honour(i) == /\ honoured[i] = 0
             /\ honoured' = [honoured EXCEPT ![i] = 1]

NewEpoch == honoured' = Fresh

Next == \E i \in Id : Honour(i)

Spec == Init /\ [][Next]_honoured

EpochSpec == Init /\ [][Next \/ NewEpoch]_honoured
=============================================================================
