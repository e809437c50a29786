------------------------------- MODULE Journal -------------------------------
(***************************************************************************)
(* What the logging front end promises its callers: lines are accepted one *)
(* at a time, and what is stored of them is at every moment a prefix of    *)
(* the lines accepted, which only ever grows.                              *)
(***************************************************************************)
EXTENDS Sequences, Naturals

CONSTANT Line

VARIABLES
  accepted,              \* every line accepted so far, oldest first
  stored                 \* the lines in the log file

Init ==
  /\ accepted = <<>>
  /\ stored = <<>>

Accept ==
  /\ \E line \in Line : accepted' = Append(accepted, line)
  /\ UNCHANGED stored

Store ==
  /\ \E n \in Len(stored) + 1 .. Len(accepted) :
       stored' = SubSeq(accepted, 1, n)
  /\ UNCHANGED accepted

Next == Accept \/ Store

Spec == Init /\ [][Next]_<<accepted, stored>>
==============================================================================
