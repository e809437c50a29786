-------------------------------- MODULE Alarms --------------------------------
(***************************************************************************)
(* What a timer queue promises: an alarm that has been set rings once, or  *)
(* is cancelled and never rings, and alarms ring in the order of their     *)
(* deadlines.                                                              *)
(***************************************************************************)
EXTENDS Integers, Sequences

CONSTANT Deadlines       \* the deadlines one may ask for

VARIABLES
  deadline,              \* the deadline of each alarm, in the order they were set
  armed,                 \* the alarms that are still to ring
  rang                   \* the alarms that have rung, oldest first

vars == <<deadline, armed, rang>>

Init ==
  /\ deadline = <<>>
  /\ armed = {}
  /\ rang = <<>>

Set ==
  /\ \E d \in Deadlines : deadline' = Append(deadline, d)
  /\ armed' = armed \cup {Len(deadline) + 1}
  /\ UNCHANGED rang

Cancel(a) ==
  /\ armed' = armed \ {a}
  /\ UNCHANGED <<deadline, rang>>

\* Only the alarm whose deadline comes first rings.
Ring(a) ==
  /\ \A b \in armed : deadline[a] <= deadline[b]
  /\ armed' = armed \ {a}
  /\ rang' = Append(rang, a)
  /\ UNCHANGED deadline

Next == Set \/ \E a \in armed : Cancel(a) \/ Ring(a)

Spec == Init /\ [][Next]_vars
==============================================================================
