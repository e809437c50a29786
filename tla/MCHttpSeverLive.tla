--------------------------- MODULE MCHttpSeverLive ---------------------------
(***************************************************************************)
(* HttpSever for TLC's liveness checking: three instances in one run, each *)
(* small enough for it.  Two clients may wait together and accept4() may   *)
(* fail once; or one of the two sends a request; or one client sends up to *)
(* three requests.  Which one is chosen at the start; the cfg has the      *)
(* largest of each bound.                                                  *)
(***************************************************************************)
EXTENDS HttpSever

VARIABLE bounds          \* those of the instance

WithinBounds ==
  /\ accepted + backlog <= bounds.conns
  /\ sent <= bounds.requests
  /\ errors <= bounds.errors

LiveInit ==
  /\ Init
  /\ bounds \in {[conns |-> 2, requests |-> 0, errors |-> 1],
                 [conns |-> 2, requests |-> 1, errors |-> 0],
                 [conns |-> 1, requests |-> 3, errors |-> 0]}

LiveNext == Next /\ UNCHANGED bounds /\ WithinBounds'

LiveSpec == LiveInit /\ [][LiveNext]_<<vars, bounds>> /\ Fairness
==============================================================================
