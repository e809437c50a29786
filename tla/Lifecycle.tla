------------------------------ MODULE Lifecycle ------------------------------
(***************************************************************************)
(* What becomes of one accepted socket: a connection passes through its    *)
(* states in one direction, and its socket is closed, once, only after the *)
(* connection has been taken down.                                         *)
(***************************************************************************)
CONSTANT Conns

VARIABLE stage           \* for each connection, how far it has come

Stages == {"none", "kConnecting", "kConnected", "kDisconnecting",
           "kDisconnected", "freed"}

Follows == { <<"none", "kConnecting">>,
             <<"kConnecting", "kConnected">>,
             <<"kConnected", "kDisconnecting">>,
             <<"kConnected", "kDisconnected">>,
             <<"kDisconnecting", "kDisconnected">>,
             <<"kDisconnected", "freed">> }

Init == stage = [c \in Conns |-> "none"]

\* A step of the server moves any number of connections one stage on.
Next ==
  /\ stage' \in [Conns -> Stages]
  /\ \A c \in Conns :
       stage'[c] # stage[c] => <<stage[c], stage'[c]>> \in Follows

Spec == Init /\ [][Next]_stage
==============================================================================
