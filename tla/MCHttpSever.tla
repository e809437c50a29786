----------------------------- MODULE MCHttpSever -----------------------------
(* HttpSever for TLC. *)
EXTENDS HttpSever

\* A client resets its connection only where both clients send no more than
\* one request, or just one of them has come.
ResetsWithinBounds ==
  (\E c \in Conns : peer[c] \in {"reset", "gone"}) =>
    sent <= 1 \/ accepted + backlog <= 1
==============================================================================
