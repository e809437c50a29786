---------------------------- MODULE MCHttpRequest ----------------------------
(* HttpRequest for TLC: the requests its clients send. *)
EXTENDS HttpRequest

Kept == <<"get", "crlf", "keep", "crlf", "crlf">>
Closing == <<"get", "crlf", "other", "crlf", "crlf">>
WithBody == <<"get", "crlf", "len", "crlf", "crlf", "body", "body">>
KeptWithBody == <<"get", "crlf", "keep", "crlf", "len", "crlf", "crlf",
                  "body", "body">>
Malformed == <<"junk", "crlf", "crlf">>
BareLf == <<"get", "lf">>

AllRequests == {Kept, Closing, WithBody, KeptWithBody, Malformed, BareLf}
KeptOnly == {Kept}
==============================================================================
