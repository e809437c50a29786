--------------------------- MODULE MCLoggingAsync ----------------------------
(* LoggingAsync for TLC. *)
EXTENDS LoggingAsync
==============================================================================
