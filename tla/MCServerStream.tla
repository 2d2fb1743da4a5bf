--------------------------- MODULE MCServerStream ---------------------------
(* Small instances of ServerStream: messages are numbers.                   *)
EXTENDS ServerStream
=============================================================================
