--------------------------- MODULE MessageStream ---------------------------
(* What a server stream promises to the code that iterates over it: the     *)
(* messages of the server, one by one and in their order, an end only with  *)
(* the whole result, and otherwise a failure or the cancellation asked for. *)
EXTENDS Naturals, Sequences

VARIABLES sent,         \* the server has sent the messages 1 .. sent
          upstream,     \* what the server did after them
          marker,       \* the message that completes the result, 0 if none has
          delivered,    \* the messages handed out
          outcome       \* how the iteration ended, or "reading"

vars == <<sent, upstream, marker, delivered, outcome>>

Init == /\ sent = 0
        /\ upstream = "open"
        /\ marker = 0
        /\ delivered = <<>>
        /\ outcome = "reading"

Send == /\ upstream = "open"
        /\ sent' = sent + 1
        /\ marker' \in IF marker = 0 THEN {0, sent + 1} ELSE {marker}
        /\ UNCHANGED <<upstream, delivered, outcome>>

Close == /\ upstream = "open"
         /\ upstream' \in {"ended", "failed"}
         /\ UNCHANGED <<sent, marker, delivered, outcome>>

Deliver == /\ outcome = "reading"
           /\ Len(delivered) < sent
           /\ delivered' = Append(delivered, Len(delivered) + 1)
           /\ UNCHANGED <<sent, upstream, marker, outcome>>

Finish == /\ outcome = "reading"
          /\ \/ marker \in 1 .. Len(delivered)
             \/ upstream = "ended" /\ Len(delivered) = sent
          /\ outcome' = "finished"
          /\ UNCHANGED <<sent, upstream, marker, delivered>>

GiveUp == /\ outcome = "reading"
          /\ outcome' \in {"failed", "cancelled"}
          /\ UNCHANGED <<sent, upstream, marker, delivered>>

Next == Send \/ Close \/ Deliver \/ Finish \/ GiveUp

Spec == Init /\ [][Next]_vars
=============================================================================
