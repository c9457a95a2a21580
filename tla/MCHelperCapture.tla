--------------------------- MODULE MCHelperCapture --------------------------
(***************************************************************************)
(* HelperCapture on small instances: all requests and page bodies have one *)
(* method and URL but those set apart; some responses reach the filter.    *)
(***************************************************************************)
EXTENDS HelperCapture, TLC

CONSTANTS
    Alone,          \* requests and bodies of another URL
    Streamed        \* requests whose response the filter delivers: three bytes

MCUrl == [x \in Requests \cup Bodies |-> IF x \in Alone THEN "other" ELSE "same"]

MCSize == [q \in Requests |-> IF q \in Streamed THEN 3 ELSE 0]

=============================================================================
