-------------------------------- MODULE MCLines --------------------------------
(* Lines with two asks over two connections and a listener that sends two     *)
(* frames of its own: enough for a connection to close under an ask while   *)
(* the next one stands, and for an id to be answered before it is used.     *)
EXTENDS Lines
=============================================================================
