---------------------------- MODULE MCGoCarrier ----------------------------
(* GoCarrier with two asks over two lines and a listener that sends a frame *)
(* of its own: an ask may be registered, sent, shut and answered while the  *)
(* other is dialing the line that follows.                                  *)
EXTENDS GoCarrier
=============================================================================
