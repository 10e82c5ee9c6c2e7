--------------------------- MODULE MCTlsListener ---------------------------
(***************************************************************************)
(* TlsListener for TLC: more connections than slots and than places in the *)
(* channel, so that connections are dropped and tasks wait to send.        *)
(***************************************************************************)
EXTENDS TlsListener
=============================================================================
