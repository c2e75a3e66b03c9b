---------------------------- MODULE MCHidTransport ----------------------------
(* A small instance of HidTransport.                                          *)
EXTENDS HidTransport
=============================================================================
