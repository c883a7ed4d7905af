------------------------------ MODULE MCThread ------------------------------
(* A small instance of Thread for TLC; MCThread.cfg gives the values.      *)
EXTENDS Thread
=============================================================================
