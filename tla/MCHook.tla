------------------------------- MODULE MCHook -------------------------------
(* A small instance of Hook for TLC; MCHook.cfg gives the values.          *)
EXTENDS Hook
=============================================================================
