------------------------- MODULE MCFrontendSession -------------------------
(* FrontendSession with two accounts and two requests.                     *)
EXTENDS FrontendSession, TLC
=============================================================================
