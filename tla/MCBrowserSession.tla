-------------------------- MODULE MCBrowserSession --------------------------
(* Instances of BrowserSession for TLC. *)
EXTENDS BrowserSession

CONSTANTS t1, t2, a, b
=============================================================================
