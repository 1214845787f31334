---------------------------- MODULE MCBrowserAuth ----------------------------
(* Model-checking instance of BrowserAuth. *)
EXTENDS BrowserAuth

CONSTANTS s1, s2, b1, b2

MCSessions == {s1, s2}
MCBrowsers == {b1, b2}
=============================================================================
