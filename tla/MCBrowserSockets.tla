--------------------------- MODULE MCBrowserSockets ---------------------------
(* BrowserSockets with two runtimes, a stream of a few frames or a terminal. *)
EXTENDS BrowserSockets
=============================================================================
