---------------------------- MODULE MCWebServer ----------------------------
(* WebServer on small instances. *)
EXTENDS WebServer
=============================================================================
