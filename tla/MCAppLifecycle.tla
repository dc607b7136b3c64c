--------------------------- MODULE MCAppLifecycle ---------------------------
(* Instances of AppLifecycle for TLC. *)
EXTENDS AppLifecycle

=============================================================================
