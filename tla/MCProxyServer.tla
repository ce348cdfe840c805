----------------------------- MODULE MCProxyServer -----------------------------
(* ProxyServer for TLC. *)
EXTENDS ProxyServer
=============================================================================
