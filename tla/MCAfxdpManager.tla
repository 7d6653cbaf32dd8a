---------------------------- MODULE MCAfxdpManager ----------------------------
(* The AF_XDP manager process for TLC; the constants are in the mgr_*.cfg files. *)
EXTENDS AfxdpManager
===============================================================================
