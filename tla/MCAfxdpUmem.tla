---- MODULE MCAfxdpUmem ----
(* Small instances of the AF_XDP frame pool; the sizes are in the cfg files. *)
EXTENDS AfxdpUmemOwner
====
