---- MODULE MCFairQueue ----
(* The fair queue alone: seven packets of two flows, one of them not IPv4. *)
EXTENDS FairQueue
Flows == <<0, 1, 0, -1, 0, 0, 1>>
====
