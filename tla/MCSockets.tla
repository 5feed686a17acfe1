------------------------------- MODULE MCSockets -------------------------------
(***************************************************************************)
(* The two users of WebSockets, OBS and Uptime Kuma.  They share neither   *)
(* connections nor code, and a behaviour here is of the one or of the      *)
(* other.                                                                  *)
(***************************************************************************)
EXTENDS ObsSession, Kuma

VARIABLE service

MCInit == service \in {"obs", "kuma"} /\ Init /\ KumaInit

MCNext ==
  \/ service = "obs" /\ Next /\ UNCHANGED <<kumaVars, service>>
  \/ service = "kuma" /\ KumaNext /\ UNCHANGED <<vars, service>>

\* The one at rest has nothing to do: the fairness of its goroutines asks nothing of it.
MCSpec == MCInit /\ [][MCNext]_<<vars, kumaVars, service>> /\ Fairness /\ KumaFairness
================================================================================
