------------------------------- MODULE MCServe -------------------------------
(* Serve with a couple of requests.                                        *)
EXTENDS Serve

BothKinds == {"service", "broker"}
=============================================================================
