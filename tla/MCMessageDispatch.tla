-------------------------- MODULE MCMessageDispatch --------------------------
(* MessageDispatch on small instances.                                       *)
EXTENDS MessageDispatch
=============================================================================
