-------------------------- MODULE MCEventPipeline --------------------------
(* Model-checking instances of EventPipeline.                              *)
EXTENDS EventPipeline

\* Two events of one aggregate.
OneAggregate == <<"a", "a">>
=============================================================================
