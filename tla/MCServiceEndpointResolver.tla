---------------------- MODULE MCServiceEndpointResolver ----------------------
(* Instances of ServiceEndpointResolver for TLC.                           *)
EXTENDS ServiceEndpointResolver, TLC

\* Entries are not symmetric: IsNext chooses among them.
CallerSymmetry == Permutations(Caller)
=============================================================================
