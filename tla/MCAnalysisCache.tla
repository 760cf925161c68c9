-------------------------- MODULE MCAnalysisCache --------------------------
(* Small instances of AnalysisCache. *)
EXTENDS AnalysisCache, TLC

CONSTANTS a, b, p, q

\* Reports of the same bytes differ in length with their path.  Under p the
\* two keys do not fit into the writer's budget together.
MCBytesOf == <<a, p>> :> 2 @@ <<a, q>> :> 1 @@ <<b, p>> :> 2 @@ <<b, q>> :> 3
MCInputs == {<<a, p>>, <<a, q>>, <<b, p>>}
MCSamePath == {<<p, p>>, <<q, q>>}
=============================================================================
