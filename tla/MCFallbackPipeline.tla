------------------------- MODULE MCFallbackPipeline -------------------------
(***************************************************************************)
(* Instances of FallbackPipeline for TLC.  The registry that hands the     *)
(* breakers out (BreakerRegistry) shares no state with the requests once   *)
(* they hold them, so MCSpec runs one or the other: its behaviours are     *)
(* those of FairSpec and those of RegistrySpec.                            *)
(***************************************************************************)
EXTENDS FallbackPipeline, BreakerRegistry, TLC

CONSTANTS p1, p2, p3

VARIABLE part

mcVars == <<vars, part, registryVars>>

\* A model with a fallback and a direct model on the fallback.
ChainsShared == {<<p1, p2>>, <<p2>>}

\* Two models with a fallback, one of which is not under providers.
ChainsMixed == {<<p1, p2>>, <<p2, p3>>}

MCInit ==
    /\ part \in {"pipeline", "registry"}
    /\ Init
    /\ part = "registry" => \A s \in Slots : req[s].chain = <<p1, p2>>
    /\ RegistryInit

MCNext ==
    \/ part = "pipeline" /\ Next /\ UNCHANGED <<part, registryVars>>
    \/ part = "registry" /\ RegistryNext /\ UNCHANGED <<part, vars>>

MCSpec == /\ MCInit
          /\ [][MCNext]_mcVars
          /\ \A s \in Slots : WF_mcVars(part = "pipeline" /\ RequestStep(s) /\ UNCHANGED <<part, registryVars>>)
=============================================================================
