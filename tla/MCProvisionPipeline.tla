------------------------- MODULE MCProvisionPipeline -------------------------
(***************************************************************************)
(* The pipeline over the whole catalog.  Every flavor is put on a fresh    *)
(* host; a host that has one of the Repeated flavors may get another of    *)
(* them, or the same again, in a second run.                               *)
(***************************************************************************)
EXTENDS FlavorCompliance, FlavorCatalog

Repeated == {"ai-infer-intel", "docker-amd", "cloudnative-pg"}
MCNextFlavors == [f \in DOMAIN flavorIndex |-> IF f \in Repeated THEN Repeated ELSE {}]
MCMayMiss == {"20-kernel-sysctl.sh", "30-gpu-intel.sh"}

\* The database flavor alone, and the vision appliance put on one host twice.
OnlyDatabase == [f \in {"cloudnative-pg"} |-> flavorIndex[f]]
OnlyVision == [f \in {"appliance-vision-nvr"} |-> flavorIndex[f]]
DatabaseAgain == [f \in {"cloudnative-pg"} |-> {f}]
VisionAgain == [f \in {"appliance-vision-nvr"} |-> {f}]
NothingMissing == {}
=============================================================================
