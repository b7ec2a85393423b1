---------------------------- MODULE FlavorCatalog ----------------------------
(***************************************************************************)
(* The catalog of pkg/flavors/flavors.go: 44 flavors in 7 tiers, the two   *)
(* maps init() builds from the list, and the look-ups over them.           *)
(*                                                                         *)
(* Display names, descriptions and the hardware stack are left out, and    *)
(* with them Search, which only matches those texts.  What the other       *)
(* packages read off an identifier, the GPU vendor it names, is the field  *)
(* Vendor.                                                                 *)
(***************************************************************************)
EXTENDS Integers, Sequences

LOCAL Foundation == <<"00-base-strip.sh", "05-hypervisor-agents.sh",
  "10-network-time.sh", "20-kernel-sysctl.sh", "25-baremetal-tuning.sh">>

\* A flavor: every list of provisioners starts with the same five scripts and
\* ends with the cleanup.
Flavor(id, tier, vendor, kernel, preheat, own) ==
  [ID |-> id, TierID |-> tier, Vendor |-> vendor, KernelProfile |-> kernel,
   PreheatProfile |-> preheat,
   Provisioners |-> Foundation \o own \o <<"99-cleanup.sh">>]

allTiers == <<"base", "containers", "kubernetes", "k3s", "cloudnative",
              "ai-infer", "homelab">>

LOCAL Base(id, vendor, kernel, own) == Flavor(id, "base", vendor, kernel, "", own)

BaseFlavors == <<
  Base("base-generic", "none", "generic", <<>>),
  Base("base-intel", "intel", "generic", <<"30-gpu-intel.sh">>),
  Base("base-amd", "amd", "generic", <<"31-gpu-amd-mesa.sh">>),
  Base("base-nvidia-legacy", "nvidia", "generic", <<"33-gpu-nvidia-legacy.sh">>),
  Base("base-nvidia-mainstream", "nvidia", "generic", <<"34-gpu-nvidia-mainstream.sh">>),
  Base("base-nvidia-modern", "nvidia", "generic", <<"37-gpu-nvidia-modern.sh">>),
  Base("base-nvidia-bleeding", "nvidia", "generic", <<"36-gpu-nvidia-bleeding.sh">>),
  Base("base-nvidia-datacenter", "nvidia", "baremetal", <<"35-gpu-nvidia-datacenter.sh">>)>>

LOCAL Docker(id, vendor, own) ==
  Flavor(id, "containers", vendor, "generic", "", own \o <<"40-docker-runtime.sh">>)

ContainerFlavors == <<
  Docker("docker-generic", "none", <<>>),
  Docker("docker-intel", "intel", <<"30-gpu-intel.sh">>),
  Docker("docker-amd", "amd", <<"32-gpu-amd-rocm.sh">>),
  Docker("docker-nvidia", "nvidia", <<"34-gpu-nvidia-mainstream.sh">>),
  Docker("docker-nvidia-modern", "nvidia", <<"37-gpu-nvidia-modern.sh">>),
  Docker("docker-nvidia-bleeding", "nvidia", <<"36-gpu-nvidia-bleeding.sh">>),
  Flavor("podman-generic", "containers", "none", "generic", "", <<"41-podman-runtime.sh">>)>>

LOCAL Node(id, vendor, preheat, own) == Flavor(id, "kubernetes", vendor, "k8s",
  preheat, own \o <<"50-k8s-runtime.sh", "55-k8s-precache.sh">>)

KubernetesFlavors == <<
  Node("k8s-node-generic", "none", "lean", <<>>),
  Node("k8s-node-cilium", "none", "cilium", <<>>),
  Node("k8s-node-calico", "none", "calico", <<>>),
  Node("k8s-node-flannel", "none", "flannel", <<>>),
  Node("k8s-node-intel", "intel", "cilium", <<"30-gpu-intel.sh">>),
  Node("k8s-node-amd", "amd", "cilium", <<"32-gpu-amd-rocm.sh">>),
  Node("k8s-node-nvidia", "nvidia", "cilium", <<"34-gpu-nvidia-mainstream.sh">>),
  Node("k8s-node-nvidia-modern", "nvidia", "cilium", <<"37-gpu-nvidia-modern.sh">>),
  Node("k8s-node-nvidia-bleeding", "nvidia", "cilium", <<"36-gpu-nvidia-bleeding.sh">>)>>

LOCAL Edge(id, vendor, own) ==
  Flavor(id, "k3s", vendor, "generic", "", own \o <<"52-k3s-runtime.sh">>)

K3sFlavors == <<
  Edge("k3s-agent-generic", "none", <<>>),
  Edge("k3s-agent-intel", "intel", <<"30-gpu-intel.sh">>),
  Edge("k3s-agent-amd", "amd", <<"32-gpu-amd-rocm.sh">>),
  Edge("k3s-agent-nvidia", "nvidia", <<"34-gpu-nvidia-mainstream.sh">>),
  Edge("k3s-server-generic", "none", <<>>)>>

LOCAL Native(id, kernel, own) == Flavor(id, "cloudnative", "none", kernel, "", own)

CloudNativeFlavors == <<
  Native("cloudnative-generic", "generic", <<"40-docker-runtime.sh", "61-cloudnative-immutable.sh">>),
  Native("cloudnative-k8s", "k8s",
    <<"50-k8s-runtime.sh", "55-k8s-precache.sh", "61-cloudnative-immutable.sh">>),
  Native("cloudnative-storage", "baremetal", <<"65-storage-cncf.sh">>),
  Native("cloudnative-pg", "ai-infer", <<"40-docker-runtime.sh", "70-cloudnative-pg.sh">>)>>

LOCAL Infer(id, vendor, own) == Flavor(id, "ai-infer", vendor, "ai-infer", "",
  own \o <<"40-docker-runtime.sh", "60-ai-infer-runtime.sh">>)

InferenceFlavors == <<
  Infer("ai-infer-generic", "none", <<>>),
  Infer("ai-infer-intel", "intel", <<"30-gpu-intel.sh">>),
  Infer("ai-infer-amd", "amd", <<"32-gpu-amd-rocm.sh">>),
  Infer("ai-infer-nvidia", "nvidia", <<"34-gpu-nvidia-mainstream.sh">>),
  Infer("ai-infer-nvidia-modern", "nvidia", <<"37-gpu-nvidia-modern.sh">>),
  Infer("ai-infer-nvidia-bleeding", "nvidia", <<"36-gpu-nvidia-bleeding.sh">>)>>

LOCAL Appliance(id, kernel, own) == Flavor(id, "homelab", "none", kernel, "", own)

HomelabFlavors == <<
  Appliance("appliance-vision-nvr", "generic", <<"40-docker-runtime.sh", "75-appliance-vision.sh">>),
  Appliance("appliance-gateway-dns", "generic", <<"76-appliance-gateway.sh">>),
  Appliance("appliance-media-server", "baremetal", <<"40-docker-runtime.sh", "77-appliance-media.sh">>),
  Appliance("appliance-ci-runner", "generic", <<"40-docker-runtime.sh", "78-appliance-runner.sh">>),
  Appliance("appliance-game-server", "generic", <<"40-docker-runtime.sh", "79-appliance-game.sh">>)>>

allFlavors == BaseFlavors \o ContainerFlavors \o KubernetesFlavors \o K3sFlavors
              \o CloudNativeFlavors \o InferenceFlavors \o HomelabFlavors

\* The maps of init().  A later entry with a used identifier replaces the
\* earlier one in flavorIndex; tierIndex keeps the order of the list.
flavorIndex ==
  LET last(id) == CHOOSE i \in DOMAIN allFlavors :
                    /\ allFlavors[i].ID = id
                    /\ \A j \in DOMAIN allFlavors : allFlavors[j].ID = id => j <= i
  IN  [id \in {allFlavors[i].ID : i \in DOMAIN allFlavors} |-> allFlavors[last(id)]]

tierIndex == [t \in {allFlavors[i].TierID : i \in DOMAIN allFlavors} |->
                SelectSeq(allFlavors, LAMBDA f : f.TierID = t)]

FilterByTier(t) == IF t \in DOMAIN tierIndex THEN tierIndex[t] ELSE <<>>
=============================================================================
