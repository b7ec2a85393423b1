-------------------------- MODULE FlavorCompliance --------------------------
(***************************************************************************)
(* The hosts the pipeline leaves, held against what standards.go promises, *)
(* and the two ways to put a flavor on a host held against each other.     *)
(***************************************************************************)
EXTENDS ProvisionPipeline, FlavorStandards

\* What the proofs use of the catalog beyond the shape of its lists: every list
\* starts with the foundation, and a flavor's tier, vendor or name puts the
\* script of its workload on its list.
ASSUME ListsAssumption ==
  \A f \in Flavors :
    LET c == Catalog[f]
        s == ScriptsOf(c)
    IN  /\ {"00-base-strip.sh", "10-network-time.sh", "20-kernel-sysctl.sh",
            "25-baremetal-tuning.sh"} \subseteq s
        /\ c.TierID = "kubernetes" => "50-k8s-runtime.sh" \in s
        /\ c.TierID = "k3s" <=> "52-k3s-runtime.sh" \in s
        /\ c.TierID \in {"containers", "ai-infer"} =>
             /\ c.Vendor = "intel" => "30-gpu-intel.sh" \in s
             /\ c.Vendor = "amd" =>
                  "31-gpu-amd-mesa.sh" \in s \/ "32-gpu-amd-rocm.sh" \in s
        /\ c.ID = "cloudnative-pg" => "70-cloudnative-pg.sh" \in s
        /\ c.ID = "appliance-vision-nvr" =>
             "75-appliance-vision.sh" \in s /\ c.Vendor = "none"

\* The kernel and preheat profiles flavors.go gives its tiers, and the tiers of
\* the flavors builds.pkr.hcl treats by name.
Named == [base |-> {"base-nvidia-datacenter"},
          kubernetes |-> {"k8s-node-cilium", "k8s-node-calico", "k8s-node-flannel"},
          k3s |-> {"k3s-server-generic"},
          cloudnative |-> {"cloudnative-k8s", "cloudnative-storage", "cloudnative-pg"},
          homelab |-> {"appliance-vision-nvr", "appliance-media-server"}]
ASSUME TablesAssumption ==
  \A f \in Flavors :
    LET c == Catalog[f] IN
    /\ \A t \in DOMAIN Named : c.ID \in Named[t] => c.TierID = t
    /\ c.ID \in Named.kubernetes => c.Vendor = "none"
    /\ c.KernelProfile =
         CASE c.TierID = "kubernetes" \/ c.ID = "cloudnative-k8s" -> "k8s"
           [] c.TierID = "ai-infer" \/ c.ID = "cloudnative-pg" -> "ai-infer"
           [] c.ID \in {"base-nvidia-datacenter", "cloudnative-storage",
                        "appliance-media-server"} -> "baremetal"
           [] OTHER -> "generic"
    /\ c.PreheatProfile =
         IF c.TierID # "kubernetes" THEN ""
         ELSE CASE c.Vendor # "none" \/ c.ID = "k8s-node-cilium" -> "cilium"
                [] c.ID = "k8s-node-calico" -> "calico"
                [] c.ID = "k8s-node-flannel" -> "flannel"
                [] OTHER -> "lean"
-----------------------------------------------------------------------------
\* What the drop-ins set of the parameters the standards name, or set twice.
DropinLines == [
  pg |-> {<<"vm.overcommit_memory", "2">>, <<"vm.overcommit_ratio", "80">>},
  ai |-> {<<"vm.overcommit_memory", "1">>},
  game |-> {<<"net.core.rmem_max", "16777216">>, <<"net.core.wmem_max", "16777216">>},
  gateway |-> {<<"net.ipv4.ip_forward", "1">>},
  lusoris |-> {<<"net.bridge.bridge-nf-call-iptables", "1">>, <<"net.ipv4.ip_forward", "1">>,
    <<"net.core.default_qdisc", "fq">>, <<"net.ipv4.tcp_congestion_control", "bbr">>,
    <<"net.core.rmem_max", "16777216">>, <<"net.core.wmem_max", "16777216">>,
    <<"vm.swappiness", "0">>, <<"vm.overcommit_memory", "1">>,
    <<"fs.protected_hardlinks", "1">>, <<"fs.protected_symlinks", "1">>}]

\* systemd-sysctl reads the drop-ins in the order of their names.
FileOrder == <<
  <<"70-cloudnative-pg.conf", DropinLines.pg>>, <<"95-ai-memory.conf", DropinLines.ai>>,
  <<"99-game-server.conf", DropinLines.game>>, <<"99-gateway.conf", DropinLines.gateway>>,
  <<"99-lusoris.conf", DropinLines.lusoris>>, <<"99-media-streaming.conf", {}>>>>

\* What Linux and Ubuntu start with, of the parameters that a run of some flavor
\* leaves to them or would leave to them without a drop-in of its own.
Default(key) ==
  CASE key = "vm.zone_reclaim_mode" -> "0"
    [] key = "kernel.sysrq" -> "176"
    [] key = "vm.swappiness" -> "60"
    [] key = "vm.overcommit_memory" -> "0"
    [] key = "vm.overcommit_ratio" -> "50"
    [] OTHER -> "other"

\* The value a parameter has after the boot: that of the last file that sets it,
\* or the one it has without any.
Effective(key) ==
  LET setting == {i \in DOMAIN FileOrder : /\ FileOrder[i][1] \in conf.dropins
                                           /\ \E l \in FileOrder[i][2] : l[1] = key}
  IN  IF setting = {} THEN Default(key)
      ELSE LET last == CHOOSE i \in setting : \A j \in setting : j <= i
           IN  (CHOOSE l \in FileOrder[last][2] : l[1] = key)[2]

Whole == Settled /\ run.absent = {}
Target == Catalog[run.flavor]

\* A run that completes leaves in force every kernel parameter standards.Get
\* promises, as standards.go:36 and flavor-hardening-standards.md:62 have it.
\* It does not: see Overruled.
StandardParameters ==
  Whole => \A p \in Standard(Target).KernelParameters : Effective(p[1]) = p[2]

\* The promises StandardParameters finds broken: 99-lusoris.conf sets the
\* swappiness to 0 and, read after 70-cloudnative-pg.conf, the overcommit mode
\* back to 1; nothing sets kernel.sysrq.
Overruled == {<<"vm.swappiness", "10">>, <<"kernel.sysrq", "0">>,
              <<"vm.overcommit_memory", "2">>}

\* A run that completes leaves every other promised parameter in force,
\* whatever drop-ins of earlier flavors lie on the host and in whatever order
\* they are read.
ParametersKept ==
  Whole => \A p \in Standard(Target).KernelParameters \ Overruled :
             Effective(p[1]) = p[2]

\* A run that completes leaves the systemd units and the CDI specification
\* standards.Get promises, but for what is installed at best effort, and but
\* for a k3s flavor applied by a caller whose K3S_ROLE is not the flavor's:
\* GenerateApplyScript leaves that variable alone.
StandardMet ==
  Whole =>
    /\ \A u \in Standard(Target).SystemdUnits \ {"acpid.service", "docker.service"} :
         \/ u \in load.units
         \/ /\ u \in {"k3s.service", "k3s-agent.service"}
            /\ run.env.role = "server" <=> Target.ID # "k3s-server-generic"
    /\ Standard(Target).CDISpecRequired /\ Target.Vendor # "nvidia" =>
         load.cdi \cap (IF Target.Vendor = "none" THEN {"coral"} ELSE {Target.Vendor}) # {}

\* The first flavor of a host, by Packer or by a caller who leaves K3S_ROLE
\* alone: nothing on the host comes from elsewhere.
First == past.runs = 1 /\ boot.grub /\ (run.way = "apply" => run.env.role = "agent")

\* The environment the flavor would have had the other way.
OtherWay == IF run.way = "packer" THEN ApplyEnv(Target, "agent") ELSE BuildEnv(Target)

\* A flavor built by Packer and the same flavor applied get the same kernel
\* command line, CPU generation, images and k3s unit, except where
\* builds.pkr.hcl and GenerateApplyScript disagree: the kernel profile of the
\* k3s tier and of base-nvidia-datacenter, the CPU generation of the Intel and
\* AMD flavors and of the vision appliance, the preheat of the GPU nodes, and
\* the unit of the k3s server, which comes out an agent without an image.  A
\* direct boot departs from the host's own command line for the inference
\* profile: it asks for huge pages on madvise instead of always, and for NUMA.
SameEitherWay ==
  Whole /\ First =>
    LET f == Target IN
    /\ boot.profile = CmdlineProfile(OtherWay.kernel)
         <=> f.TierID # "k3s" /\ f.ID # "base-nvidia-datacenter"
    /\ boot.iommu = <<OtherWay.gen>> /\ conf.microcode = Microcode(OtherWay.gen)
         <=> f.Vendor \notin {"intel", "amd"} /\ f.ID # "appliance-vision-nvr"
    /\ load.images \cup Images(run.env, f.Vendor) = Images(OtherWay, f.Vendor)
         <=> ~(f.TierID = "kubernetes" /\ f.Vendor # "none")
    /\ f.TierID = "k3s" =>
         (K3sUnit(OtherWay.role) \in load.units <=> f.ID # "k3s-server-generic")
    /\ BootTuning(f) \ Tuning(boot.profile)
         = IF f.KernelProfile = "ai-infer"
           THEN {<<"transparent_hugepage", "madvise">>, <<"numa", "on">>} ELSE {}
=============================================================================
