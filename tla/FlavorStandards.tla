--------------------------- MODULE FlavorStandards ---------------------------
(***************************************************************************)
(* What pkg/standards/standards.go promises of a flavor: the kernel        *)
(* parameters, the systemd units and whether a CDI specification has to be *)
(* there.  A parameter is a pair of a key and a value.  The security       *)
(* baseline, the package list and the memory budget are left out: they are *)
(* texts and numbers no script reads or writes.                            *)
(***************************************************************************)
EXTENDS Integers, Sequences

Universal == {<<"net.ipv4.tcp_congestion_control", "bbr">>,
  <<"net.core.default_qdisc", "fq">>, <<"vm.swappiness", "10">>,
  <<"kernel.sysrq", "0">>, <<"fs.protected_hardlinks", "1">>,
  <<"fs.protected_symlinks", "1">>}

TierParameters(f) ==
  CASE f.TierID = "kubernetes" -> {<<"net.bridge.bridge-nf-call-iptables", "1">>,
                                   <<"net.ipv4.ip_forward", "1">>}
    [] f.ID = "cloudnative-pg" -> {<<"vm.overcommit_memory", "2">>,
                                   <<"vm.overcommit_ratio", "80">>}
    [] f.TierID = "ai-infer" -> {<<"vm.zone_reclaim_mode", "0">>}
    [] f.ID = "appliance-game-server" -> {<<"net.core.rmem_max", "16777216">>,
                                          <<"net.core.wmem_max", "16777216">>}
    [] OTHER -> {}

TierUnits(f) ==
  CASE f.TierID = "containers" /\ f.ID # "podman-generic" -> {"docker.service"}
    [] f.TierID = "kubernetes" -> {"containerd.service", "kubelet.service"}
    [] f.ID = "k3s-server-generic" -> {"k3s.service"}
    [] f.TierID = "k3s" /\ f.ID # "k3s-server-generic" -> {"k3s-agent.service"}
    [] OTHER -> {}

\* Get of a flavor that the catalog has, with enrichTierStandard applied.
Standard(f) ==
  [KernelParameters |-> Universal \cup TierParameters(f),
   SystemdUnits |-> {"chrony.service", "qemu-guest-agent.service", "acpid.service"}
                    \cup TierUnits(f),
   CDISpecRequired |-> \/ f.TierID \in {"containers", "ai-infer"} /\ f.Vendor # "none"
                       \/ f.ID = "appliance-vision-nvr"]
=============================================================================
