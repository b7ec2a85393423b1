------------------------ MODULE FlavorCompliance_proofs ------------------------
(***************************************************************************)
(* Proofs that the hosts of the pipeline keep what standards.go promises,  *)
(* and that the two ways to put a flavor on a host differ where the build  *)
(* templates and the generated script differ and nowhere else.  They hold for every *)
(* catalog of the assumed shape, and rest on what RunsConverge rests on.   *)
(***************************************************************************)
EXTENDS FlavorCompliance, ProvisionPipeline_proofs
-----------------------------------------------------------------------------
(* The value of a kernel parameter after the boot.                         *)

\* The last file that is there and sets a parameter decides on it.
LEMMA LastFileDecides ==
  ASSUME NEW n \in 1..6, FileOrder[n][1] \in conf.dropins,
         NEW l \in FileOrder[n][2],
         \A m \in FileOrder[n][2] : m[1] = l[1] => m = l,
         \A j \in 1..6 : j > n => \A m \in FileOrder[j][2] : m[1] # l[1]
  PROVE  Effective(l[1]) = l[2]
<1>0. DOMAIN FileOrder = 1..6  BY DEF FileOrder
<1> DEFINE setting == {i \in DOMAIN FileOrder :
                         /\ FileOrder[i][1] \in conf.dropins
                         /\ \E m \in FileOrder[i][2] : m[1] = l[1]}
           last == CHOOSE i \in setting : \A j \in setting : j <= i
<1>1. n \in setting  BY <1>0
<1>2. \A j \in setting : j <= n
  <2>1. SUFFICES ASSUME NEW j \in setting, j > n PROVE FALSE
    BY <1>0
  <2>2. j \in 1..6 /\ \E m \in FileOrder[j][2] : m[1] = l[1]  BY <1>0, <2>1
  <2>3. QED  BY <2>1, <2>2
<1>3. setting \subseteq 1..6  BY <1>0
<1>4. last = n
  <2>1. last \in setting /\ \A j \in setting : j <= last  BY <1>1, <1>2
  <2>2. QED  BY <1>1, <1>2, <1>3, <2>1
<1>5. (CHOOSE m \in FileOrder[n][2] : m[1] = l[1]) = l  OBVIOUS
<1>6. Effective(l[1]) = (CHOOSE m \in FileOrder[last][2] : m[1] = l[1])[2]
  BY <1>1 DEF Effective
<1>7. QED  BY <1>4, <1>5, <1>6

\* 99-lusoris.conf has the last word on every parameter it sets.
LEMMA LusorisDecides ==
  ASSUME "99-lusoris.conf" \in conf.dropins, NEW l \in DropinLines.lusoris
  PROVE  Effective(l[1]) = l[2]
<1>1. FileOrder[5] = <<"99-lusoris.conf", DropinLines.lusoris>>  BY DEF FileOrder
<1>2. FileOrder[6] = <<"99-media-streaming.conf", {}>>  BY DEF FileOrder
<1>3. FileOrder[5][1] = "99-lusoris.conf" /\ FileOrder[5][2] = DropinLines.lusoris
  BY <1>1
<1>4. \A m \in DropinLines.lusoris : m[1] = l[1] => m = l  BY DEF DropinLines
<1>5. \A j \in 1..6 : j > 5 => \A m \in FileOrder[j][2] : m[1] # l[1]
  <2>1. \A j \in 1..6 : j > 5 => j = 6  OBVIOUS
  <2>2. FileOrder[6][2] = {}  BY <1>2
  <2>3. QED  BY <2>1, <2>2
<1>6. QED  BY <1>3, <1>4, <1>5, LastFileDecides

\* The overcommit ratio is set by the drop-in of cloudnative-pg alone.
LEMMA PostgresDecides ==
  ASSUME "70-cloudnative-pg.conf" \in conf.dropins
  PROVE  Effective("vm.overcommit_ratio") = "80"
<1> DEFINE l == <<"vm.overcommit_ratio", "80">>
<1>1. FileOrder[1] = <<"70-cloudnative-pg.conf", DropinLines.pg>>  BY DEF FileOrder
<1>2. FileOrder[1][1] = "70-cloudnative-pg.conf" /\ FileOrder[1][2] = DropinLines.pg
  BY <1>1
<1>3. l \in DropinLines.pg /\ \A m \in DropinLines.pg : m[1] = l[1] => m = l
  BY DEF DropinLines
<1>4. \A j \in 1..6 : j > 1 => \A m \in FileOrder[j][2] : m[1] # l[1]
  <2>1. SUFFICES ASSUME NEW j \in 2..6 PROVE \A m \in FileOrder[j][2] : m[1] # l[1]
    OBVIOUS
  <2>2. j \in {2, 3, 4, 5, 6}  OBVIOUS
  <2>3. FileOrder[j][2] \in {DropinLines.ai, DropinLines.game, DropinLines.gateway,
                             DropinLines.lusoris, {}}
    BY <2>2 DEF FileOrder
  <2>4. QED  BY <2>3 DEF DropinLines
<1>5. Effective(l[1]) = l[2]
  <2> HIDE DEF l
  <2>1. 1 \in 1..6  OBVIOUS
  <2>2. QED  BY <1>2, <1>3, <1>4, <2>1, LastFileDecides
<1>6. QED  BY <1>5

\* What no drop-in sets keeps the value Linux gives it.
LEMMA NoFileDecides ==
  Effective("vm.zone_reclaim_mode") = "0"
<1>0. DOMAIN FileOrder = 1..6  BY DEF FileOrder
<1>1. ASSUME NEW i \in 1..6 PROVE \A l \in FileOrder[i][2] : l[1] # "vm.zone_reclaim_mode"
  <2>1. i \in {1, 2, 3, 4, 5, 6}  OBVIOUS
  <2>2. FileOrder[i][2] \in {DropinLines.pg, DropinLines.ai, DropinLines.game,
                             DropinLines.gateway, DropinLines.lusoris, {}}
    BY <2>1 DEF FileOrder
  <2>3. QED  BY <2>2 DEF DropinLines
<1>2. {i \in DOMAIN FileOrder : /\ FileOrder[i][1] \in conf.dropins
                                /\ \E l \in FileOrder[i][2] : l[1] = "vm.zone_reclaim_mode"} = {}
  BY <1>0, <1>1
<1>3. QED  BY <1>2 DEF Effective, Default
-----------------------------------------------------------------------------
(* The promises of the standards.                                          *)

\* A whole run leaves what the scripts of its flavor stand for, of each kind
\* in its place.
LEMMA WholeLeaves ==
  ASSUME PipelineTypeOK, Converges, Whole
  PROVE  /\ run.flavor \in Flavors
         /\ \A p \in Certain : p[1] \in ScriptsOf(Target) => p[2] \in Items
         /\ "52-k3s-runtime.sh" \in ScriptsOf(Target) => K3sUnit(run.env.role) \in Items
         /\ Items \cap Dropins = conf.dropins
         /\ Items \cap Units = load.units
         /\ Items \cap {"intel", "amd", "nvidia", "coral"} = load.cdi
<1>1. run.flavor \in Flavors  BY DEF PipelineTypeOK, Whole, Settled
<1>2. /\ conf.dropins \subseteq Dropins
      /\ conf.apt \subseteq {"20auto-upgrades", "99-immutable-prevent-drift"}
      /\ load.units \subseteq Units
      /\ load.cdi \subseteq {"intel", "amd", "nvidia", "coral"}
      /\ load.runtimes \subseteq {"levelzero", "rocm"}
  BY DEF PipelineTypeOK, ConfType, LoadType
<1>3. ASSUME NEW s \in ScriptsOf(Target), s # "99-cleanup.sh" PROVE s \in Ran
  BY <1>3 DEF Ran, Whole, Target
<1>4. LeftBy(Certain, Ran, run.env) \subseteq Items
  BY DEF Converges, Whole
<1>5. ASSUME NEW p \in Certain, p[1] \in ScriptsOf(Target) PROVE p[2] \in Items
  <2>1. p[1] # "99-cleanup.sh"  BY DEF Certain
  <2>2. p[1] \in Ran  BY <1>3, <1>5, <2>1
  <2>3. p[2] \in LeftBy(Certain, Ran, run.env)  BY <2>2 DEF LeftBy
  <2>4. QED  BY <1>4, <2>3
<1>6. ASSUME "52-k3s-runtime.sh" \in ScriptsOf(Target)
      PROVE  K3sUnit(run.env.role) \in Items
  <2>1. "52-k3s-runtime.sh" \in Ran  BY <1>3, <1>6
  <2>2. QED  BY <1>4, <2>1 DEF LeftBy
<1>7. Items \cap Dropins = conf.dropins  BY <1>2 DEF Items, Dropins, Units
<1>8. Items \cap Units = load.units  BY <1>2 DEF Items, Dropins, Units
<1>9. Items \cap {"intel", "amd", "nvidia", "coral"} = load.cdi
  BY <1>2 DEF Items, Dropins, Units
<1>10. QED  BY <1>1, <1>5, <1>6, <1>7, <1>8, <1>9

\* Which parameters a flavor can be promised, but for the overruled ones.
LEMMA PromisedParameters ==
  ASSUME NEW f, NEW p \in Standard(f).KernelParameters, p \notin Overruled
  PROVE  \/ p \in DropinLines.lusoris
         \/ p = <<"vm.zone_reclaim_mode", "0">>
         \/ p = <<"vm.overcommit_ratio", "80">> /\ f.ID = "cloudnative-pg"
<1>1. p \in Universal \cup TierParameters(f)  BY DEF Standard
<1>2. CASE p \in Universal
  BY <1>2 DEF Universal, DropinLines, Overruled
<1>3. CASE p \in TierParameters(f)
  BY <1>3 DEF TierParameters, DropinLines, Overruled
<1>4. QED  BY <1>1, <1>2, <1>3

LEMMA ParametersAtEnd == PipelineTypeOK /\ Converges => ParametersKept
<1> SUFFICES ASSUME PipelineTypeOK, Converges, Whole,
                    NEW p \in Standard(Target).KernelParameters \ Overruled
             PROVE  Effective(p[1]) = p[2]
  BY DEF ParametersKept
<1>1. /\ "20-kernel-sysctl.sh" \in ScriptsOf(Target)
      /\ Target.ID = "cloudnative-pg" => "70-cloudnative-pg.sh" \in ScriptsOf(Target)
  BY WholeLeaves, ListsAssumption DEF Target
<1>2. "99-lusoris.conf" \in conf.dropins
  <2>1. <<"20-kernel-sysctl.sh", "99-lusoris.conf">> \in Certain  BY DEF Certain
  <2>2. "99-lusoris.conf" \in Items  BY <1>1, <2>1, WholeLeaves
  <2>3. "99-lusoris.conf" \in Dropins  BY DEF Dropins
  <2>4. QED  BY <2>2, <2>3, WholeLeaves
<1>3. CASE p \in DropinLines.lusoris  BY <1>2, <1>3, LusorisDecides
<1>4. CASE p = <<"vm.zone_reclaim_mode", "0">>  BY <1>4, NoFileDecides
<1>5. CASE p = <<"vm.overcommit_ratio", "80">> /\ Target.ID = "cloudnative-pg"
  <2>1. <<"70-cloudnative-pg.sh", "70-cloudnative-pg.conf">> \in Certain  BY DEF Certain
  <2>2. "70-cloudnative-pg.conf" \in Items  BY <1>1, <1>5, <2>1, WholeLeaves
  <2>3. "70-cloudnative-pg.conf" \in Dropins  BY DEF Dropins
  <2>4. "70-cloudnative-pg.conf" \in conf.dropins  BY <2>2, <2>3, WholeLeaves
  <2>5. QED  BY <1>5, <2>4, PostgresDecides
<1>6. QED  BY <1>3, <1>4, <1>5, PromisedParameters

\* A run that completes leaves the promised kernel parameters in force, by a
\* drop-in or by the kernel's default, whatever drop-ins earlier flavors left and
\* whatever runs failed before; the three overruled ones are not claimed.
THEOREM ParametersInForce == Spec => []ParametersKept
  BY RunsConverge, PipelineTypeCorrect, ParametersAtEnd, PTL

LEMMA StandardAtEnd == PipelineTypeOK /\ Converges => StandardMet
<1> SUFFICES ASSUME PipelineTypeOK, Converges, Whole
             PROVE  /\ \A u \in Standard(Target).SystemdUnits
                                \ {"acpid.service", "docker.service"} :
                         \/ u \in load.units
                         \/ /\ u \in {"k3s.service", "k3s-agent.service"}
                            /\ run.env.role = "server" <=> Target.ID # "k3s-server-generic"
                    /\ Standard(Target).CDISpecRequired /\ Target.Vendor # "nvidia" =>
                         load.cdi \cap (IF Target.Vendor = "none" THEN {"coral"}
                                        ELSE {Target.Vendor}) # {}
  BY DEF StandardMet
<1> DEFINE c == Target
           s == ScriptsOf(Target)
<1>1. /\ {"00-base-strip.sh", "10-network-time.sh"} \subseteq s
      /\ c.TierID = "kubernetes" => "50-k8s-runtime.sh" \in s
      /\ c.TierID = "k3s" => "52-k3s-runtime.sh" \in s
      /\ c.TierID \in {"containers", "ai-infer"} =>
           /\ c.Vendor = "intel" => "30-gpu-intel.sh" \in s
           /\ c.Vendor = "amd" => "31-gpu-amd-mesa.sh" \in s \/ "32-gpu-amd-rocm.sh" \in s
      /\ c.ID = "appliance-vision-nvr" =>
           "75-appliance-vision.sh" \in s /\ c.Vendor = "none"
  BY WholeLeaves, ListsAssumption DEF Target
<1>2. c.ID = "k3s-server-generic" => c.TierID = "k3s"
  <2>1. "k3s" \in DOMAIN Named /\ Named["k3s"] = {"k3s-server-generic"}  BY DEF Named
  <2>2. QED  BY <2>1, WholeLeaves, TablesAssumption DEF Target
<1>3. c.Vendor \in Vendors  BY WholeLeaves, CatalogAssumption DEF Target
<1> HIDE DEF c, s
<1>4. ASSUME NEW p \in Certain, p[1] \in s PROVE p[2] \in Items
  BY <1>4, WholeLeaves DEF s
<1>5. ASSUME NEW u \in Units, u \in Items PROVE u \in load.units
  BY <1>5, WholeLeaves
<1>6. ASSUME NEW u \in Standard(Target).SystemdUnits \ {"acpid.service", "docker.service"}
      PROVE  \/ u \in load.units
             \/ /\ u \in {"k3s.service", "k3s-agent.service"}
                /\ run.env.role = "server" <=> Target.ID # "k3s-server-generic"
  <2>1. \/ u \in {"chrony.service", "qemu-guest-agent.service"}
        \/ u \in {"containerd.service", "kubelet.service"} /\ c.TierID = "kubernetes"
        \/ u = "k3s.service" /\ c.ID = "k3s-server-generic"
        \/ u = "k3s-agent.service" /\ c.TierID = "k3s" /\ c.ID # "k3s-server-generic"
    BY DEF Standard, TierUnits, c
  <2>2. CASE u \in {"chrony.service", "qemu-guest-agent.service"}
    <3>1. <<"00-base-strip.sh", "qemu-guest-agent.service">> \in Certain
          /\ <<"10-network-time.sh", "chrony.service">> \in Certain
      BY DEF Certain
    <3>2. u \in Items  BY <1>1, <1>4, <2>2, <3>1
    <3>3. u \in Units  BY <2>2 DEF Units
    <3>4. QED  BY <1>5, <3>2, <3>3
  <2>3. CASE u \in {"containerd.service", "kubelet.service"} /\ c.TierID = "kubernetes"
    <3>1. <<"50-k8s-runtime.sh", "containerd.service">> \in Certain
          /\ <<"50-k8s-runtime.sh", "kubelet.service">> \in Certain
      BY DEF Certain
    <3>2. u \in Items  BY <1>1, <1>4, <2>3, <3>1
    <3>3. u \in Units  BY <2>3 DEF Units
    <3>4. QED  BY <1>5, <3>2, <3>3
  <2>4. CASE /\ u \in {"k3s.service", "k3s-agent.service"} /\ c.TierID = "k3s"
             /\ u = "k3s.service" <=> c.ID = "k3s-server-generic"
    <3>1. K3sUnit(run.env.role) \in Items
      BY <1>1, <2>4, WholeLeaves DEF s
    <3>2. K3sUnit(run.env.role) \in load.units
      BY <1>5, <3>1 DEF K3sUnit, Units
    <3>3. CASE run.env.role = "server"
      BY <2>4, <3>2, <3>3 DEF K3sUnit, c
    <3>4. CASE run.env.role # "server"
      BY <2>4, <3>2, <3>4 DEF K3sUnit, c
    <3>5. QED  BY <3>3, <3>4
  <2>5. QED  BY <1>2, <2>1, <2>2, <2>3, <2>4
<1>7. ASSUME Standard(Target).CDISpecRequired, c.Vendor # "nvidia"
      PROVE  load.cdi \cap (IF c.Vendor = "none" THEN {"coral"} ELSE {c.Vendor}) # {}
  <2>1. \/ c.TierID \in {"containers", "ai-infer"} /\ c.Vendor # "none"
        \/ c.ID = "appliance-vision-nvr"
    BY <1>7 DEF Standard, c
  <2>2. ASSUME NEW d \in {"intel", "amd", "coral"}, d \in Items PROVE d \in load.cdi
    BY <2>2, WholeLeaves
  <2>3. CASE c.ID = "appliance-vision-nvr"
    <3>1. <<"75-appliance-vision.sh", "coral">> \in Certain  BY DEF Certain
    <3>2. "coral" \in Items  BY <1>1, <1>4, <2>3, <3>1
    <3>3. QED  BY <1>1, <2>2, <2>3, <3>2
  <2>4. CASE c.TierID \in {"containers", "ai-infer"} /\ c.Vendor = "intel"
    <3>1. <<"30-gpu-intel.sh", "intel">> \in Certain  BY DEF Certain
    <3>2. "intel" \in Items  BY <1>1, <1>4, <2>4, <3>1
    <3>3. QED  BY <2>2, <2>4, <3>2
  <2>5. CASE c.TierID \in {"containers", "ai-infer"} /\ c.Vendor = "amd"
    <3>1. <<"31-gpu-amd-mesa.sh", "amd">> \in Certain /\ <<"32-gpu-amd-rocm.sh", "amd">> \in Certain
      BY DEF Certain
    <3>2. "amd" \in Items  BY <1>1, <1>4, <2>5, <3>1
    <3>3. QED  BY <2>2, <2>5, <3>2
  <2>6. QED  BY <1>3, <1>7, <2>1, <2>3, <2>4, <2>5 DEF Vendors
<1>8. QED  BY <1>6, <1>7 DEF c

\* A run that completes leaves the promised units and CDI specification; the
\* unit of the k3s role fails to be the promised one exactly when the caller's
\* K3S_ROLE is not the flavor's.
THEOREM StandardsAreMet == Spec => []StandardMet
  BY RunsConverge, PipelineTypeCorrect, StandardAtEnd, PTL
-----------------------------------------------------------------------------
(* The two ways.                                                           *)

\* SameEitherWay speaks of the first run on a host.  Its inductive form says
\* that nothing was put on the host before that run, which environment the run
\* was given, and that the microcode is that of this run alone.
FirstInv ==
  /\ past.runs = 0 => /\ run.phase = "idle" /\ past.applied = {}
                      /\ conf.microcode = {}
  /\ past.runs = 1 =>
       /\ run.phase # "idle"
       /\ past.applied = {<<run.flavor, run.env>>}
       /\ \/ run.way = "packer" /\ run.env = BuildEnv(Target)
          \/ run.way = "apply" /\ run.env = ApplyEnv(Target, run.env.role)
       /\ conf.microcode = IF Taken("25-baremetal-tuning.sh", 1)
                           THEN Microcode(run.env.gen) ELSE {}

LEMMA InitFirst == Init => FirstInv
  BY DEF Init, Idle, FirstInv

\* One step installs microcode.
LEMMA StepMicrocode ==
  ASSUME conf \in ConfType, Step, ~InstallMicrocode
  PROVE  conf'.microcode = conf.microcode
<1>1. CASE HardenSsh \/ Sysctl \/ UnattendedUpgrades \/ InferenceMemory
  BY <1>1 DEF HardenSsh, Sysctl, UnattendedUpgrades, InferenceMemory, ConfType
<1>2. CASE ImmutableTmp \/ PreventDrift \/ RunnerTmp \/ RefusePasswords
  BY <1>2 DEF ImmutableTmp, PreventDrift, RunnerTmp, RefusePasswords, MountTmp, ConfType
<1>3. CASE DropinSteps
  BY <1>3 DEF DropinSteps, PostgresSysctl, GatewaySysctl, MediaSysctl, GameSysctl,
     WriteDropin, ConfType
<1>4. CASE /\ ~HardenSsh /\ ~Sysctl /\ ~UnattendedUpgrades
           /\ ~InferenceMemory /\ ~ImmutableTmp
           /\ ~PreventDrift /\ ~RunnerTmp /\ ~DropinSteps /\ ~RefusePasswords
  BY <1>4, StepConf
<1>5. QED  BY <1>1, <1>2, <1>3, <1>4

\* The tuning of a run installs the microcode of its CPU generation.
LEMMA StepFirst ==
  ASSUME PipelineTypeOK, FirstInv, Step
  PROVE  FirstInv'
<1>0. /\ run \in RunType /\ conf \in ConfType /\ boot \in BootType
      /\ run.phase = "running" /\ run'.phase = run.phase /\ past' = past
      /\ run'.flavor = run.flavor
  BY RunTyped DEF PipelineTypeOK
<1>1. run'.env = run.env /\ run'.way = run.way
  BY <1>0, StepWalks DEF GoOn, EndScript, RunType
<1>2. past'.runs # 0  BY <1>0 DEF FirstInv
<1>3. Target' = Target  BY <1>0 DEF Target
<1>5. ASSUME past.runs = 1
      PROVE  conf'.microcode = IF Taken("25-baremetal-tuning.sh", 1)'
                               THEN Microcode(run.env.gen) ELSE {}
  <2>1. conf.microcode \in {{}, Microcode(run.env.gen)}
    BY <1>5 DEF FirstInv
  <2>2. CASE InstallMicrocode
    <3>1. Current = "25-baremetal-tuning.sh" /\ run.step = 1 /\ GoOn
      BY <2>2 DEF InstallMicrocode, At
    <3>2. conf'.microcode = conf.microcode \cup Microcode(run.env.gen)
      BY <1>0, <2>2 DEF InstallMicrocode, ConfType
    <3>3. Taken("25-baremetal-tuning.sh", 1)'
      <4>1. run'.at = run.at /\ run'.step = 2
        <5>1. run' = [run EXCEPT !.step = 2]  BY <3>1 DEF GoOn
        <5>2. QED  BY <1>0, <5>1 DEF RunType
      <4>2. "25-baremetal-tuning.sh" \notin run.absent  BY <3>1, StepWalks
      <4>3. /\ Provisioners' = Provisioners /\ run'.absent = run.absent
            /\ run.at \in 1..Len(Provisioners)
        BY StepMoves
      <4>4. Provisioners'[run.at] = "25-baremetal-tuning.sh" /\ run.at \in 1..Len(Provisioners')
        BY <3>1, <4>3 DEF Current
      <4>5. QED  BY <4>1, <4>2, <4>3, <4>4 DEF Taken
    <3>4. QED  BY <2>1, <3>2, <3>3
  <2>3. CASE ~InstallMicrocode
    <3>1. conf'.microcode = conf.microcode  BY <1>0, <2>3, StepMicrocode
    <3>2. CASE Current = "25-baremetal-tuning.sh"
      <4>1. AddIommu  BY <2>3, <3>2, StepsOfScript
      <4>2. run.step = 2  BY <4>1 DEF AddIommu, At
      <4>3. Taken("25-baremetal-tuning.sh", 1)
        <5>1. run.at \in 1..Len(Provisioners) /\ Provisioners[run.at] = "25-baremetal-tuning.sh"
          BY <3>2, StepMoves DEF Current
        <5>2. "25-baremetal-tuning.sh" \notin run.absent  BY <3>2, StepWalks
        <5>3. QED  BY <4>2, <5>1, <5>2 DEF Taken
      <4>4. Taken("25-baremetal-tuning.sh", 1)'  BY <4>3, StepKeepsTaken
      <4>5. QED  BY <1>5, <3>1, <4>3, <4>4 DEF FirstInv
    <3>3. CASE Current # "25-baremetal-tuning.sh"
      <4>1. Taken("25-baremetal-tuning.sh", 1)' <=> Taken("25-baremetal-tuning.sh", 1)
        BY <3>3, StepKeepsNotTaken
      <4>2. QED  BY <1>5, <3>1, <4>1 DEF FirstInv
    <3>4. QED  BY <3>2, <3>3
  <2>4. QED  BY <2>2, <2>3
<1>6. QED  BY <1>0, <1>1, <1>2, <1>3, <1>5 DEF FirstInv

LEMMA NextFirst == PipelineTypeOK /\ FirstInv /\ [Next]_vars => FirstInv'
<1> SUFFICES ASSUME PipelineTypeOK, FirstInv, [Next]_vars PROVE FirstInv'
  OBVIOUS
<1>0. run \in RunType /\ past \in PastType  BY DEF PipelineTypeOK
<1>1. CASE Build \/ Apply
  <2>1. PICK way, f, env, skip, absent :
          /\ Begin(way, f, env, skip, absent)
          /\ \/ way = "packer" /\ env = BuildEnv(Catalog[f])
             \/ \E role \in {"agent", "server"} :
                  way = "apply" /\ env = ApplyEnv(Catalog[f], role)
    BY <1>1 DEF Build, Apply
  <2>2. /\ run'.at = 1 /\ run'.step = 1 /\ run'.phase = "running" /\ run'.flavor = f
        /\ run'.env = env /\ run'.way = way
    BY <2>1 DEF Begin
  <2>3. /\ past.runs \in Nat /\ past'.runs = past.runs + 1
        /\ past'.applied = past.applied \cup {<<f, env>>}
    BY <1>0, <2>1, BoundsAssumption DEF Begin, PastType
  <2>4. conf' = conf  BY <2>1 DEF Begin, host
  <2>5. ~Taken("25-baremetal-tuning.sh", 1)'  BY <2>2 DEF Taken
  <2>6. Target' = Catalog[f]  BY <2>2 DEF Target
  <2>7. \/ run'.way = "packer" /\ run'.env = BuildEnv(Target')
        \/ run'.way = "apply" /\ run'.env = ApplyEnv(Target', run'.env.role)
    <3>1. CASE way = "packer" /\ env = BuildEnv(Catalog[f])
      BY <2>2, <2>6, <3>1
    <3>2. ASSUME NEW role, way = "apply", env = ApplyEnv(Catalog[f], role)
          PROVE  run'.way = "apply" /\ run'.env = ApplyEnv(Target', run'.env.role)
      <4>1. env.role = role  BY <3>2 DEF ApplyEnv
      <4>2. run'.env.role = role  BY <2>2, <4>1
      <4>3. run'.env = ApplyEnv(Target', role)  BY <2>2, <2>6, <3>2
      <4>4. QED  BY <2>2, <3>2, <4>2, <4>3
    <3>3. QED  BY <2>1, <3>1, <3>2
  <2>8. CASE past.runs = 0
    <3>1. past.applied = {} /\ conf.microcode = {}  BY <2>8 DEF FirstInv
    <3>2. past'.applied = {<<run'.flavor, run'.env>>}  BY <2>2, <2>3, <3>1
    <3>3. conf'.microcode = {} /\ past'.runs # 0  BY <2>3, <2>4, <3>1
    <3>4. QED  BY <2>2, <2>5, <2>7, <3>2, <3>3 DEF FirstInv
  <2>9. CASE past.runs # 0
    <3>1. past'.runs # 0 /\ past'.runs # 1  BY <2>3, <2>9
    <3>2. QED  BY <3>1 DEF FirstInv
  <2>10. QED  BY <2>8, <2>9
<1>2. CASE Reboot \/ UNCHANGED vars
  <2>1. run' = run /\ past' = past /\ conf' = conf
    BY <1>2 DEF Reboot, vars
  <2>2. Target' = Target /\ Provisioners' = Provisioners
    BY <2>1 DEF Target, Provisioners
  <2>3. Taken("25-baremetal-tuning.sh", 1)' <=> Taken("25-baremetal-tuning.sh", 1)
    BY <2>1, <2>2 DEF Taken
  <2>4. QED  BY <2>1, <2>2, <2>3 DEF FirstInv
<1>3. CASE PassOver
  <2>1. /\ Walking /\ EndScript /\ conf' = conf
        /\ \/ Current \in run.absent
           \/ run.skip /\ Current = "99-cleanup.sh"
    BY <1>3 DEF PassOver, host
  <2>2. run' = [run EXCEPT !.at = @ + 1, !.step = 1] /\ past' = past
    BY <2>1 DEF EndScript
  <2>3. /\ run'.at = run.at + 1 /\ run'.step = 1 /\ run'.phase = run.phase
        /\ run'.flavor = run.flavor /\ run'.absent = run.absent
        /\ run'.env = run.env /\ run'.way = run.way
    BY <1>0, <2>2 DEF RunType
  <2>4. run.phase = "running" /\ run.at <= Len(Provisioners)
    BY <2>1 DEF Walking
  <2>5. Provisioners' = Provisioners /\ Target' = Target
    BY <2>3 DEF Provisioners, Target
  <2>6. Taken("25-baremetal-tuning.sh", 1)' <=> Taken("25-baremetal-tuning.sh", 1)
    BY <1>0, <1>3, <2>4, PassOverTakes
  <2>7. QED  BY <2>1, <2>2, <2>3, <2>4, <2>5, <2>6 DEF FirstInv
<1>4. CASE Complete \/ Fail
  <2>1. UNCHANGED <<conf, past>>  BY <1>4 DEF Complete, Fail
  <2>2. PICK phase \in {"done", "failed"} : run' = [run EXCEPT !.phase = phase]
    BY <1>4 DEF Complete, Fail
  <2>3. /\ run'.at = run.at /\ run'.step = run.step /\ run'.phase = phase
        /\ run'.flavor = run.flavor /\ run'.absent = run.absent
        /\ run'.skip = run.skip /\ run'.env = run.env /\ run'.way = run.way
    BY <1>0, <2>2 DEF RunType
  <2>4. Provisioners' = Provisioners /\ Target' = Target
    BY <2>3 DEF Provisioners, Target
  <2>5. Taken("25-baremetal-tuning.sh", 1)' <=> Taken("25-baremetal-tuning.sh", 1)
    BY <2>3, <2>4 DEF Taken
  <2>6. run.phase = "running"  BY <1>4 DEF Complete, Fail, Walking
  <2>7. past'.runs # 0  BY <2>1, <2>6 DEF FirstInv
  <2>8. QED  BY <2>1, <2>3, <2>4, <2>5, <2>7 DEF FirstInv
<1>5. CASE Step  BY <1>5, StepFirst
<1>6. QED  BY <1>1, <1>2, <1>3, <1>4, <1>5 DEF Next

\* The environment of the build templates and that of the generated script,
\* flavor by flavor.
LEMMA TablesCompared ==
  ASSUME NEW f \in Flavors, NEW c, c = Catalog[f],
         NEW b, b = BuildEnv(c), NEW a, a = ApplyEnv(c, "agent")
  PROVE  /\ CmdlineProfile(b.kernel) = CmdlineProfile(a.kernel)
              <=> c.TierID # "k3s" /\ c.ID # "base-nvidia-datacenter"
         /\ b.gen = "generic"
              <=> c.Vendor \notin {"intel", "amd"} /\ c.ID # "appliance-vision-nvr"
         /\ Images(b, c.Vendor) = Images(a, c.Vendor)
              <=> ~(c.TierID = "kubernetes" /\ c.Vendor # "none")
         /\ a.gen = "generic" /\ a.role = "agent"
         /\ b.role = IF c.ID = "k3s-server-generic" THEN "server" ELSE "agent"
<1>1. /\ c.ID = "base-nvidia-datacenter" => c.TierID = "base"
      /\ c.ID \in {"k8s-node-cilium", "k8s-node-calico", "k8s-node-flannel"} =>
           c.TierID = "kubernetes" /\ c.Vendor = "none"
      /\ c.ID = "k3s-server-generic" => c.TierID = "k3s"
      /\ c.ID \in {"cloudnative-k8s", "cloudnative-storage", "cloudnative-pg"} =>
           c.TierID = "cloudnative"
      /\ c.ID \in {"appliance-vision-nvr", "appliance-media-server"} => c.TierID = "homelab"
  <2>1. /\ {"base", "kubernetes", "k3s", "cloudnative", "homelab"} = DOMAIN Named
        /\ Named["base"] = {"base-nvidia-datacenter"}
        /\ Named["kubernetes"] = {"k8s-node-cilium", "k8s-node-calico", "k8s-node-flannel"}
        /\ Named["k3s"] = {"k3s-server-generic"}
        /\ Named["cloudnative"] = {"cloudnative-k8s", "cloudnative-storage", "cloudnative-pg"}
        /\ Named["homelab"] = {"appliance-vision-nvr", "appliance-media-server"}
    BY DEF Named
  <2>2. /\ \A t \in DOMAIN Named : c.ID \in Named[t] => c.TierID = t
        /\ c.ID \in Named["kubernetes"] => c.Vendor = "none"
    BY TablesAssumption
  <2>3. QED  BY <2>1, <2>2
<1>2. c.KernelProfile =
        CASE c.TierID = "kubernetes" \/ c.ID = "cloudnative-k8s" -> "k8s"
          [] c.TierID = "ai-infer" \/ c.ID = "cloudnative-pg" -> "ai-infer"
          [] c.ID \in {"base-nvidia-datacenter", "cloudnative-storage",
                       "appliance-media-server"} -> "baremetal"
          [] OTHER -> "generic"
  BY TablesAssumption
<1>3. c.PreheatProfile =
        IF c.TierID # "kubernetes" THEN ""
        ELSE CASE c.Vendor # "none" \/ c.ID = "k8s-node-cilium" -> "cilium"
               [] c.ID = "k8s-node-calico" -> "calico"
               [] c.ID = "k8s-node-flannel" -> "flannel"
               [] OTHER -> "lean"
  BY TablesAssumption
<1>4. c.Vendor \in Vendors  BY CatalogAssumption
<1>5. a.kernel = c.KernelProfile
      /\ a.preheat = IF c.PreheatProfile = "" THEN "lean" ELSE c.PreheatProfile
  BY DEF ApplyEnv
<1>6. b.kernel =
        CASE c.TierID \in {"base", "containers"} -> "generic"
          [] c.TierID \in {"kubernetes", "k3s"} \/ c.ID = "cloudnative-k8s" -> "k8s"
          [] c.TierID = "ai-infer" \/ c.ID = "cloudnative-pg" -> "ai-infer"
          [] c.ID \in {"cloudnative-storage", "appliance-media-server"} -> "baremetal"
          [] OTHER -> "generic"
  BY DEF BuildEnv
<1>7. b.gen = CASE c.Vendor = "intel" \/ c.ID = "appliance-vision-nvr" -> "intel"
                [] c.Vendor = "amd" -> "amd"
                [] OTHER -> "generic"
  BY DEF BuildEnv
<1>8. /\ b.role = IF c.ID = "k3s-server-generic" THEN "server" ELSE "agent"
      /\ b.preheat = CASE c.ID = "k8s-node-cilium" -> "cilium"
                       [] c.ID = "k8s-node-calico" -> "calico"
                       [] c.ID = "k8s-node-flannel" -> "flannel"
                       [] OTHER -> "lean"
  BY DEF BuildEnv
<1>9. CmdlineProfile(b.kernel) = b.kernel /\ CmdlineProfile(a.kernel) = a.kernel
  BY <1>2, <1>5, <1>6 DEF CmdlineProfile
<1>10. b.kernel = a.kernel <=> c.TierID # "k3s" /\ c.ID # "base-nvidia-datacenter"
  <2>1. CASE c.TierID = "k3s"  BY <1>1, <1>2, <1>5, <1>6, <2>1
  <2>2. CASE c.ID = "base-nvidia-datacenter"  BY <1>1, <1>2, <1>5, <1>6, <2>2
  <2>3. CASE c.TierID # "k3s" /\ c.ID # "base-nvidia-datacenter"
    BY <1>1, <1>2, <1>5, <1>6, <2>3
  <2>4. QED  BY <2>1, <2>2, <2>3
<1>11. Images(b, c.Vendor) = Images(a, c.Vendor)
         <=> ~(c.TierID = "kubernetes" /\ c.Vendor # "none")
  <2>1. CASE c.TierID = "kubernetes" /\ c.Vendor # "none"
    <3>1. b.preheat = "lean" /\ a.preheat = "cilium"
      BY <1>1, <1>3, <1>5, <1>8, <2>1
    <3>2. "cilium" \in Images(a, c.Vendor) /\ "cilium" \notin Images(b, c.Vendor)
      BY <1>4, <3>1 DEF Images, Vendors
    <3>3. QED  BY <2>1, <3>2
  <2>2. CASE ~(c.TierID = "kubernetes" /\ c.Vendor # "none")
    <3>1. b.preheat = a.preheat
      <4>1. CASE c.TierID # "kubernetes"
        <5>1. c.PreheatProfile = ""  BY <1>3, <4>1
        <5>2. a.preheat = "lean"  BY <1>5, <5>1
        <5>3. b.preheat = "lean"  BY <1>1, <1>8, <4>1
        <5>4. QED  BY <5>2, <5>3
      <4>2. CASE c.TierID = "kubernetes" /\ c.Vendor = "none"
        <5>1. c.PreheatProfile = b.preheat  BY <1>3, <1>8, <4>2
        <5>2. c.PreheatProfile # ""  BY <1>3, <4>2
        <5>3. QED  BY <1>5, <5>1, <5>2
      <4>3. QED  BY <2>2, <4>1, <4>2
    <3>2. QED  BY <2>2, <3>1 DEF Images
  <2>3. QED  BY <2>1, <2>2
<1>12. b.gen = "generic"
         <=> c.Vendor \notin {"intel", "amd"} /\ c.ID # "appliance-vision-nvr"
  BY <1>7
<1>13. a.gen = "generic" /\ a.role = "agent"  BY DEF ApplyEnv
<1>14. QED  BY <1>8, <1>9, <1>10, <1>11, <1>12, <1>13

\* A direct boot's tuning is nothing a provisioned host has already.
LEMMA BootTuningIsNew ==
  ASSUME NEW c, NEW p
  PROVE  BootTuning(c) \ Tuning(p)
           = IF c.KernelProfile = "ai-infer"
             THEN {<<"transparent_hugepage", "madvise">>, <<"numa", "on">>} ELSE {}
<1>1. /\ <<"transparent_hugepage", "madvise">> \notin Tuning(p)
      /\ <<"numa", "on">> \notin Tuning(p)
  BY DEF Tuning
<1>2. QED  BY <1>1 DEF BootTuning

\* On a host whose only flavor is of the k3s tier, the one unit of k3s is that of
\* the run's role.
LEMMA UnitOfRole ==
  ASSUME PipelineTypeOK, Converges, OriginInv, Whole,
         past.applied = {<<run.flavor, run.env>>}, Target.TierID = "k3s",
         NEW u \in {"k3s.service", "k3s-agent.service"}
  PROVE  u \in load.units <=> u = K3sUnit(run.env.role)
<1>1. run.flavor \in Flavors  BY WholeLeaves
<1>2. u \in load.units <=> u \in Items
  <2>1. u \in Units  BY DEF Units
  <2>2. QED  BY <2>1, WholeLeaves
<1>3. ASSUME u = K3sUnit(run.env.role) PROVE u \in Items
  <2>1. "52-k3s-runtime.sh" \in ScriptsOf(Target)
    BY <1>1, ListsAssumption DEF Target
  <2>2. QED  BY <1>3, <2>1, WholeLeaves
<1>4. ASSUME u \in Items PROVE u = K3sUnit(run.env.role)
  <2>1. u \in HistoryItems  BY <1>4 DEF OriginInv
  <2>2. \A p \in past.applied : p[1] = run.flavor /\ p[2] = run.env  OBVIOUS
  <2>3. u \in LeftBy(Certain \cup BestEffort, ScriptsOf(Target), run.env)
    BY <2>1, <2>2 DEF HistoryItems, Target
  <2>4. \A q \in Certain \cup BestEffort : q[2] # u  BY DEF Certain, BestEffort
  <2>5. QED  BY <2>3, <2>4 DEF LeftBy
<1>5. QED  BY <1>2, <1>3, <1>4

LEMMA WaysAtEnd ==
  PipelineTypeOK /\ LeavesInv /\ OriginInv /\ FirstInv => SameEitherWay
<1> SUFFICES ASSUME PipelineTypeOK, LeavesInv, OriginInv, FirstInv, Whole, First,
                    NEW f, f = Target, NEW o, o = OtherWay
             PROVE  /\ boot.profile = CmdlineProfile(o.kernel)
                         <=> f.TierID # "k3s" /\ f.ID # "base-nvidia-datacenter"
                    /\ boot.iommu = <<o.gen>> /\ conf.microcode = Microcode(o.gen)
                         <=> f.Vendor \notin {"intel", "amd"} /\ f.ID # "appliance-vision-nvr"
                    /\ load.images \cup Images(run.env, f.Vendor) = Images(o, f.Vendor)
                         <=> ~(f.TierID = "kubernetes" /\ f.Vendor # "none")
                    /\ f.TierID = "k3s" =>
                         (K3sUnit(o.role) \in load.units <=> f.ID # "k3s-server-generic")
                    /\ BootTuning(f) \ Tuning(boot.profile)
                         = IF f.KernelProfile = "ai-infer"
                           THEN {<<"transparent_hugepage", "madvise">>, <<"numa", "on">>} ELSE {}
  BY DEF SameEitherWay
<1> DEFINE a == ApplyEnv(f, "agent")
           b == BuildEnv(f)
           e == run.env
<1>0. Converges  BY ConvergedAtEnd
<1>1. /\ run.flavor \in Flavors /\ f = Catalog[run.flavor] /\ Settled /\ run.absent = {}
  BY <1>0, WholeLeaves DEF Whole, Target
<1>2. boot.grub /\ past.applied = {<<run.flavor, run.env>>}
  BY DEF First, FirstInv
<1>3. (e = b /\ o = a) \/ (e = a /\ o = b)
  <2>1. CASE run.way = "packer"  BY <2>1 DEF First, FirstInv, OtherWay
  <2>2. CASE run.way = "apply"
    <3>1. e = ApplyEnv(f, run.env.role) /\ run.env.role = "agent"
      BY <2>2 DEF First, FirstInv
    <3>2. o = b  BY <2>2 DEF OtherWay
    <3>3. QED  BY <3>1, <3>2
  <2>3. QED  BY <2>1, <2>2 DEF First, FirstInv
<1>4. /\ CmdlineProfile(b.kernel) = CmdlineProfile(a.kernel)
           <=> f.TierID # "k3s" /\ f.ID # "base-nvidia-datacenter"
      /\ b.gen = "generic"
           <=> f.Vendor \notin {"intel", "amd"} /\ f.ID # "appliance-vision-nvr"
      /\ Images(b, f.Vendor) = Images(a, f.Vendor)
           <=> ~(f.TierID = "kubernetes" /\ f.Vendor # "none")
      /\ a.gen = "generic" /\ a.role = "agent"
      /\ b.role = IF f.ID = "k3s-server-generic" THEN "server" ELSE "agent"
  BY <1>1, TablesCompared
<1> HIDE DEF a, b
<1>5. {"20-kernel-sysctl.sh", "25-baremetal-tuning.sh"} \subseteq Ran
  <2>1. {"20-kernel-sysctl.sh", "25-baremetal-tuning.sh"} \subseteq ScriptsOf(f)
    BY <1>1, ListsAssumption
  <2>2. QED  BY <1>1, <2>1 DEF Ran
<1>6. boot.profile = CmdlineProfile(e.kernel) /\ boot.iommu = <<e.gen>>
  BY <1>0, <1>1, <1>2, <1>5 DEF Converges
<1>7. conf.microcode = Microcode(e.gen)
  <2>1. 1 \in 1..3  OBVIOUS
  <2>2. Taken("25-baremetal-tuning.sh", 1)  BY <1>1, <1>5, <2>1, EndTakesAll
  <2>3. QED  BY <2>2 DEF First, FirstInv
<1>8. boot.profile = CmdlineProfile(o.kernel)
        <=> f.TierID # "k3s" /\ f.ID # "base-nvidia-datacenter"
  BY <1>3, <1>4, <1>6
<1>9. boot.iommu = <<o.gen>> /\ conf.microcode = Microcode(o.gen)
        <=> f.Vendor \notin {"intel", "amd"} /\ f.ID # "appliance-vision-nvr"
  <2>1. e.gen = o.gen <=> b.gen = "generic"  BY <1>3, <1>4
  <2>2. boot.iommu = <<o.gen>> <=> e.gen = o.gen  BY <1>6
  <2>3. QED  BY <1>4, <1>7, <2>1, <2>2
<1>10. load.images \subseteq Images(e, f.Vendor)
  <2>1. load.images \subseteq HistoryImages  BY DEF OriginInv
  <2>2. \A p \in past.applied : p[1] = run.flavor /\ p[2] = run.env  BY <1>2
  <2>3. HistoryImages \subseteq Images(e, f.Vendor)
    BY <1>1, <2>2 DEF HistoryImages
  <2>4. QED  BY <2>1, <2>3
<1>11. load.images \cup Images(e, f.Vendor) = Images(o, f.Vendor)
         <=> ~(f.TierID = "kubernetes" /\ f.Vendor # "none")
  BY <1>3, <1>4, <1>10
<1>12. ASSUME f.TierID = "k3s"
       PROVE  K3sUnit(o.role) \in load.units <=> f.ID # "k3s-server-generic"
  <2>1. K3sUnit(o.role) \in {"k3s.service", "k3s-agent.service"}  BY DEF K3sUnit
  <2>2. K3sUnit(o.role) \in load.units <=> K3sUnit(o.role) = K3sUnit(e.role)
    BY <1>0, <1>2, <1>12, <2>1, UnitOfRole
  <2>3. K3sUnit(o.role) = K3sUnit(e.role) <=> K3sUnit(a.role) = K3sUnit(b.role)
    BY <1>3
  <2>4. K3sUnit(a.role) = K3sUnit(b.role) <=> f.ID # "k3s-server-generic"
    BY <1>4 DEF K3sUnit
  <2>5. QED  BY <2>2, <2>3, <2>4
<1>13. QED  BY <1>8, <1>9, <1>11, <1>12, BootTuningIsNew

\* A flavor built by Packer and the same flavor applied, each on a host of its
\* own, agree on the kernel command line, the CPU generation, the images and the
\* k3s unit, except for the flavors SameEitherWay names, and for those they
\* disagree: the host of the one is held against the environment of the other.
THEOREM WaysAgree == Spec => []SameEitherWay
  BY WaysAtEnd, InitTyped, NextTyped, InitLeaves, NextLeaves, InitOrigin,
     NextOrigin, InitFirst, NextFirst, PTL DEF Spec
=============================================================================
