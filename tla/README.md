# lusoris-cloud-images: specifications, model checking and proofs

TLA+ modules for the stateful parts of the repository, the TLC runs that check
them on small instances, and TLAPS proofs that hold for every value of the
constants. `PROJECT.json` ties every definition that models code to the lines it
models, lists the runs with what each asks, the code's hazards with the
properties that cover them, the disagreements between code and documents that
the runs show, and the theorems.

To repeat: `tlc -config MCMcpParts.cfg MCMcpParts` (likewise the other configs) and
`tlapm Stager_proofs.tla` (likewise the other `*_proofs` modules).

## 1. The system

The repository builds Ubuntu cloud images ("flavors") with Packer, and ships a
Go tool (`cmd/lusoris-forge`) and an MCP server (`pkg/mcp`) through which agents
browse the catalog and start builds, plus a few Python helpers for those agents.

| Component | State | Operations | Meets |
|---|---|---|---|
| Staged-action store, `pkg/mcp/staging.go` | map identifier -> pointer to action, mutex | `Stage`, `Prune`, `Get`, `List`, `Confirm`, `Discard` | called by the MCP handlers; hands out pointers |
| MCP tool handlers, `pkg/mcp/server.go` | the store; one goroutine per call | `trigger_build`, `apply_flavor`, `confirm_action`, `discard_staged_action`, `list_staged_actions`, eight read-only tools | store, dispatcher, catalog |
| Build dispatcher, `pkg/builder` | none | `Dispatch` to nine backends | called by the handlers, reads the catalog |
| Stdout redirect, `pkg/mcp/stdout.go` | `os.Stdout`, a pipe, a drain goroutine | `installStdoutRedirect`, `drain`, `Close` | `RunStdio`; every goroutine that prints |
| Hindsight bridge, `scripts/hindsight_mcp_server.py` | a JSON buffer file, the remote engine | retain (post, append, flush), recall, reflect, status, list banks | other bridge processes, through the file |
| Tunnel supervisor, `scripts/tunnel_hindsight.py` | a child process | start, probe, wait, restart | carries the bridge's requests |
| Worktree fan-out, `scripts/orchestrate_fanout.py` | git worktrees | spawn, remove, list | git |
| Flavor catalog, `pkg/flavors` | constant table | get, list, filter | everything |
| Imageless generator, `pkg/imageless` | none | writes the script that applies a flavor | runs the provisioners |
| Provisioning pipeline, `packer/` | the host under construction | 28 scripts in a per-flavor order | Packer, cloud-init, sudo |
| Hardening standards, `pkg/standards` | constant table | get, list | what a finished host should satisfy |
| Cloud-init, manifest, tracker packages | none | render, parse, compare | the command line and the MCP tools |
| Command line, repository scripts, workflows, tests | none of their own | | |

Where the difficulty lies:

- **Concurrent handlers.** The MCP SDK serves each call in a goroutine of its
  own. `Stager.mu` makes a method atomic, but a handler is more than a method:
  `confirm_action` dispatches after `Confirm` has let go of the lock, and
  `list_staged_actions` marshals shared objects after `List` has.
- **Identifiers and pointers.** An identifier is four random bytes and is not
  looked up before it is used; objects outlive their map entries because
  handlers hold pointers.
- **Time and capacity.** Expiry happens only inside a `Stage` that finds the
  store full; the comparison with the cutoff is strict.
- **A pipe in the way of every print.** Writers, the drain and `Close` wait for
  one another; the pipe is bounded and the sink may fail.
- **A file without a lock.** Bridges read, change and rewrite the whole buffer;
  a process can die in the middle, and an answer can be lost after the request
  was applied.
- **Ordered scripts with side effects** in the pipeline: any command may end the
  run and leave a host half done; some lines are appended, others written anew;
  a drop-in of a later script is overruled by an earlier script's because of its
  name; the cleanup removes rights that it still needs. The same flavor reaches
  a host in two ways with two environments.
- **Processes that nobody keeps apart**: the tunnel loop and the forwards it
  starts, interrupted anywhere; agents that spawn and prune worktrees at once,
  beside a user who works in the main checkout of the same repository.

What makes each component correct: the store's index is sound and nothing comes
back from the dead; the handlers run a build only when approved and at most once,
and settle what was approved; the redirect keeps foreign bytes off the protocol
stream without losing, tearing or blocking output; the bridge neither loses a
buffered fact nor takes one for synced that is not; the tunnel comes back
whenever the forward dies; a spawn fails for a cause only and no two checkouts
share a branch; applying a flavor converges, over failed runs and over other flavors, to
what its scripts and the standards say, and to the same by both ways.

## 2. Modules

| Module | Models | Shape |
|---|---|---|
| `Stager` | the store | one action per method, atomic like the mutex makes it |
| `Builder` | `Dispatch` | an operator from flavor, backend and dry-run to an outcome |
| `McpServer` | the handlers; extends `Stager` and `Builder` | one action per lock-free stretch of a handler |
| `ConfirmGate` | nothing in the code: what the two-phase guardrail promises | four actions over a sequence of stages |
| `StdoutRedirect` | `stdout.go` under `RunStdio` | steps of main, drain and each writer |
| `Conduit` | nothing in the code: what the redirect promises to those who print | four actions over what was taken and what has arrived |
| `HindsightBuffer` | retain over the shared buffer file | steps of each bridge process |
| `FlavorCatalog` | `pkg/flavors` | the table of 44 flavors, its indexes and look-ups |
| `FlavorStandards` | `pkg/standards` | an operator from a flavor to what is promised of it |
| `ProvisionPipeline` | `packer/` and the script of `pkg/imageless` | one action per script step with a lasting effect |
| `FlavorCompliance` | extends the two before | what a host has in force, against the standards and the catalog |
| `TunnelSupervisor` | `run_tunnel` | steps of the loop, of the user and of the forwards |
| `Worktrees` | spawn and prune | steps of each invocation, and of the user beside them |
| `MC*` | | instances for TLC; `MCMcpParts` holds the store and the redirect, `MCAgentScripts` the three Python helpers: parts that share nothing, of which a behaviour runs one |
| `*_proofs` | | theorems and their lemmas |

Definitions whose comment begins with *Mutant* are plausible mistakes in the
definition that follows them. They take no part in any specification;
`PROJECT.json` pairs each with the property that must notice it.

### Stager

`heap` holds every `StagedAction` ever allocated and a pointer is an index into
it; `actions` is the Go map. This is what lets the specification talk about an
object that a handler still holds after the map forgot it. `Stage` appends an
object, lets `pruneLocked` run when the map is full (`RoomForOne`) and adds the
entry under an identifier that may be in use, which is what four random bytes
and an unconditional assignment allow. `Prune`, `Confirm` and `Discard` are the
methods line by line; `Confirm` has the status in its guard, `Discard` has not.
`Tick` is `time.Now`: monotonic. `Preview`, `Target` and `Tool` are texts and are
left out. `Get` and `List` read only; the pointers `List` hands out appear in
`McpServer`.

### McpServer

A call goes from `idle` to `done`, by way of `confirmed` (it holds the object
`Confirm` returned, in `held`) or `listing` (it marshals). What a handler does
before it first touches the store has no effect, so arrival and first step are
one action. `LoadStatus` reads one machine word of one status: a Go string is an
address and a length, and `encoding/json` reads them while `Confirm` and
`Discard` write, without a lock in common. The eight read-only tools touch none
of this.

`apply_flavor` stages nothing, although
`docs/adr/0015-progressive-agent-skills-and-staged-mcp-operations.md:46` counts it
among the staged calls; the specification follows the code. A call with
`confirmed=true` runs at once and leaves an earlier staged entry pending, so a
later `confirm_action` runs it again: the two calls share no identifier and both
paths are documented, so no property forbids it.

### ConfirmGate, and how the handlers implement it

A proposal is `pending`, then `approved` or `dropped`; an approved one becomes
`executed` or `rejected`, once. `McpServer` maps object `r` to `GateOf(r)`: the
outcome some call answered about `r`, else `approved` when a call holds `r`, else
`pending` when the map still leads to it in that status, else `dropped`. So an
eviction, a discard and a displacement by an equal identifier are all drops, and
the gate says that none of them happens to an approved proposal.

### StdoutRedirect

`main` follows `RunStdio`; `stdout` is the process global; `pipe` is bounded;
`drain` alternates between reading into `held` and writing to the sink. A writer
resolves `os.Stdout` first and writes later, so it may write to a file that is
being closed. The write lock of an `os.File`, its parking before a full pipe and
its eviction by `Close` are Go's (`poll.FD`) and are marked external, as is the
pipe. The second `Close` of a handle, which only returns an error, is left out;
what prints do on the real stdout once the session is over is not a property.

### Conduit, and how the redirect implements it

A conduit takes cells of whole lines, one line at a time, delivers a beginning of
what it took, breaks at most once and then delivers no more, and ends only when
all is delivered or it has broken; after that nothing happens. A cell is taken
when the kernel takes it into the pipe (`accepted`), delivered when a write of
the copy returns (`sink`), the conduit is broken when a write to the sink has
failed, and ended when `Close` has returned. Reads, locks, parking, wakeups and
the steps of `Close` before its last are stutters. The conduit joins what
`NothingLost`, `DrainedOnReturn` and `LinesWhole` say of single states, and adds
the order of events: nothing is delivered behind a gap, and nothing is taken or
delivered once `Close` has returned.

### HindsightBuffer

Each bridge serves one call at a time, as its stdin loop does. `Post`,
`ReadToAppend`, `ReadToFlush`, `PostPending`, `OpenFile` and `WriteFile` are the
steps between which another process can come: reads, requests, and the two steps
of `Path.write_text` (truncate, write). A request may be applied and its answer
lost. A file that does not parse reads as empty; two writes that overlap, or one
that is cut short, may leave such a file (`garbled`). `Kill` ends a process
anywhere. `disturbed` is a history variable, read by no guard: a write was cut
short, or two processes had copies at once.

Recall, reflect, status and list banks change nothing and are left out, with
the redaction patterns. The engine is taken to answer with a JSON object.

### ProvisionPipeline

One host: `boot` is `/etc/default/grub`, `conf` and `load` are what the scripts
left, `seal` is what the cleanup takes away. `run` walks the provisioner list of
a flavor of the catalog, `past` is history. `Build` is Packer in a new machine,
`Apply` the script that `GenerateApplyScript` writes; they differ in the
environment (`BuildEnv`, `ApplyEnv`), in what may be missing (`PassOver`: the
generated script only warns) and in what a failure leaves (Packer destroys the
machine). All scripts are `set -euo pipefail`, so `Fail` may end a run before
any step, and a step whose command has `|| true` chooses whether it had its
effect. A script with several lasting effects is several steps, so that a
failure can fall between them: a run may stop with the packages of a GPU runtime
installed (`load.runtimes`) and its CDI file not written, and
`60-ai-infer-runtime.sh` takes either for the GPU (`Selectors`). `Rights` is sudo: the rule cloud-init gave the
build user, or rights the host has otherwise. `Reboot` makes identity and rule
anew, as cloud-init does.

Packer's build blocks repeat the catalog's script lists by hand. `BuildScripts`
is what they say, and `BuildAssumption` compares it with the catalog, flavor by
flavor; that they agree is what lets one walk stand for both ways.

`Apply` takes `K3S_ROLE` from the caller's environment, because the generated
script leaves it alone; `BM_GEN` and the version variables are taken to be unset
there. Scripts whose effects nothing later reads and no standard names
(`OtherScript`) still are steps that can fail.

`FlavorCatalog` is written by tier: every list of the table starts with the same
five scripts and ends with the cleanup, so an entry gives what is its own.
`FlavorCompliance.Effective` is systemd-sysctl: files in the order of their
names, the last one wins, and a parameter that no file sets has the value the
kernel or the distribution starts with (`Default`): `vm.zone_reclaim_mode` is 0
without anybody's doing.

### TunnelSupervisor and Worktrees

`kids` holds every forward ever started; `sup.proc` is the one the Python
variable refers to, which may be an earlier one when a start failed. An
interrupt may come in the middle of `Popen` (`LaunchInterrupted`) and a print
may fail (`PrintFails`), also in a handler; `slip` records those.

An interrupt is Ctrl-C. SIGTERM and SIGKILL, for which the script has no handler
and after which the forward lives on, are not steps of the model, so
`NoForwardLeft` says nothing of them.

A spawn looks at the path, then runs `git worktree add -b` (branch, then path:
two steps) and, if that fails, `git worktree add` without `-b`. `wt`, `gone`,
`head` and `branches` are git's state: the branch registered for each role's
path, the registrations whose directory was deleted, the branch of the main
checkout, the branches there are. git refuses a path that is registered and a
branch that any checkout has, the main one included (`Held`), and may fail for
reasons of its own: a name that is none, a lock, a full disk (`GitFails`). The
user switches the main checkout (`Switch`) and deletes directories without
telling git (`Delete`). `job` is what each invocation is at; one that has ended
makes room for a later one (`Leave`), so that there is no bound on how many
follow each other. The field `cause` of a job and `lost` are history: what stood
in the way of a spawn first, and which branches lost their checkout or the spawn
that made them. Nobody deletes a branch, and a directory at an agent's path that
is no worktree is left out.

## 3. Runs

| Run | Size | Time | Shows |
|---|---|---|---|
| `mcp` | 519 000 states | 2 min | at most once and only approved, implements the gate, listings never ahead, no live build lost, approvals settle |
| `mcp_parts` | 573 000 | 2 min | store: sound index, no revival, statuses only advance, what exceeds the capacity is live; redirect: frames undisturbed, nothing lost or torn, no circular wait, implements the conduit, prints and `Close` return |
| `pipeline` | 280 000 | 1.5 min | a run that completes converges, meets the standards but for named exceptions, and is the same by Packer and by script |
| `agent_scripts` | 501 000 | 1 min | no forward left, reconnects; spawns fail for cause, branches accounted; marks and upstream answers are true, buffered facts kept while undisturbed, retains end |
| `capacity_bound`, `expired_confirm`, `discard_aborts`, `listing_torn`, `hindsight_lost`, `hindsight_bank`, `standard_parameters`, `applied_twice` | | seconds | a counterexample each, see 6 |

### Properties

Store: `IndexSound` (an entry leads to an object staged under its key, never to
a discarded one), `NoRevival`, `StatusAdvances`, `ExcessIsLive` (what the
capacity test does guarantee: a `Stage` that ends above the bound left no expired
entry behind).

Server: `HandlersSound` (an object taken by a confirmation belongs to one handler,
which answers with its outcome), `AtMostOnce`, `ImplementsGate`,
`ListingNeverAhead`, `NoPrematureLoss` (a pending build leaves the map only when
older than the TTL, discarded, or displaced by its own identifier),
`ApprovalSettles`.

Redirect: `FramingHeld` (no foreign byte among the frames), `NothingLost`,
`DrainedOnReturn` (what raced with `Close` included), `LinesWhole` (what stderr
receives is whole lines and at most one torn line, the last), `NoCircularWait`
(whenever `Close` or a writer waits, the drain has work to do or the writer in
the file can go on: the part of `PrintsReturn` and `CloseReturns` that is about
states and can be proved), `ImplementsConduit`, `PrintsReturn`, `CloseReturns`.

Bridge: `SyncedIsStored` and `UpstreamAnswerTrue` hold through every race and
crash. They bound the damage, they do not deny it: a lost race loses entries and
never marks one falsely. `BufferedKept` holds as long as `disturbed` is false and
says that appends and flushes by themselves keep what they were given;
the losses of overlapping copies and cut writes are what the violated
`SafelyAppended` shows. `RetainEnds`.

Pipeline:

- `Converges`: whatever failed before and wherever, a completed run leaves what
  its scripts stand for, with its own lines and no others in the files it writes
  anew and the selectors of the GPUs found by then, CDI file or runtime
  directory; what is left over, after a failed run too, comes from a flavor that
  was put there.
- `OneIommuGroup` and `SealNeedsRights`. The latter states a defect: the cleanup
  removes the sudo rule (`99-cleanup.sh:12`) that its next commands and
  `packer/sources.pkr.hcl:23` need, so a completed run needs rights from
  elsewhere.
- `ParametersKept`: every kernel parameter `standards.Get` promises is in force,
  by a drop-in or by the kernel's default, but for the three of `Overruled`. That
  those three are broken is not asked here but shown by `standard_parameters`.
- `StandardMet`: units and CDI files, with what is installed at best effort
  aside. A k3s flavor applied under the wrong role is excepted here and is a
  matter of the next property.
- `SameEitherWay`: what one way left on the host against the environment the
  other way would have given its scripts (`OtherWay`), in both directions, for
  the command line, the CPU generation, the images and the k3s unit; and the
  tuning of a direct boot, values included, against the command line of the
  host. The exceptions are equivalences: the kernel profile of the k3s tier
  and of `base-nvidia-datacenter`, the CPU generation of the Intel and AMD
  flavors and of the vision appliance, the preheat of the GPU nodes, the unit of
  the k3s server, which comes out an agent without an image, and
  `transparent_hugepage=madvise` with `numa=on` where the host's own line says
  `always` and nothing of NUMA. Mending one of them on one side breaks the
  property.

Tunnel and worktrees: `NoForwardLeft` (at most one forward alive, the one the
loop would stop, and none after it; except after a `slip`), `Reconnects`;
`FailsForCause` (another checkout held the branch when it was asked for, a
registration was left at the path, someone made or took the branch or the path
meanwhile, or git failed by itself) and `BranchesAccounted`. A forward that
hangs (`clogged`) is never replaced: the loop reacts to the end of the process
only.

### Bounds, and why they are enough

- `mcp_parts`, the store: three identifiers, capacity 2, TTL 1, clock to 3, four
  `Stage` calls, all methods in any order. Four stages over three identifiers force a reused
  identifier; over capacity 2 they force the excess and the pruning; the clock
  passes the TTL by two ticks, so ages below, at and beyond it occur. `Prune`
  gets -1, 0 (both mean the default) and 2.
- `mcp`: four calls, two identifiers, capacity 1, TTL 1, clock to 2. Two
  confirmations and a discard of one staged build are four calls; so are a
  listing with a confirmation and a discard, and two stages of one identifier
  with two confirmations. Capacity 1 makes the second `Stage` evict. Requests
  include a flavor that is not in the catalog, a backend that is not supported
  (as a dry run only: a staged one would be refused like an unknown flavor) and
  arguments that do not decode.
- `mcp_parts`, the redirect: three writers, lines of 3 cells, pipe of 2, reads of
  2, two frames. A line exceeds the pipe, so a writer parks halfway with two others waiting for
  the lock; a read takes less than a line, so cells of one line are in the sink,
  in the copy buffer and in the pipe at once.
- `pipeline`: all 44 flavors on a fresh host with and without a GRUB, with and
  without rights, by both ways; two runs (`MaxRuns`), the second only between the
  flavors of `NextFlavors`: an inference flavor, a container flavor and a
  database flavor, which among them write other drop-ins, other device
  descriptions and other command lines, so that leftovers, a changed profile and
  the same flavor twice occur. `MayMiss` holds a script that rewrites and one
  that describes a device. A third run meets nothing new: a run reads only files
  that it rewrites, that accumulate as sets, or that it appends one more line to. The pipeline's theorems have no
  bound on the runs, nor on which flavor follows which.
- `standard_parameters` and `applied_twice` need one flavor each, once and twice.
- `agent_scripts`, the tunnel: four forwards (`MaxForwards`) and two failures of
  `Popen` (`MaxErrors`), so a failure can come between forwards.
- `agent_scripts`, the worktrees: two roles and two branches, two invocations at
  a time and any number in turn, so that two meet at one path, at one branch, or
  crosswise, with a prune, a deletion or a switch of the main checkout between.
- `agent_scripts`, the bridge: two bridges, three facts, two banks. One fact is
  buffered, one retain flushes it, one meets the flush. More bridges repeat
  pairwise overlaps; the theorems do not depend on the number.

`MaxCall`, `MaxStaged`, `MaxTime`, `MaxFrames`, `MaxRuns`, `MaxForwards`,
`MaxErrors`, `Invocations` and `Fact` (each fact is retained in one call) are the
bounds in guards. Deadlock is checked in `mcp` and `mcp_parts`, where the end of a
bounded behaviour is an explicit `Quiescent` step and the store can always
`Prune`. In `pipeline` and `agent_scripts` the system may stop: a host that gets
no further flavor, a supervisor that has ended.

### Fairness

- `McpServer`: weak fairness of each handler's steps after its first
  (`Continue`). The Go scheduler runs ready goroutines, and after the lock is
  released a handler waits for nothing. Nothing forces a client to call.
- `StdoutRedirect`: weak fairness of `Close` after its first step, of the drain,
  and of each writer once it resolved `os.Stdout`. The drain's write to stderr is
  taken to succeed or fail in the end. Nothing forces a session to end, a frame
  to come or a writer to start.
- `HindsightBuffer`: weak fairness of each bridge's own work: requests end by
  their timeout. A kill is never forced and a killed process owes no answer.
- `TunnelSupervisor`: weak fairness of the loop's regular steps; its pauses are
  sleeps of five and ten seconds. Forwards need not end, starts need not fail
  and nobody need interrupt.
- `ProvisionPipeline` and `Worktrees` assume none: a run or an invocation may
  stop anywhere.

## 4. Theorems

| Theorem | Statement | Needs |
|---|---|---|
| `StagerTypeCorrect`, `IndexIsSound`, `GoneForGood`, `StatusOnlyAdvances`, `ExcessOnlyLive` | the store's properties | `StagerInv` |
| `McpTypeCorrect`, `HandlersAreSound`, `GuardedOnce`, `RefinesGate` | `TypeOK`, `HandlersSound`, `AtMostOnce`, `ImplementsGate` | `McpInv` |
| `ListingsLag`, `LossHasACause` | `ListingNeverAhead`, `NoPrematureLoss` | `McpInv`, the store's steps |
| `RedirectTypeCorrect`, `FramesUndisturbed`, `OutputConserved`, `CloseDrains`, `LinesStayWhole`, `NobodyWaitsInACircle`, `RefinesConduit` | the redirect's safety, `NoCircularWait`, `ImplementsConduit` | `RedirectInv` |
| `BridgesTypeCorrect`, `MarksAreTrue`, `UpstreamAnswersTrue` | the bridge's safety under any disturbance | `BufferInv` |
| `BufferedFactsStay` | `BufferedKept` | `BufferInv`, `KeepingInv` |
| `PipelineTypeCorrect`, `IommuNeverPilesUp`, `SealTakesRights` | `PipelineTypeOK`, `OneIommuGroup`, `SealNeedsRights` | `IommuInv`, `SealInv` |
| `RunsConverge` | `Converges` | `LeavesInv`, `OriginInv` |
| `ParametersInForce`, `StandardsAreMet`, `WaysAgree` | `ParametersKept`, `StandardMet`, `SameEitherWay` | `RunsConverge`, for the last `FirstInv` too |
| `TunnelTypeCorrect`, `NoForwardIsLeft` | `TunnelTypeOK`, `NoForwardLeft` | `TunnelInv` |
| `WorktreesTypeCorrect`, `SpawnFailsForCause`, `BranchesAreAccounted` | the worktrees' properties | `WorktreesInv` |

Assumptions are those the modules name (`StagerAssumption`, `BuilderAssumption`,
`McpAssumption`, `RedirectAssumption`, `CatalogAssumption`, `BuildAssumption`,
`ListsAssumption`, `TablesAssumption`, `BoundsAssumption`, `TunnelAssumption`,
`NamesAssumption`):
the constants are naturals, the TTL, the capacities and the line length are
positive, requests have the shape of the tools' arguments, "none" is no role and
no branch. `HindsightBuffer` needs none.

Four of them say what the pipeline's theorems use of the catalog, which is a
constant table and not a parameter. They are facts that TLC evaluates over all 44
flavors in the `pipeline` run and that the provers, for which the table is 44
records of strings, are spared:

- `CatalogAssumption`: profiles and vendors are known; no list names a script
  twice; the command line is written (20) before the IOMMU group is added (25),
  devices are described (30 to 32) before they are selected (60), and the cleanup
  is last.
- `BuildAssumption`: the script lists of the build blocks are the catalog's.
- `ListsAssumption`: every list has the scripts 00, 10, 20 and 25, a tier with a
  runtime has the runtime's script and a container or inference flavor its
  vendor's, and the two flavors with settings of their own have theirs.
- `TablesAssumption`: which tiers and flavors have which kernel and preheat
  profile. The build file repeats these by hand, and `WaysAgree` compares.

The arguments:

- **Store.** `StagerInv` is the type invariant with `IndexSound`; `NoRevival`
  needs the type invariant because only it says that pointers are below
  `Len(heap) + 1`, so that a new object is never an old one. Pruning is used
  through one lemma, that it only forgets.
- **Server.** `AtMostOnce` is not inductive: that two calls answered about one
  object says nothing of the call that is about to. `McpInv` adds
  `HandlersSound`: a held object is out of `pending` and held by one call.
  Since `Confirm` takes pending objects only, the next holder takes another one.
  `RefinesGate` first shows each action to be a step or a stutter of the gate
  over a mapping phrased by what each call holds (`StageByHolder`), then
  that `GateOf` is that mapping whenever `McpInv` holds.
- **Redirect.** `RedirectInv` relates who may write where: no writer resolved
  the real stdout while the session runs, the drain ends only when the write end
  is closed and the pipe empty or the sink has failed, one writer is inside the
  file at a time and what the pipe took last is its prefix of a line. `LinesWhole`
  speaks of the sink only; it follows from whole lines in what the pipe accepted
  and from `SinkIsPrefix`, that a failed write ends the copy, so that nothing is
  written behind a gap. Lines of any length, pipes and reads of any size.
  `NobodyWaitsInACircle` follows who waits for whom (`WaitsSound`): a parked
  writer sees a full pipe with its read end open, so the drain has not left and
  has a cell to read, and a closing write end evicts the writer `Close` waits for.
  `RefinesConduit` takes the steps that are not stutters one by one: `PushTakes`
  from the clause about the cell taken last, `WriteDelivers` from `SinkIsPrefix`
  (a sequence that agrees with a beginning of `accepted` is a `SubSeq` of it),
  `ReturnFinishes` from what an ended drain implies. That nothing is taken after
  the end needs that past the closing of the write end no writer is in the file.
- **Bridge.** A mark travels from a copy to the file and an answer from the
  call, so `BufferInv` makes both sound before they arrive: marks in every copy
  are true, and a call past its own post has its fact upstream. The engine only
  grows, so neither can be undone by a stale copy.

- **Bridge, kept facts.** `KeepingInv` holds while `disturbed` is false: one
  bridge has a copy at a time, its copy has every fact of the file from the read
  to the write, the file is empty only between truncate and write, and every
  fact answered as buffered is in the file, in that copy or upstream
  (`InKeeping`). One lemma per action; steps that drop nothing share one.
- **Server, listings and losses.** A listing reads words of a status that only
  advances in rank, so what it read is never ahead. A pending object leaves the
  map by one of the store's four methods; the fate of an entry in each is a
  lemma.
- **Pipeline.** `OneIommuGroup` needs to know where the walk is: `IommuInv` says
  that between the rewrite (`Written`) and the append (`Added`) of one run the
  list is empty, and that before the rewrite it has at most one group.
  `SealNeedsRights` needs that a host past the first step of the cleanup has no
  rule (`SealInv`), so that without other rights the walk stops there.
- **Convergence.** `Converges` speaks of completed runs only and is not
  inductive. `LeavesInv` says the same of every state, of the part of the list
  walked so far: `Taken(s, k)` is that the walk is past step `k` of script `s`,
  and each thing a step leaves is tied to its `Taken`. Each step then only adds
  what it takes, except in the two files that are written twice in a run, the
  command line and the sshd drop-in, and in the selectors, which depend on what
  is on the host at that time (`SelectorsGrow`: a GPU found stays found); there the order of the list decides, which is what
  `CatalogAssumption` is for. The other half is `OriginInv`: in every state the
  host has nothing that no flavor of its history leaves.
- **Compliance.** What a completed run leaves is known by `RunsConverge`. Then
  the last file in the order of `sysctl.d` decides a parameter
  (`LastFileDecides`), or none does and the default stands (`NoFileDecides`), and
  the three properties are comparisons of tables, tier by tier
  (`TablesCompared`). `FirstInv` adds for `SameEitherWay` that the first run of a
  host has the environment of its way, and that nothing was put there before it,
  so that a unit on the host is one this run's role asked for.
- **Tunnel and worktrees.** A living forward is the one the loop is waiting for
  or about to stop (`TunnelInv`). `WorktreesInv` says of each spawn
  under way that as long as it has no cause its path is free and its branch is in
  no checkout, so that the attempt without `-b` has nothing to refuse it.

Only model-checked: liveness (`ApprovalSettles`, `PrintsReturn`,
`CloseReturns`, `RetainEnds`, `Reconnects`), which is outside the proof system,
and that the tables have the shape the four assumptions state. Every other
property of a passing run is a theorem. `LeavesInv` and
`OriginInv` were checked by TLC on the `pipeline` instance, and `WaitsSound` on
the redirect's, before they were proved.

## 5. Not modelled

- Cloud-init, manifest and tracker packages, command line: text rendering, the
  parsing of one file, comparison of version strings. They keep no state and
  nothing in the repository acts on their results.
- `Search` of the catalog (matching of texts), the package lists, baselines and
  memory budgets of the standards, the echo of a dry run.
- In the scripts: packages, udev rules, limits, journal settings, zram and swap,
  the latter masked at best effort by `20-kernel-sysctl.sh:113` after
  `00-base-strip.sh:99` set up zram for every flavor, although
  `docs/flavors/kubernetes.md:15` says that swap is permanently disabled.
- Repository scripts and workflows: sequential and stateless, or the behaviour
  of an external service.
- Read-only MCP tools and the redaction patterns of the bridge.
- `--check` of the tunnel and `list` of the fan-out, which only print; signals
  other than Ctrl-C to the tunnel; the deletion of branches, and a directory at
  an agent's path that is no worktree.

## 6. Where code and documents disagree

1. `capacity_bound`: `MaxStagedCapacity` is not a maximum. `Stage` evicts expired
   entries only; with none, the map grows (`staging.go:63`, against the comment
   at line 39).
2. `expired_confirm`: staged actions do not expire. `Confirm` never looks at the
   age and nothing prunes unless a `Stage` finds the store full (`staging.go:133`,
   against `docs/tools/cli-mcp.md:210`).
3. `discard_aborts`: a discard between `Confirm` and `Dispatch` is answered with
   success and the build runs afterwards (`server.go:340`, against
   `docs/tools/cli-mcp.md:194`).
4. `listing_torn`: the "snapshot copy" of `List` is a copy of pointers; a listing
   can marshal the bytes of one status with the length of another
   (`server.go:321`, against `staging.go:116`).
5. `hindsight_lost`: two bridges that append at once lose one of the facts after
   it was answered as stored (`hindsight_mcp_server.py:72`, against
   `docs/adr/0013-hindsight-semantic-memory-mcp.md:55`).
6. `hindsight_bank`: a flush posts every buffered fact to the bank of the retain
   that triggered it (`hindsight_mcp_server.py:130`, against line 263).
7. `standard_parameters`: three promised kernel parameters are not in force.
   `20-kernel-sysctl.sh:37,38` sets `vm.swappiness = 0` and, read after
   `70-cloudnative-pg.conf`, `vm.overcommit_memory = 1`, and nothing sets
   `kernel.sysrq` (against `standards.go:39,40,85` and
   `docs/standards/flavor-hardening-standards.md:65,66,146`).
8. `applied_twice`: the generated script is not idempotent. Every run appends
   another `GRUB_RECORDFAIL_TIMEOUT` line (`00-base-strip.sh:65`), and for the
   vision appliance another `LIBVA_DRIVER_NAME` line
   (`75-appliance-vision.sh:34`), against `imageless.go:21`.

Two more follow from properties that hold, and need no counterexample of their
own:

9. `SealNeedsRights`: on a host whose only rights are cloud-init's sudo rule the
   cleanup never gets to `PasswordAuthentication no`, which
   `docs/standards/flavor-hardening-standards.md:223` calls "Enforced upon final
   snapshot sealing": `99-cleanup.sh:12` removes the rule first.
10. `SameEitherWay`: the script that `imageless.go:22` says provisions a host
    "into the exact target flavor" departs from the image in the places listed
    under Properties; it exports no `K3S_ROLE` (`imageless.go:49`), so that the
    k3s server comes out an agent.

## 7. Order of work

Store, handlers with the gate, redirect with the conduit, bridge, catalog and standards, pipeline,
tunnel and worktrees, each with its proofs. What could follow:

1. `Builder` over `FlavorCatalog` instead of a constant set of known flavors,
   which makes the MCP run walk the catalog for nothing new; it would pay once
   dispatching does more than formulate a result.
2. A health-driven restart in `TunnelSupervisor`, if the loop gains one: then
   `Reconnects` can speak of forwards that hang.
3. The zram and swap settings in the pipeline, once their effect is no longer
   best effort.
