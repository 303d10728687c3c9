---------------------------- MODULE SandboxPlan ----------------------------
(***************************************************************************)
(* From what tools declare to what a sandbox shows                         *)
(* (src/internal/sandbox/bwrap, src/internal/sandbox/mount,                *)
(* src/internal/toolfiles and the assembly in src/internal/session/run).   *)
(*                                                                         *)
(* Tools declare volumes, binds and files; the launch collects them, opens *)
(* their sources, builds a plan, checks it by name and then by descriptor, *)
(* writes the generated files, attaches the tools to the run and renders a *)
(* list of mounts which Bubblewrap carries out one after the other.  The   *)
(* smaller plans of an MCP sidecar and of a background service are checked *)
(* and rendered by code of their own.                                      *)
(*                                                                         *)
(* A path is the sequence of its components.  A host source has the path   *)
(* it was declared under and the place its descriptor really is: the two   *)
(* differ where a symbolic link is on the way.                             *)
(***************************************************************************)
EXTENDS Naturals, FiniteSets, Sequences, SequencesExt

CONSTANTS
  Components,    \* names of files, directories, volumes and projects
  Requests,      \* volumes tools may ask for: [key, target, access]
  ToolBinds,     \* binds tools may ask for
  LaunchProjects,\* projects a launch may select
  Assets,        \* runtime assets: [target, host, access]
  ToolFiles,     \* targets of the files tools may register
  ServiceBinds   \* binds a sidecar or a service may be given

\* The layout inside a sandbox.
Root == <<"toby">>
Home == Root \o <<"home">>
Workspace == Root \o <<"workspace">>
Bin == Root \o <<"bin">>
RuntimeDir == <<"run", "toby">>
ServiceRuntime == RuntimeDir \o <<"service">>
AuthSocket == RuntimeDir \o <<"auth.sock">>

\* Toby's own storage on the host.
PersistentData == <<"data">>
ImageStore == PersistentData \o <<"oci">>
RootFS == ImageStore \o <<"rootfs">>
HomePath == PersistentData \o <<"home">>
VolumePath(key) == PersistentData \o <<"volumes", key>>
RunStorage == <<"state">>
RunRoot == RunStorage \o <<"run1">>
Upper == RunRoot \o <<"upper">>
Work == RunRoot \o <<"work">>
RunRuntime == RunRoot \o <<"runtime">>
HostRuntime == <<"user">>
HelperPath == <<"usr", "tobys">>
ProtectedRoots == {ImageStore, PersistentData, RunStorage, HostRuntime}

VARIABLES
  planKind,       \* "launch", "sidecar" or "service"
  planPhase,      \* how far the assembly is
  mountRequests,  \* volumes declared by tools
  toolBinds,      \* binds declared by tools
  registered,     \* files registered by tools
  collected,      \* the requests whose volumes were opened
  plan,           \* the plan of the run
  written,        \* generated files on the host: [target, host]
  operations,     \* mounts Bubblewrap still has to carry out
  mounts          \* mounts carried out, in order

planVars == <<planKind, planPhase, mountRequests, toolBinds, registered, collected,
              plan, written, operations, mounts>>

Overlap(a, b) == IsPrefix(a, b) \/ IsPrefix(b, a)
StrictlyBeneath(parent, child) == IsPrefix(parent, child) /\ parent # child
PairwiseApart(S, Path(_)) == \A x, y \in S : x # y => ~Overlap(Path(x), Path(y))
ProjectTarget(project) == Workspace \o <<project.name>>

Path == Seq(Components)
LayoutNames ==
  {"toby", "home", "workspace", "bin", "tobys", "run", "service", "auth.sock", "proc", "dev",
   "tmp", "tmpfs", "data", "oci", "rootfs", "volumes", "state", "run1", "upper", "work",
   "runtime", "user", "usr"}
Accesses == {"regular", "read_only", "dev"}
BindRecord == [target : Path, host : Path, real : Path, dir : BOOLEAN, links : Nat,
               optional : BOOLEAN, exists : BOOLEAN, access : Accesses]

\* What the launch is given. The tools are built in: a volume is a directory and
\* no tool names it as one of its files. The assets of a launch are files in the
\* runtime directory of the run and sockets in the one of the user.
ASSUME PlanAssumption ==
  /\ LayoutNames \subseteq Components
  /\ IsFiniteSet(Requests) /\ Requests \subseteq [key : Components, target : Path, access : Accesses]
  /\ IsFiniteSet(ToolBinds) /\ ToolBinds \subseteq BindRecord
  /\ IsFiniteSet(LaunchProjects)
  /\ LaunchProjects \subseteq [name : Components, host : Path, real : Path, readOnly : BOOLEAN]
  /\ IsFiniteSet(Assets) /\ Assets \subseteq [target : Path, host : Path, access : Accesses]
  /\ IsFiniteSet(ServiceBinds) /\ ServiceBinds \subseteq BindRecord
  /\ ToolFiles \subseteq Path
  /\ \A request \in Requests : request.target \notin ToolFiles
  /\ \A asset \in Assets :
       StrictlyBeneath(RunRuntime, asset.host) \/ StrictlyBeneath(HostRuntime, asset.host)

NoPlan == [managed |-> {}, binds |-> {}, projects |-> {}, assets |-> {}, files |-> {},
           runtime |-> FALSE]

PlanInit ==
  /\ planKind \in {"launch", "sidecar", "service"}
  /\ planPhase = "host"
  /\ mountRequests = {} /\ toolBinds = {} /\ registered = {} /\ collected = {}
  /\ plan = NoPlan /\ written = {} /\ operations = <<>> /\ mounts = <<>>

----------------------------------------
(* Declarations of the tools. *)

Declaring == planKind = "launch" /\ planPhase \in {"host", "configure"}

\* A declaration that repeats an earlier one is ignored, one that conflicts
\* with it or overlaps another target fails the launch.
AddMount(request) ==
  /\ Declaring /\ request \notin mountRequests
  /\ IF \/ \E other \in mountRequests :
             other.key = request.key \/ Overlap(other.target, request.target)
        \/ \E bind \in toolBinds : Overlap(bind.target, request.target)
       THEN planPhase' = "rejected" /\ UNCHANGED mountRequests
       ELSE mountRequests' = mountRequests \cup {request} /\ UNCHANGED planPhase
  /\ UNCHANGED <<planKind, toolBinds, registered, collected, plan, written, operations, mounts>>

AddBind(bind) ==
  /\ Declaring /\ bind \notin toolBinds
  /\ IF \/ \E other \in toolBinds : other.target = bind.target
        \/ \E request \in mountRequests : Overlap(request.target, bind.target)
       THEN planPhase' = "rejected" /\ UNCHANGED toolBinds
       ELSE toolBinds' = toolBinds \cup {bind} /\ UNCHANGED planPhase
  /\ UNCHANGED <<planKind, mountRequests, registered, collected, plan, written, operations, mounts>>

Register(target) ==
  /\ Declaring /\ planPhase = "configure"
  /\ IF \E other \in registered : Overlap(other, target)
       THEN planPhase' = "rejected" /\ UNCHANGED registered
       ELSE registered' = registered \cup {target} /\ UNCHANGED planPhase
  /\ UNCHANGED <<planKind, mountRequests, toolBinds, collected, plan, written, operations, mounts>>

\* Between the host phase and the configuration of the tools the launch opens
\* the volumes and the binds declared so far; a missing optional bind is left
\* out, a missing required one ends the launch.
OpenDeclared ==
  /\ planKind = "launch" /\ planPhase = "host"
  /\ IF \E bind \in toolBinds : ~bind.exists /\ ~bind.optional
       THEN planPhase' = "rejected" /\ UNCHANGED <<collected, plan>>
       ELSE /\ planPhase' = "configure"
            /\ collected' = mountRequests
            /\ plan' = [plan EXCEPT !.binds = {bind \in toolBinds : bind.exists}]
  /\ UNCHANGED <<planKind, mountRequests, toolBinds, registered, written, operations, mounts>>

----------------------------------------
(* What a plan must satisfy by name. *)

BindHost(bind) == bind.host
Target(mount) == mount.target

ValidateProjects(p) == \A x, y \in p.projects : x # y => x.name # y.name

ValidateMounts(p) ==
  /\ \A x, y \in p.managed : x # y => x.key # y.key
  /\ PairwiseApart(p.managed \cup p.binds, Target)

ValidateRuntimeAssets(p) ==
  /\ \A asset \in p.assets : StrictlyBeneath(RuntimeDir, asset.target)
  /\ PairwiseApart(p.assets, Target)

ValidateTargetGraph(p) ==
  \A mount \in p.managed \cup p.binds :
    /\ ~IsPrefix(mount.target, Root) /\ ~IsPrefix(mount.target, Home)
    /\ \A reserved \in {Workspace, Bin, RuntimeDir} : ~Overlap(mount.target, reserved)
    /\ \A project \in p.projects : ~Overlap(mount.target, ProjectTarget(project))

\* The directories generated files may live in: where the sandbox sees them
\* and where they are on the host.
Backings(p) == {[target |-> Home, host |-> HomePath]} \cup
               {[target |-> entry.target, host |-> VolumePath(entry.key)] : entry \in p.managed}

\* The backing with the longest target that holds a file.
GeneratedFileBacking(p, target) ==
  CHOOSE backing \in Backings(p) :
    /\ StrictlyBeneath(backing.target, target)
    /\ \A other \in Backings(p) :
         StrictlyBeneath(other.target, target) => Len(other.target) <= Len(backing.target)

Backed(p, target) == \E backing \in Backings(p) : StrictlyBeneath(backing.target, target)

\* No two backings are the same directory.
BackingsDistinct(p) == Cardinality({b.host : b \in Backings(p)}) = Cardinality(Backings(p))

Through(backing, target) ==
  backing.host \o SubSeq(target, Len(backing.target) + 1, Len(target))

ValidateGeneratedFiles(p) ==
  /\ \A file \in p.files :
       /\ Backed(p, file.target)
       /\ file.host = Through(GeneratedFileBacking(p, file.target), file.target)
       /\ \A bind \in p.binds : ~Overlap(file.target, bind.target)
  /\ PairwiseApart(p.files, Target)

ExternalHostPaths(p) ==
  {HelperPath} \cup {project.host : project \in p.projects} \cup
  {bind.host : bind \in p.binds} \cup {asset.host : asset \in p.assets}

OwnedHostPaths(p) == {HomePath} \cup {VolumePath(entry.key) : entry \in p.managed}

\* The run root, the image and the backings may share no path with anything
\* else; the assets Toby made for this run live inside the run root.
ValidateHostStorageGraph(p) ==
  LET claims == ExternalHostPaths(p) \cup OwnedHostPaths(p) \cup {file.host : file \in p.files}
      inRuntime == {asset.host : asset \in {a \in p.assets : StrictlyBeneath(RunRuntime, a.host)}}
  IN /\ \A claim \in claims \ inRuntime : ~Overlap(RunRoot, claim)
     /\ \A claim \in claims : ~Overlap(RootFS, claim)
     /\ \A owned \in OwnedHostPaths(p) :
          /\ \A other \in OwnedHostPaths(p) \ {owned} : ~Overlap(owned, other)
          /\ \A external \in ExternalHostPaths(p) : ~Overlap(owned, external)
     /\ \A file \in p.files :
          Cardinality({owned \in OwnedHostPaths(p) : StrictlyBeneath(owned, file.host)}) = 1

Validate(p) ==
  /\ ValidateProjects(p)
  /\ ValidateMounts(p)
  /\ ValidateRuntimeAssets(p)
  /\ ValidateTargetGraph(p)
  /\ ValidateGeneratedFiles(p)
  /\ ValidateHostStorageGraph(p)

----------------------------------------
(* What a plan must satisfy by descriptor. *)

\* The directories above a descriptor; a bind that is no directory is judged
\* by its parent.
Lineage(bind) == IF bind.dir THEN bind.real ELSE Front(bind.real)

ValidateProjectDescriptorIsolation(p) ==
  \A project \in p.projects : \A root \in ProtectedRoots : ~Overlap(project.real, root)

\* Mutant: binds are only checked by the path they were declared under.
ValidateBindsByName(p) ==
  \A bind \in p.binds : \A root \in ProtectedRoots : ~Overlap(bind.host, root)

ValidateBindDescriptorIsolation(p) ==
  \A bind \in p.binds :
    \A root \in ProtectedRoots \cup OwnedHostPaths(p) \cup {RootFS, Upper, Work} :
      ~Overlap(Lineage(bind), root)

ValidateExternalBindLinkShape(p) == \A bind \in p.binds : bind.dir \/ bind.links = 1

ValidateSources(p) ==
  /\ ValidateProjectDescriptorIsolation(p)
  /\ ValidateExternalBindLinkShape(p)
  /\ ValidateBindDescriptorIsolation(p)

----------------------------------------
(* Assembly of a run. *)

\* buildNativePlan for what was opened, the selected projects and the assets.
BuildPlan(projects, assets) ==
  /\ planKind = "launch" /\ planPhase = "configure"
  /\ LET base == [plan EXCEPT !.managed = collected, !.projects = projects, !.assets = assets]
     IN IF Validate(base)
          THEN plan' = base /\ planPhase' = "built"
          ELSE UNCHANGED plan /\ planPhase' = "rejected"
  /\ UNCHANGED <<planKind, mountRequests, toolBinds, registered, collected, written, operations, mounts>>

\* resolveFiles: a file goes to the one volume that holds its target, or home.
ResolveFiles(p) ==
  {[target |-> target, host |-> Through(GeneratedFileBacking(p, target), target)] :
     target \in registered}

\* The files are resolved and checked together before the first is written.
\* A file that cannot be written leaves the earlier ones behind.
WriteFiles ==
  /\ planPhase = "built" /\ planKind = "launch"
  /\ IF ~(\A target \in registered : Backed(plan, target))
       THEN planPhase' = "rejected" /\ UNCHANGED <<plan, written>>
       ELSE LET candidate == [plan EXCEPT !.files = ResolveFiles(plan)]
            IN IF ~(Validate(candidate) /\ BackingsDistinct(plan))
                 THEN planPhase' = "rejected" /\ UNCHANGED <<plan, written>>
                 ELSE \/ /\ written' = candidate.files /\ plan' = candidate
                         /\ planPhase' = "written"
                      \/ /\ candidate.files # {}
                         /\ \E some \in SUBSET candidate.files :
                              some # candidate.files /\ written' = some
                         /\ planPhase' = "rejected" /\ UNCHANGED plan
  /\ UNCHANGED <<planKind, mountRequests, toolBinds, registered, collected, operations, mounts>>

\* bwrap.NewRun: the sources of the plan are checked and kept.
NewRun ==
  /\ planPhase = "written"
  /\ planPhase' = IF ValidateSources(plan) THEN "retained" ELSE "rejected"
  /\ UNCHANGED <<planKind, mountRequests, toolBinds, registered, collected, plan, written,
                 operations, mounts>>

\* The plan must be what the tools have declared by now.
PlanMatchesDeclarations ==
  /\ plan.managed = mountRequests
  /\ plan.binds \subseteq toolBinds
  /\ \A bind \in toolBinds : bind.optional \/ bind \in plan.binds

Attach ==
  /\ planPhase = "retained"
  /\ planPhase' = IF PlanMatchesDeclarations THEN "attached" ELSE "rejected"
  /\ UNCHANGED <<planKind, mountRequests, toolBinds, registered, collected, plan, written,
                 operations, mounts>>

----------------------------------------
(* Sidecars and background services. *)

ReservedTargets == {<<"proc">>, <<"dev">>, <<"tmp">>, <<"run">>}

ValidateSidecarBinds(p) ==
  /\ \A bind \in p.binds : \A reserved \in ReservedTargets : ~Overlap(bind.target, reserved)
  /\ PairwiseApart(p.binds, Target)

ValidateServiceBinds(p) ==
  /\ \A bind \in p.binds :
       /\ bind.access = "read_only" /\ ~bind.optional
       /\ bind.target = AuthSocket \/ \A reserved \in ReservedTargets : ~Overlap(bind.target, reserved)
  /\ PairwiseApart(p.binds, Target)

\* The image, every bind and the runtime directory are apart on the host, and
\* only the runtime directory is inside the run root.
ValidateServiceHostGraph(p) ==
  /\ \A bind \in p.binds : ~Overlap(RunRoot, bind.host) /\ ~Overlap(RootFS, bind.host)
  /\ PairwiseApart(p.binds, BindHost)

BuildService(binds, runtime) ==
  /\ planKind # "launch" /\ planPhase = "host"
  /\ LET p == [NoPlan EXCEPT !.binds = binds, !.runtime = runtime]
         accepted == /\ IF planKind = "sidecar" THEN ValidateSidecarBinds(p) ELSE ValidateServiceBinds(p)
                     /\ ValidateServiceHostGraph(p)
     IN IF accepted
          THEN plan' = p /\ planPhase' = "attached"
          ELSE UNCHANGED plan /\ planPhase' = "rejected"
  /\ UNCHANGED <<planKind, mountRequests, toolBinds, registered, collected, written, operations, mounts>>

----------------------------------------
(* Rendering, and Bubblewrap carrying it out. *)

Op(target, source, access) == [target |-> target, source |-> source, access |-> access]

\* The order within one kind of mount is that of the canonical plan, which the
\* checks above make irrelevant: any order is allowed here.
AnyOrder(S) == CHOOSE s \in [1..Cardinality(S) -> S] : \A i, j \in DOMAIN s : i # j => s[i] # s[j]

Private == <<"tmpfs">>

\* The descriptors of the overlay are registered as mounts on /dev, which the
\* device directory then covers.
RenderBase ==
  <<Op(<<>>, RootFS, "overlay"), Op(<<"dev">>, RootFS, "read_only"), Op(<<"dev">>, Upper, "read_only"),
    Op(<<"dev">>, Work, "read_only"), Op(<<"proc">>, Private, "regular"),
    Op(<<"dev">>, Private, "regular"), Op(<<"tmp">>, Private, "regular")>>

BindOps(p) == {Op(bind.target, bind.real, bind.access) : bind \in p.binds}

Render(p) ==
  RenderBase
    \o <<Op(Home, HomePath, "regular")>>
    \o AnyOrder({Op(entry.target, VolumePath(entry.key), entry.access) : entry \in p.managed})
    \o AnyOrder({Op(ProjectTarget(project), project.real,
                    IF project.readOnly THEN "read_only" ELSE "regular") : project \in p.projects})
    \o AnyOrder(BindOps(p))
    \o AnyOrder({Op(asset.target, asset.host, asset.access) : asset \in p.assets})
    \o <<Op(Bin \o <<"tobys">>, HelperPath, "read_only")>>

RenderSidecar(p) ==
  RenderBase \o AnyOrder(BindOps(p))
    \o IF p.runtime THEN <<Op(RuntimeDir, RunRuntime, "regular")>> ELSE <<>>

RenderBackgroundService(p) ==
  RenderBase \o <<Op(<<"run">>, Private, "regular")>> \o AnyOrder(BindOps(p))
    \o IF p.runtime THEN <<Op(ServiceRuntime, RunRuntime, "regular")>> ELSE <<>>

RenderPlan ==
  /\ planPhase = "attached"
  /\ planPhase' = "mounting"
  /\ operations' = CASE planKind = "launch" -> Render(plan)
                     [] planKind = "sidecar" -> RenderSidecar(plan)
                     [] OTHER -> RenderBackgroundService(plan)
  /\ UNCHANGED <<planKind, mountRequests, toolBinds, registered, collected, plan, written, mounts>>

MountNext ==
  /\ planPhase = "mounting" /\ operations # <<>>
  /\ mounts' = Append(mounts, Head(operations))
  /\ operations' = Tail(operations)
  /\ planPhase' = IF Len(operations) = 1 THEN "running" ELSE "mounting"
  /\ UNCHANGED <<planKind, mountRequests, toolBinds, registered, collected, plan, written>>

PlanNext ==
  \/ \E request \in Requests : AddMount(request)
  \/ \E bind \in ToolBinds : AddBind(bind)
  \/ \E target \in ToolFiles : Register(target)
  \/ OpenDeclared
  \/ \E projects \in SUBSET LaunchProjects, assets \in SUBSET Assets : BuildPlan(projects, assets)
  \/ WriteFiles
  \/ NewRun
  \/ Attach
  \/ \E binds \in SUBSET ServiceBinds, runtime \in BOOLEAN : BuildService(binds, runtime)
  \/ RenderPlan
  \/ MountNext

PlanSpec == PlanInit /\ [][PlanNext]_planVars

----------------------------------------
(* Properties. *)

\* What the sandbox sees at a path: the last mount that covers it.
Covering(path) ==
  mounts[CHOOSE i \in DOMAIN mounts :
           /\ IsPrefix(mounts[i].target, path)
           /\ \A j \in DOMAIN mounts : j > i => ~IsPrefix(mounts[j].target, path)]

\* Once the payload runs, whatever the tools declared at any time is there:
\* every volume and every required bind shows its own source with its own
\* access, and so do projects, assets and the helper; a generated file is seen
\* at its target through the very directory it was written to; no later mount
\* hides an earlier one.
DeclaredIsVisible ==
  planPhase = "running" =>
    /\ \A request \in mountRequests :
         Covering(request.target) = Op(request.target, VolumePath(request.key), request.access)
    /\ \A bind \in {b \in toolBinds : ~b.optional} \cup plan.binds :
         Covering(bind.target) = Op(bind.target, bind.real, bind.access)
    /\ \A project \in plan.projects : Covering(ProjectTarget(project)).source = project.real
    /\ \A asset \in plan.assets : Covering(asset.target).source = asset.host
    /\ plan.runtime => Covering(IF planKind = "sidecar" THEN RuntimeDir ELSE ServiceRuntime).source = RunRuntime
    /\ planKind = "launch" => Covering(Bin \o <<"tobys">>).source = HelperPath
    /\ \A target \in registered :
         \E file \in written :
           /\ file.target = target
           /\ file.host = Through([target |-> Covering(target).target, host |-> Covering(target).source], target)

\* A sandbox sees nothing of Toby's own storage but its home, its volumes, the
\* assets made for its run and its root: no project and no bind of a launch
\* leads there, whatever symbolic link it was declared through, and the raw
\* image and the overlay directories are not visible either. The binds of a
\* sidecar and of a service are only as private as the path they are named by.
ProtectedStorageStaysPrivate ==
  planPhase = "running" =>
    \A i \in DOMAIN mounts :
      LET mount == mounts[i] IN
      (/\ Covering(mount.target) = mount
       /\ \E root \in ProtectedRoots : Overlap(mount.source, root))
        => \/ mount.access = "overlay"
           \/ mount.source \in OwnedHostPaths(plan)
           \/ \E asset \in plan.assets :
                /\ mount.source = asset.host
                /\ StrictlyBeneath(RunRuntime, asset.host) \/ StrictlyBeneath(HostRuntime, asset.host)
           \/ planKind # "launch" /\ mount.source = RunRuntime
           \/ /\ planKind # "launch"
              /\ \E bind \in plan.binds :
                   /\ mount.source = bind.real
                   /\ \A root \in {RunRoot, RootFS} : ~Overlap(bind.host, root)

\* The mounts that Bubblewrap gets are the ones that were declared, and no more
\* (Seal, Validate, the builders of the two kinds of sandbox).
MountsAreAsPlanned == DeclaredIsVisible /\ ProtectedStorageStaysPrivate
=============================================================================
