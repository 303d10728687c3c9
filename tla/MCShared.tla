------------------------------ MODULE MCShared ------------------------------
(***************************************************************************)
(* Small instances of three things launches share without talking to each  *)
(* other, each in a scene of its own: the listings and routes of a models  *)
(* resource, the store of images, and the mounts of a sandbox over Toby's  *)
(* own storage.                                                            *)
(*                                                                         *)
(* The requests, binds, projects and files of the plan meet, overlap or    *)
(* lead into Toby's storage through a symbolic link.                       *)
(***************************************************************************)
EXTENDS ModelResources, ImageStore, SandboxPlan, TLC

VARIABLE scene

CacheDir == Home \o <<"cache">>

MCComponents ==
  LayoutNames \cup {"cache", "sub", "opt", "a", "b", "c", "z", "docker", "etc", "link", "x", "file",
                   "top", "u", "w", "p", "q", "sock", "f", "auth", "srv", "pub"}

MCRequests ==
  {[key |-> "a", target |-> CacheDir, access |-> "regular"],
   [key |-> "b", target |-> CacheDir \o <<"sub">>, access |-> "regular"],
   [key |-> "c", target |-> <<"opt">>, access |-> "read_only"]}

Bind(target, host, real, dir, links, optional, exists) ==
  [target |-> target, host |-> host, real |-> real, dir |-> dir, links |-> links,
   optional |-> optional, exists |-> exists, access |-> "read_only"]

MCToolBinds ==
  {Bind(Home \o <<"docker">>, <<"u", "docker">>, <<"u", "docker">>, TRUE, 2, TRUE, FALSE),
   Bind(Home \o <<"docker">>, <<"u", "docker">>, <<"u", "docker">>, TRUE, 2, FALSE, TRUE),
   Bind(<<"etc", "link">>, <<"u", "link">>, VolumePath("z"), TRUE, 2, FALSE, TRUE),
   Bind(RuntimeDir \o <<"x">>, <<"u", "file">>, <<"u", "file">>, FALSE, 1, FALSE, TRUE),
   Bind(<<"toby">>, <<"u", "top">>, <<"u", "top">>, TRUE, 2, FALSE, TRUE)}

MCLaunchProjects ==
  {[name |-> "p", host |-> <<"w", "p">>, real |-> <<"w", "p">>, readOnly |-> FALSE],
   [name |-> "q", host |-> <<"w", "q">>, real |-> RunRoot, readOnly |-> TRUE]}

MCAssets ==
  {[target |-> RuntimeDir \o <<"sock">>, host |-> HostRuntime \o <<"sock">>, access |-> "dev"],
   [target |-> RuntimeDir \o <<"sock", "sub">>, host |-> RunRuntime \o <<"sub">>, access |-> "read_only"]}

MCToolFiles == {CacheDir \o <<"sub", "f">>, Home \o <<"docker", "f">>, Home \o <<"f">>}

MCServiceBinds ==
  {Bind(AuthSocket, <<"u", "auth">>, <<"u", "auth">>, FALSE, 1, FALSE, TRUE),
   Bind(<<"srv">>, <<"u", "srv">>, <<"u", "srv">>, TRUE, 2, FALSE, TRUE),
   Bind(<<"srv", "sub">>, <<"u", "sub">>, <<"u", "sub">>, TRUE, 2, FALSE, TRUE),
   Bind(<<"pub">>, <<"u", "link">>, RootFS, TRUE, 2, FALSE, TRUE),
   Bind(<<"run">>, <<"u", "run">>, <<"u", "run">>, TRUE, 2, FALSE, TRUE)}

MCInit ==
  /\ scene \in {"flush", "late", "images", "plan"}
  /\ ModelInit /\ ImageInit /\ PlanInit
  /\ scene # "plan" => planKind = "launch"

MCNext ==
  \/ /\ scene \in {"flush", "late"} /\ ModelNext
     /\ scene = "flush" =>
          /\ \A r \in Resources : late'[r] = 0
          /\ Cardinality({b \in Routes : route'[b] # "unused"}) <= 1
     /\ scene = "late" => UNCHANGED flushes
     /\ UNCHANGED <<imageVars, planVars, scene>>
  \/ scene = "images" /\ ImageNext /\ UNCHANGED <<modelVars, planVars, scene>>
  \/ scene = "plan" /\ PlanNext /\ UNCHANGED <<modelVars, imageVars, scene>>

MCSpec == MCInit /\ [][MCNext]_<<modelVars, imageVars, planVars, scene>>

Symmetry ==
  UNION {Permutations(S) : S \in {Callers, References, Objects, ImageUsers}}
=============================================================================
