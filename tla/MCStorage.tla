----------------------------- MODULE MCStorage -----------------------------
(***************************************************************************)
(* Small instances of the volume store ("volumes") and of the preparations *)
(* that clients follow ("operations"), each while the other rests in its   *)
(* initial state.                                                          *)
(***************************************************************************)
EXTENDS VolumeStore, OciOperations

VARIABLE scene

MCInit == VolumeInit /\ OciInit /\ scene \in {"volumes", "operations"}

MCNext ==
  \/ scene = "volumes" /\ VolumeNext /\ UNCHANGED <<ociVars, scene>>
  \/ scene = "operations" /\ OciNext /\ UNCHANGED <<volumeVars, scene>>

MCSpec ==
  /\ MCInit /\ [][MCNext]_<<volumeVars, ociVars, scene>>
  /\ OciFairness
=============================================================================
