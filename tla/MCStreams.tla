----------------------------- MODULE MCStreams -----------------------------
(***************************************************************************)
(* Small instances of what a stream passes on its way from a tool to its   *)
(* resource, each in a scene of its own: the connector and the sandbox     *)
(* gateway, the relay of a host socket, the sidecar behind an MCP resource *)
(* and the bridge to an HTTP server.  The others rest in their initial     *)
(* states, where no step of theirs is owed.                                *)
(***************************************************************************)
EXTENDS SandboxGateway, SocketRelay, Sidecar, HttpBridge

VARIABLE scene

MCInit ==
  /\ scene \in {"gateway", "relay", "sidecar", "bridge"}
  /\ GatewayInit /\ RelayInit /\ SidecarInit /\ BridgeInit
  /\ scene # "sidecar" => \A s \in Streams : ~side[s].private

MCNext ==
  \/ scene = "gateway" /\ GatewayNext /\ UNCHANGED <<relayVars, sidecarVars, bridgeVars, scene>>
  \/ scene = "relay" /\ RelayNext /\ UNCHANGED <<gatewayVars, sidecarVars, bridgeVars, scene>>
  \/ scene = "sidecar" /\ SidecarNext /\ UNCHANGED <<gatewayVars, relayVars, bridgeVars, scene>>
  \/ scene = "bridge" /\ BridgeNext /\ UNCHANGED <<gatewayVars, relayVars, sidecarVars, scene>>

MCSpec ==
  /\ MCInit /\ [][MCNext]_<<gatewayVars, relayVars, sidecarVars, bridgeVars, scene>>
  /\ RelayFairness
=============================================================================
