----------------------------- MODULE MCServices -----------------------------
(***************************************************************************)
(* Small instances of the provider gateway and of the Caddy process behind *)
(* it, each while the other rests in its initial state: the gateway while  *)
(* two routes are acquired, one of them bad ("acquire"), and while it      *)
(* shuts down and its connections fail ("shutdown"); the process while it  *)
(* is started, loaded, dialled through and stopped ("caddy").              *)
(***************************************************************************)
EXTENDS ProviderGateway, CaddyProcess

CONSTANT Second

VARIABLE scene

MCInit == ProviderInit /\ CaddyInit /\ scene \in {"acquire", "shutdown", "caddy"}

InScene ==
  /\ scene = "acquire" =>
       resolver'.shutdown = "no" /\ ~gateway'.terminal /\ UNCHANGED link
  /\ scene = "shutdown" => request'[Second] = request[Second]

MCNext ==
  \/ scene # "caddy" /\ ProviderNext /\ InScene /\ UNCHANGED <<caddyVars, scene>>
  \/ scene = "caddy" /\ CaddyNext /\ UNCHANGED <<providerVars, scene>>

MCSpec ==
  /\ MCInit /\ [][MCNext]_<<providerVars, caddyVars, scene>>
  /\ ProviderFairness /\ CaddyFairness
=============================================================================
