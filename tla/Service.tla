------------------------------- MODULE Service ------------------------------
(***************************************************************************)
(* From the options of a service to the answers to its requests: Config     *)
(* builds the configuration and starts nodes with it, and the last one's    *)
(* NewAclManager takes its access lists from there (Acl).  The              *)
(* configuration is not read after that, so it is not kept; later starts of *)
(* the node are given any lists.                                            *)
(***************************************************************************)
EXTENDS Acl, Config

VARIABLE stage  \* "options", "lists"

serviceVars == <<vars, configVars, stage>>

ServiceInit == Init /\ ConfigInit /\ stage = "options"

Build == stage = "options" /\ ConfigNext /\ UNCHANGED <<vars, stage>>

\* NewAclManager of a node that is up: r.Config().Get("ACL", &acls).
Launch ==
  /\ stage = "options" /\ phase = "up" /\ stage' = "lists"
  /\ Start
  /\ kind' = "disk" => "RootPath" \in DOMAIN eff
  /\ kind' = "memory" => "RootPath" \notin DOMAIN eff
  /\ conf' = [r \in Rsc |->
                IF Get(eff, "ACL", "map[string]string") /\ r \in DOMAIN eff["ACL"].val
                THEN eff["ACL"].val[r] ELSE Absent]
  /\ cfg' = Empty /\ count' = [options |-> 0, starts |-> 0] /\ phase' = "build"
  /\ saved' = None /\ eff' = Empty /\ workers' = 0 /\ locker' = "none"
  /\ first' = [cfg |-> Empty, asked |-> Nothing] /\ asked' = Nothing /\ made' = 0

Serve == stage = "lists" /\ Next /\ UNCHANGED <<configVars, stage>>

ServiceNext == Build \/ Launch \/ Serve

ServiceSpec == ServiceInit /\ [][ServiceNext]_serviceVars
=============================================================================
