-------------------------------- MODULE Acl --------------------------------
(***************************************************************************)
(* Access lists and the requests they decide: modules/auth/aclManager.go    *)
(* and jwtManager.go, with the interceptors of modules/node/grpc and        *)
(* modules/node/http that ask them.                                         *)
(*                                                                         *)
(* A node is started and stopped any number of times over its store: that   *)
(* of a repository on disk, of one in memory, or in P2P mode the one that   *)
(* all nodes share, where others change lists at any time.  While the node  *)
(* is up, lists are configured and deleted, and one request is decided: the *)
(* interceptor first reads the list, then looks at the token, which may     *)
(* expire at any time.                                                      *)
(***************************************************************************)
EXTENDS Naturals, Sequences, FiniteSets

CONSTANTS
  Rsc,      \* resources
  Listed,   \* roles in the configuration: known ones and others
  Managed,  \* roles that are configured at run time
  Users,    \* roles of users
  Absent    \* no list, no answer

\* The roles from the least to the most; the code counts them from 0.
Role == <<"none", "public_read", "public_write", "authenticated_read",
          "authenticated_write", "admin">>
admin == Len(Role) - 1
Roles == {Role[i] : i \in DOMAIN Role}
aclMap(role) == (CHOOSE i \in DOMAIN Role : Role[i] = role) - 1
raclMap(level) == Role[level + 1]

\* What a client sends as "authorization": nothing, a token alone, a word and a
\* token, or something else; and whether Verify takes the token, with the user's
\* role, until it expires.
Token == {t \in [form : {"absent", "raw", "bearer", "other"}, valid : BOOLEAN] :
            t.valid => t.form \in {"raw", "bearer"}}

VARIABLES
  kind,     \* the store: "disk", "memory", "shared"; Absent before the first start
  conf,     \* acls of NewAclManager: a role, an unknown one or Absent
  store,    \* the stored level, or Absent
  node,     \* "down", "starting", "up", "failed"
  todo,     \* configured lists that NewAclManager has still to apply
  old,      \* history: the store before the start, while it is starting
  touched,  \* history: lists changed by another node since then, or since
            \* NewAclManager has applied them
  req,      \* the request: where it is, its server, resource, token and role
  roles,    \* what Allowed returned to the interceptor
  answer,   \* what the client gets
  seen      \* history: levels of the resource and tokens since the request came

vars == <<kind, conf, store, node, todo, old, touched, req, roles, answer, seen>>
start == <<kind, conf, node, todo, old>>
request == <<req, roles, answer, seen>>

NoRequest == [at |-> "none", side |-> "grpc", rsc |-> Absent,
              token |-> [form |-> "absent", valid |-> FALSE], role |-> "none"]

Kind == {"disk", "memory", "shared"}

NoLists == [r \in Rsc |-> Absent]

Init ==
  /\ kind = Absent
  /\ store = NoLists /\ conf = NoLists /\ old = NoLists
  /\ node = "down" /\ todo = {} /\ touched = {}
  /\ req = NoRequest /\ roles = {} /\ answer = Absent /\ seen = {}

-----------------------------------------------------------------------------
(* aclManager *)

Allowed(level) ==
  IF level = Absent THEN Roles ELSE {raclMap(i) : i \in level..admin}

Authorized(level, role) ==
  level = Absent \/ (role \in Roles /\ aclMap(role) >= level)

\* Levels and tokens that the request may be decided by.
Seen == IF req.at \notin {"arrived", "read"} THEN {} ELSE {<<store'[req.rsc], req.token>>}

Update(r, level) ==
  /\ store' = [store EXCEPT ![r] = level]
  /\ seen' = seen \cup Seen

\* Configure and Delete of a running node; an unknown role is refused.
Configure(r, role) ==
  /\ node = "up" /\ role \in Roles /\ Update(r, aclMap(role))
  /\ UNCHANGED <<start, touched, req, roles, answer>>

Delete(r) ==
  /\ node = "up" /\ Update(r, Absent)
  /\ UNCHANGED <<start, touched, req, roles, answer>>

\* Another node configures or deletes a list of the store that it shares.
Remote(r, level) ==
  /\ kind = "shared" /\ Update(r, level)
  /\ touched' = IF node \in {"starting", "failed"} THEN touched \cup {r} ELSE touched
  /\ UNCHANGED <<start, req, roles, answer>>

Start ==
  /\ node = "down" /\ node' = "starting"
  /\ kind' \in IF kind = Absent THEN Kind ELSE {kind}
  /\ conf' \in [Rsc -> Listed \cup {Absent}]
  /\ todo' = {r \in Rsc : conf'[r] # Absent} /\ old' = store /\ touched' = {}
  /\ UNCHANGED <<store, request>>

\* Mutation of Apply: a list that is stored already is kept.
ApplyNew(r) ==
  /\ node = "starting" /\ r \in todo /\ conf[r] \in Roles
  /\ store' = [store EXCEPT ![r] = IF @ = Absent THEN aclMap(conf[r]) ELSE @]
  /\ todo' = todo \ {r} /\ touched' = touched \ {r}
  /\ UNCHANGED <<kind, conf, node, old, request>>

\* NewAclManager configures the lists in the order of a map.
Apply(r) ==
  /\ node = "starting" /\ r \in todo /\ conf[r] \in Roles
  /\ store' = [store EXCEPT ![r] = aclMap(conf[r])]
  /\ todo' = todo \ {r} /\ touched' = touched \ {r}
  /\ UNCHANGED <<kind, conf, node, old, request>>

\* The role is not known, or the store fails.
ApplyFails(r) ==
  /\ node = "starting" /\ r \in todo
  /\ node' = "failed"
  /\ UNCHANGED <<kind, conf, store, todo, old, touched, request>>

Started ==
  /\ node = "starting" /\ todo = {} /\ node' = "up"
  /\ conf' = NoLists /\ old' = NoLists /\ touched' = {}
  /\ UNCHANGED <<kind, store, todo, request>>

\* The node ends, and with it its request.  The lists of a store in memory are
\* gone; of a shared one, which can be in memory too, other nodes may have them.
Stop ==
  /\ node \in {"up", "failed"} /\ node' = "down"
  /\ store' \in (IF kind = "memory" THEN {} ELSE {store})
                  \cup (IF kind = "disk" THEN {} ELSE {NoLists})
  /\ conf' = NoLists /\ old' = NoLists /\ touched' = {}
  /\ todo' = {} /\ req' = NoRequest /\ roles' = {} /\ answer' = Absent /\ seen' = {}
  /\ UNCHANGED kind

-----------------------------------------------------------------------------
(* The interceptors *)

Arrive(side, r, token, role) ==
  /\ node = "up" /\ req.at = "none"
  /\ req' = [at |-> "arrived", side |-> side, rsc |-> r, token |-> token, role |-> role]
  /\ seen' = {<<store[r], token>>}
  /\ UNCHANGED <<start, store, touched, roles, answer>>

ReadAcl ==
  /\ req.at = "arrived" /\ req' = [req EXCEPT !.at = "read"]
  /\ roles' = Allowed(store[req.rsc])
  /\ UNCHANGED <<start, store, touched, answer, seen>>

\* The store cannot be read: as if there were no list.
ReadAclFails ==
  /\ req.at = "arrived" /\ req' = [req EXCEPT !.at = "read"]
  /\ roles' = Allowed(Absent) /\ seen' = seen \cup {<<Absent, req.token>>}
  /\ UNCHANGED <<start, store, touched, answer>>

\* authorize of the gRPC interceptor; Unary and Stream call it.  The whole value
\* is verified.
authorize(rs, token, role) ==
  CASE "none" \in rs -> "served"
    [] "none" \notin rs /\ ~(token.form = "raw" /\ token.valid) -> "unauthenticated"
    [] OTHER -> IF role \in rs THEN "served" ELSE "denied"

\* Mutation of JWT: the token comes first.
JWTFirst(rs, token, role) ==
  CASE token.form # "bearer" -> "bad request"
    [] token.form = "bearer" /\ ~token.valid -> "unauthorized"
    [] OTHER -> IF role \in rs THEN "served" ELSE "unauthorized"

\* The HTTP middleware.  The second of two words is verified.
JWT(rs, token, role) ==
  CASE "none" \in rs -> "served"
    [] "none" \notin rs /\ token.form # "bearer" -> "bad request"
    [] "none" \notin rs /\ token.form = "bearer" /\ ~token.valid -> "unauthorized"
    [] OTHER -> IF role \in rs THEN "served" ELSE "unauthorized"

Decide(side, rs, token, role) ==
  IF side = "grpc" THEN authorize(rs, token, role) ELSE JWT(rs, token, role)

\* Mutation of Answer: the list is that of another resource.
AnswerOther ==
  /\ req.at = "read" /\ req' = [req EXCEPT !.at = "answered"]
  /\ \E r \in Rsc :
       answer' = Decide(req.side, Allowed(store[r]), req.token, req.role)
  /\ UNCHANGED <<start, store, touched, roles, seen>>

Answer ==
  /\ req.at = "read" /\ req' = [req EXCEPT !.at = "answered"]
  /\ answer' = Decide(req.side, roles, req.token, req.role)
  /\ UNCHANGED <<start, store, touched, roles, seen>>

\* The token of the request passes the time that Generate gave it.
Expire ==
  /\ req.at \in {"arrived", "read"} /\ req.token.valid
  /\ req' = [req EXCEPT !.token.valid = FALSE]
  /\ seen' = seen \cup {<<store[req.rsc], req'.token>>}
  /\ UNCHANGED <<start, store, touched, roles, answer>>

-----------------------------------------------------------------------------

Manage ==
  \/ Start \/ Started \/ Stop
  \/ \E r \in Rsc : Apply(r) \/ ApplyFails(r) \/ Delete(r)
  \/ \E r \in Rsc, role \in Managed : Configure(r, role)
  \/ \E r \in Rsc, level \in {aclMap(role) : role \in Managed \cap Roles} \cup {Absent} :
       Remote(r, level)
Request ==
  \/ \E side \in {"grpc", "http"}, r \in Rsc, token \in Token, role \in Users :
       Arrive(side, r, token, role)
  \/ ReadAcl \/ ReadAclFails \/ Answer \/ Expire
Next == Manage \/ Request

Spec == Init /\ [][Next]_vars

-----------------------------------------------------------------------------
(* Properties *)

\* After a start the configured lists are in force, whatever was stored for their
\* resources, and all others are what they were before it; a start that fails,
\* with lists applied and lists to apply, leaves each as it was or as it is
\* configured.  Only a list that another node changes, after it was applied if it
\* is a configured one, is what that node made it.
StartApplies ==
  [][node = "starting" /\ node' # node =>
       \A r \in Rsc \ touched :
         /\ node' = "up" =>
              store[r] = IF conf[r] = Absent THEN old[r] ELSE aclMap(conf[r])
         /\ \/ store[r] = old[r]
            \/ conf[r] \in Roles /\ store[r] = aclMap(conf[r])]_vars

\* The answer is that for the list of s and the token of t.
Explained(s, t) == answer = Decide(req.side, Allowed(s[1]), t[2], req.role)

\* The list and the token are not looked at in one step.  Still an answer is right
\* for the list and the token of one moment since the request came (no list if it
\* could not be read), unless the list has changed and the token has expired in
\* between; and then it can only be a refusal, by the list of one moment and the
\* token of another: no request is served that should have been refused all along.
AnswerExplained ==
  answer # Absent =>
    \/ \E s \in seen : Explained(s, s)
    \/ /\ answer # "served"
       /\ \E s, t \in seen : s[1] # t[1] /\ s[2] # t[2] /\ Explained(s, t)

\* The interceptors use Allowed, programs Authorized: they agree on every role
\* for every list there can be.  The servers take a token in different forms, and
\* with it in the form that each takes they serve the same users.
ServersAgree ==
  /\ \A r \in Rsc, role \in Roles :
       role \in Allowed(store[r]) <=> Authorized(store[r], role)
  /\ \A r \in Rsc, role \in Roles, valid \in BOOLEAN :
       authorize(Allowed(store[r]), [form |-> "raw", valid |-> valid], role) = "served"
         <=> JWT(Allowed(store[r]), [form |-> "bearer", valid |-> valid], role) = "served"
=============================================================================
