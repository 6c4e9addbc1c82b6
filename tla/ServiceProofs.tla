--------------------------- MODULE ServiceProofs ----------------------------
(***************************************************************************)
(* What a service promises about its access lists, its status document and  *)
(* its configuration, for every value of the constants: the lists over      *)
(* restarts and the answers over changes of the lists (Acl), the document   *)
(* while servers start, fail and stop (Servers), and the way of an option   *)
(* to its reader (Config).                                                  *)
(***************************************************************************)
EXTENDS Acl, Servers, Config, TLAPS

-----------------------------------------------------------------------------
(* Access lists *)

Level == {aclMap(role) : role \in Roles} \cup {Absent}

IsRequest ==
  [at : {"none", "arrived", "read", "answered"}, side : Server,
   rsc : Rsc \cup {Absent}, token : Token, role : Users \cup {"none"}]

TypeInv == store \in [Rsc -> Level] /\ todo \subseteq Rsc /\ req \in IsRequest

\* During a start each list that no other node changes is still what it was, or
\* already what is configured.
StartInv ==
  node = "starting" =>
    /\ \A r \in todo : conf[r] # Absent
    /\ \A r \in Rsc \ touched :
         \/ (r \in todo \/ conf[r] = Absent) /\ store[r] = old[r]
         \/ /\ r \notin todo /\ conf[r] # Absent
            /\ conf[r] \in Roles /\ store[r] = aclMap(conf[r])

\* The interceptor has read the list of a moment since the request came.  The token
\* is still that of this moment, or it has expired.
ReadAt(s) == roles = Allowed(s[1]) /\ (s[2] = req.token \/ ~req.token.valid)

RequestInv ==
  /\ req.at # "none" => node = "up"
  /\ req.at \in {"arrived", "read"} =>
       req.rsc \in Rsc /\ <<store[req.rsc], req.token>> \in seen
  /\ req.at = "read" => \E s \in seen : ReadAt(s)
  /\ answer # Absent => req.at = "answered"

IInv == TypeInv /\ StartInv /\ RequestInv /\ AnswerExplained

\* Between requests there is none.
LEMMA NoRequestType == NoRequest \in IsRequest
<1>1. [form |-> "absent", valid |-> FALSE] \in Token
  BY DEF Token
<1> QED BY <1>1 DEF NoRequest, IsRequest, Server

\* Before the first start nothing is stored and nobody asks.
LEMMA InitIInv == Init => IInv
<1> SUFFICES ASSUME Init PROVE IInv
  OBVIOUS
<1>1. TypeInv
  BY NoRequestType DEF Init, TypeInv, NoLists, Level
<1>2. req.at = "none"
  BY DEF Init, NoRequest
<1> QED BY <1>1, <1>2 DEF Init, IInv, StartInv, RequestInv, AnswerExplained

\* Without a request, steps that make none keep what is said of it.
LEMMA QuietStep ==
  ASSUME RequestInv, req.at = "none", UNCHANGED request
  PROVE  RequestInv' /\ AnswerExplained'
BY DEF RequestInv, AnswerExplained, request

\* Start, its steps, its failure and the end of the node.
LEMMA StartStep ==
  ASSUME IInv, NEW r, Start \/ Apply(r) \/ ApplyFails(r) \/ Started \/ Stop
  PROVE  IInv'
<1>1. TypeInv /\ StartInv /\ RequestInv /\ AnswerExplained
  BY DEF IInv
<1>2. CASE Start
  <2>1. TypeInv'
    BY <1>1, <1>2 DEF Start, TypeInv, request
  <2>2. StartInv'
    BY <1>2 DEF Start, StartInv
  <2>3. req.at = "none"
    BY <1>1, <1>2 DEF Start, RequestInv
  <2> QED BY <1>1, <1>2, <2>1, <2>2, <2>3, QuietStep DEF IInv, Start
<1>3. CASE Apply(r)
  <2>1. TypeInv'
    BY <1>1, <1>3 DEF Apply, TypeInv, request, Level
  <2>2. StartInv'
    <3>1. /\ UNCHANGED <<conf, old>> /\ todo' = todo \ {r} /\ node = "starting"
          /\ r \in todo /\ r \in Rsc /\ conf[r] \in Roles /\ conf[r] # Absent
          /\ touched' = touched \ {r}
      BY <1>1, <1>3 DEF Apply, TypeInv, StartInv
    <3>2. store'[r] = aclMap(conf[r]) /\ \A q \in Rsc : q # r => store'[q] = store[q]
      BY <1>1, <1>3 DEF Apply, TypeInv
    <3> QED BY <1>1, <3>1, <3>2 DEF StartInv
  <2>3. req.at = "none"
    BY <1>1, <1>3 DEF Apply, RequestInv
  <2> QED BY <1>1, <1>3, <2>1, <2>2, <2>3, QuietStep DEF IInv, Apply
<1>4. CASE ApplyFails(r)
  <2>1. req.at = "none"
    BY <1>1, <1>4 DEF ApplyFails, RequestInv
  <2>2. TypeInv' /\ StartInv'
    BY <1>1, <1>4 DEF ApplyFails, TypeInv, StartInv, request
  <2> QED BY <1>1, <1>4, <2>1, <2>2, QuietStep DEF IInv, ApplyFails
<1>5. CASE Started
  <2>1. req.at = "none"
    BY <1>1, <1>5 DEF Started, RequestInv
  <2>2. TypeInv' /\ StartInv'
    BY <1>1, <1>5 DEF Started, TypeInv, StartInv, request
  <2> QED BY <1>1, <1>5, <2>1, <2>2, QuietStep DEF IInv, Started
<1>6. CASE Stop
  <2>1. store' \in [Rsc -> Level]
    BY <1>1, <1>6 DEF Stop, TypeInv, NoLists, Level
  <2>2. TypeInv'
    BY <1>6, <2>1, NoRequestType DEF Stop, TypeInv
  <2>3. StartInv'
    BY <1>6 DEF Stop, StartInv
  <2>4. req'.at = "none" /\ answer' = Absent
    BY <1>6 DEF Stop, NoRequest
  <2> QED BY <2>2, <2>3, <2>4 DEF IInv, RequestInv, AnswerExplained
<1> QED BY <1>2, <1>3, <1>4, <1>5, <1>6

\* A list changes while a request is between its steps: the new level is one the
\* answer may be explained by, and what the interceptor has read stays one.  While
\* the node starts, only another node changes a list.
LEMMA UpdateStep ==
  ASSUME IInv, NEW r \in Rsc, NEW level \in Level, Update(r, level),
         UNCHANGED <<conf, node, todo, old, req, roles, answer>>,
         touched' = IF node \in {"starting", "failed"} THEN touched \cup {r}
                    ELSE touched
  PROVE  IInv'
<1>1. TypeInv /\ StartInv /\ RequestInv /\ AnswerExplained
  BY DEF IInv
<1>2. TypeInv'
  BY <1>1 DEF TypeInv, Update
<1>3. StartInv'
  <2>1. \A q \in Rsc : q # r => store'[q] = store[q]
    BY <1>1 DEF TypeInv, Update
  <2> QED BY <1>1, <2>1 DEF StartInv
<1>4. seen \subseteq seen'
  BY DEF Update
<1>5. req.at \in {"arrived", "read"} => <<store'[req.rsc], req.token>> \in seen'
  BY DEF Update, Seen
<1>6. RequestInv'
  BY <1>1, <1>4, <1>5 DEF RequestInv, ReadAt
<1>7. AnswerExplained'
  BY <1>1, <1>4 DEF AnswerExplained, Explained
<1> QED BY <1>2, <1>3, <1>6, <1>7 DEF IInv

\* A request comes.
LEMMA ArriveStep ==
  ASSUME IInv, NEW side \in Server, NEW r \in Rsc, NEW token \in Token,
         NEW role \in Users, Arrive(side, r, token, role)
  PROVE  TypeInv' /\ RequestInv' /\ AnswerExplained'
<1>1. TypeInv /\ RequestInv
  BY DEF IInv
<1>2. answer = Absent
  BY <1>1 DEF Arrive, RequestInv
<1>3. TypeInv'
  BY <1>1 DEF Arrive, TypeInv, start, IsRequest
<1>4. /\ req'.at = "arrived" /\ req'.rsc = r /\ req'.token = token
      /\ node' = "up" /\ store' = store /\ seen' = {<<store[r], token>>}
      /\ answer' = Absent
  BY <1>2 DEF Arrive, start
<1>5. RequestInv' /\ AnswerExplained'
  BY <1>4 DEF RequestInv, AnswerExplained
<1> QED BY <1>3, <1>5

\* The list is read, or cannot be read.
LEMMA ReadStep ==
  ASSUME IInv, ReadAcl \/ ReadAclFails
  PROVE  TypeInv' /\ RequestInv' /\ AnswerExplained'
<1>1. TypeInv /\ RequestInv
  BY DEF IInv
<1>2. /\ req.at = "arrived" /\ req' = [req EXCEPT !.at = "read"]
      /\ answer' = answer /\ seen \subseteq seen' /\ UNCHANGED <<store, node, todo>>
  BY DEF ReadAcl, ReadAclFails, start
<1>3. /\ req'.at = "read" /\ req'.rsc = req.rsc /\ req'.token = req.token
      /\ TypeInv'
  BY <1>1, <1>2 DEF TypeInv, IsRequest
<1>4. req.rsc \in Rsc /\ <<store[req.rsc], req.token>> \in seen /\ node = "up"
      /\ answer = Absent
  BY <1>1, <1>2 DEF RequestInv
<1>5. \E s \in seen' : ReadAt(s)'
  <2>1. CASE ReadAcl
    <3> DEFINE s == <<store[req.rsc], req.token>>
    <3>1. s \in seen' /\ s[1] = store[req.rsc] /\ s[2] = req'.token
      BY <1>2, <1>3, <1>4
    <3> QED BY <2>1, <3>1 DEF ReadAcl, ReadAt
  <2>2. CASE ReadAclFails
    <3> DEFINE s == <<Absent, req.token>>
    <3>1. s \in seen' /\ s[1] = Absent /\ s[2] = req'.token
      BY <1>3, <2>2 DEF ReadAclFails
    <3> QED BY <2>2, <3>1 DEF ReadAclFails, ReadAt
  <2> QED BY <2>1, <2>2
<1> QED BY <1>2, <1>3, <1>4, <1>5 DEF RequestInv, AnswerExplained

\* Without a list the token does not matter, and with one an invalid token is
\* refused by both servers.
LEMMA Decisions ==
  ASSUME NEW side, NEW rs, NEW token, NEW role
  PROVE  /\ "none" \in rs => Decide(side, rs, token, role) = "served"
         /\ "none" \notin rs /\ ~token.valid => Decide(side, rs, token, role) # "served"
BY DEF Decide, authorize, JWT

\* The answer is that of the list that was read and of the token as it is then.
LEMMA AnswerStep ==
  ASSUME IInv, Answer
  PROVE  TypeInv' /\ RequestInv' /\ AnswerExplained'
<1>1. TypeInv /\ RequestInv
  BY DEF IInv
<1>2. /\ req'.at = "answered" /\ req'.side = req.side /\ req'.role = req.role
      /\ TypeInv'
  BY <1>1 DEF Answer, TypeInv, start, IsRequest
<1>3. RequestInv'
  BY <1>1, <1>2 DEF RequestInv, Answer, start
<1>4. PICK s \in seen : ReadAt(s)
  BY <1>1 DEF Answer, RequestInv
<1> DEFINE t == <<store[req.rsc], req.token>>
<1>5. t \in seen /\ t[2] = req.token
  BY <1>1 DEF Answer, RequestInv
<1> HIDE DEF t
<1>6. answer' = Decide(req'.side, Allowed(s[1]), req.token, req'.role) /\ seen' = seen
  BY <1>2, <1>4 DEF Answer, ReadAt
<1>7. AnswerExplained'
  <2>1. CASE s[2] = req.token
    BY <1>6, <2>1 DEF AnswerExplained, Explained
  <2>2. CASE "none" \in Allowed(s[1])
    BY <1>6, <2>2, Decisions DEF AnswerExplained, Explained
  <2>3. CASE s[2] # req.token /\ "none" \notin Allowed(s[1]) /\ s[1] = t[1]
    BY <1>5, <1>6, <2>3 DEF AnswerExplained, Explained
  <2>4. CASE s[2] # req.token /\ "none" \notin Allowed(s[1]) /\ s[1] # t[1]
    <3>1. ~req.token.valid
      BY <1>4, <2>4 DEF ReadAt
    <3>2. answer' # "served"
      BY <1>6, <2>4, <3>1, Decisions
    <3> QED BY <1>5, <1>6, <2>4, <3>2 DEF AnswerExplained, Explained
  <2> QED BY <2>1, <2>2, <2>3, <2>4
<1> QED BY <1>2, <1>3, <1>7

\* The token expires.
LEMMA ExpireStep ==
  ASSUME IInv, Expire
  PROVE  TypeInv' /\ RequestInv' /\ AnswerExplained'
<1>1. TypeInv /\ RequestInv
  BY DEF IInv
<1>2. req \in IsRequest /\ req' = [req EXCEPT !.token.valid = FALSE]
      /\ UNCHANGED <<store, todo, node, roles, answer>>
  BY <1>1 DEF TypeInv, Expire, start
<1>3. req.token \in Token
  BY <1>2 DEF IsRequest
<1>4. [req.token EXCEPT !.valid = FALSE] \in Token
      /\ [req.token EXCEPT !.valid = FALSE].valid = FALSE
  BY <1>3 DEF Token
<1>5. /\ req'.at = req.at /\ req'.rsc = req.rsc /\ req'.side = req.side
      /\ req'.role = req.role /\ req'.token = [req.token EXCEPT !.valid = FALSE]
      /\ req' \in IsRequest
  BY <1>2, <1>4 DEF IsRequest
<1>6. ~req'.token.valid
  BY <1>4, <1>5
<1>7. /\ req.at \in {"arrived", "read"} /\ <<store'[req'.rsc], req'.token>> \in seen'
      /\ seen \subseteq seen'
  BY <1>2, <1>5 DEF Expire
<1>8. TypeInv'
  BY <1>1, <1>2, <1>5 DEF TypeInv
<1>9. answer = Absent
  BY <1>1, <1>7 DEF RequestInv
<1>10. req'.at = "read" => \E s \in seen' : ReadAt(s)'
  BY <1>1, <1>2, <1>5, <1>6, <1>7 DEF RequestInv, ReadAt
<1>11. RequestInv'
  BY <1>1, <1>2, <1>5, <1>7, <1>9, <1>10 DEF RequestInv
<1>12. AnswerExplained'
  BY <1>2, <1>9 DEF AnswerExplained
<1> QED BY <1>8, <1>11, <1>12

\* The steps of the interceptor and the end of the token.
LEMMA RequestStep ==
  ASSUME IInv, Request
  PROVE  IInv'
<1>1. UNCHANGED <<conf, store, node, todo, old, touched>>
  BY DEF Request, Arrive, ReadAcl, ReadAclFails, Answer, Expire, start
<1>2. StartInv'
  BY <1>1 DEF IInv, StartInv
<1>3. TypeInv' /\ RequestInv' /\ AnswerExplained'
  BY ArriveStep, ReadStep, AnswerStep, ExpireStep DEF Request, Server
<1> QED BY <1>2, <1>3 DEF IInv

\* The invariant holds in every reachable state.
THEOREM Invariance == Spec => []IInv
<1>1. ASSUME IInv, [Next]_vars PROVE IInv'
  <2>1. CASE Start \/ Started \/ Stop \/ \E r \in Rsc : Apply(r) \/ ApplyFails(r)
    <3>1. CASE \E r \in Rsc : Apply(r) \/ ApplyFails(r)
      BY <1>1, <3>1, StartStep
    <3> QED BY <1>1, <2>1, <3>1, StartStep
  <2>2. CASE \E r \in Rsc : Delete(r)
    BY <1>1, <2>2, UpdateStep DEF Delete, Level, start
  <2>3. CASE \E r \in Rsc, role \in Managed : Configure(r, role)
    BY <1>1, <2>3, UpdateStep DEF Configure, Level, start
  <2>4. CASE \E r \in Rsc,
               level \in {aclMap(role) : role \in Managed \cap Roles} \cup {Absent} :
               Remote(r, level)
    <3>1. PICK r \in Rsc,
            level \in {aclMap(role) : role \in Managed \cap Roles} \cup {Absent} :
            Remote(r, level)
      BY <2>4
    <3>2. level \in Level
      BY <3>1 DEF Level
    <3> QED BY <1>1, <3>1, <3>2, UpdateStep DEF Remote, start
  <2>5. CASE Request
    BY <1>1, <2>5, RequestStep
  <2>6. CASE UNCHANGED vars
    BY <1>1, <2>6 DEF vars, IInv, TypeInv, StartInv, RequestInv, AnswerExplained,
       ReadAt, Explained
  <2> QED BY <1>1, <2>1, <2>2, <2>3, <2>4, <2>5, <2>6 DEF Next, Manage
<1> QED BY <1>1, InitIInv, PTL DEF Spec

\* However the lists and the token change between the steps of an interceptor,
\* its answer is right for one moment since the request came, or it is a refusal
\* and both have changed.
THEOREM AnswersExplained == Spec => []AnswerExplained
<1>1. IInv => AnswerExplained
  BY DEF IInv
<1> QED BY <1>1, Invariance, PTL

\* After a start the configured lists are in force and all others are kept, and a
\* failed one leaves each as it was or as it is configured, except for the lists
\* that another node changes.
THEOREM StartIsComplete == Spec => StartApplies
<1> DEFINE Ends(r) ==
      /\ node' = "up" =>
           store[r] = IF conf[r] = Absent THEN old[r] ELSE aclMap(conf[r])
      /\ \/ store[r] = old[r]
         \/ conf[r] \in Roles /\ store[r] = aclMap(conf[r])
<1>1. ASSUME IInv, [Next]_vars, node = "starting", node' # node,
             NEW r \in Rsc \ touched
      PROVE  Ends(r)
  <2>1. Started \/ node' # "up"
    BY <1>1 DEF Next, Manage, Request, vars, start, Start, Stop, Apply, ApplyFails,
       Delete, Configure, Remote, Arrive, ReadAcl, ReadAclFails, Answer, Expire
  <2>2. node' = "up" => todo = {}
    BY <2>1 DEF Started
  <2> QED BY <1>1, <2>2 DEF IInv, StartInv
<1>2. IInv /\ [Next]_vars => [node = "starting" /\ node' # node =>
                                \A r \in Rsc \ touched : Ends(r)]_vars
  BY <1>1
<1>3. Spec => [][node = "starting" /\ node' # node =>
                   \A r \in Rsc \ touched : Ends(r)]_vars
  BY <1>2, Invariance, PTL DEF Spec
<1> QED BY <1>3 DEF StartApplies

\* The two maps between roles and levels are inverse to each other.
LEMMA LevelOfRole == \A i \in 1..6 : Role[i] \in Roles /\ aclMap(Role[i]) = i - 1
<1>1. DOMAIN Role = 1..6
  BY DEF Role
<1>2. \A i, j \in 1..6 : Role[i] = Role[j] => i = j
  BY DEF Role
<1> QED BY <1>1, <1>2 DEF aclMap, Roles

\* A role is among the allowed ones exactly if its level is high enough.
LEMMA AllowedAuthorized ==
  ASSUME NEW level \in Level, NEW role \in Roles
  PROVE  role \in Allowed(level) <=> Authorized(level, role)
<1>1. DOMAIN Role = 1..6 /\ admin = 5
  BY DEF Role, admin
<1>2. PICK j \in 1..6 : role = Role[j]
  BY <1>1 DEF Roles
<1>3. aclMap(role) = j - 1
  BY <1>2, LevelOfRole
<1>4. CASE level = Absent
  BY <1>4 DEF Allowed, Authorized
<1>5. CASE level # Absent
  <2>1. PICK k \in 1..6 : level = k - 1
    BY <1>1, <1>5, LevelOfRole DEF Level, Roles
  <2>2. Allowed(level) = {Role[i + 1] : i \in (k - 1)..5}
    BY <1>1, <1>5, <2>1 DEF Allowed, raclMap
  <2>3. role \in Allowed(level) <=> j >= k
    <3>1. ASSUME j >= k PROVE role \in Allowed(level)
      <4>1. j - 1 \in (k - 1)..5 /\ Role[(j - 1) + 1] = role
        BY <1>2, <2>1, <3>1
      <4> QED BY <2>2, <4>1
    <3>2. ASSUME role \in Allowed(level) PROVE j >= k
      <4>1. PICK i \in (k - 1)..5 : role = Role[i + 1]
        BY <2>2, <3>2
      <4>2. i + 1 \in 1..6 /\ aclMap(Role[i + 1]) = (i + 1) - 1
        BY <2>1, <4>1, LevelOfRole
      <4> QED BY <1>3, <2>1, <4>1, <4>2
    <3> QED BY <3>1, <3>2
  <2> QED BY <1>3, <1>5, <2>1, <2>3 DEF Authorized
<1> QED BY <1>4, <1>5

\* In every reachable state the interceptors, which use Allowed, and programs,
\* which use Authorized, agree on every role; and gRPC and HTTP, each given the
\* token in the form that it takes, serve the same users.
THEOREM AnswersAgree == Spec => []ServersAgree
<1>1. ASSUME IInv PROVE ServersAgree
  <2>1. \A r \in Rsc : store[r] \in Level
    BY <1>1 DEF IInv, TypeInv
  <2>2. ASSUME NEW rs, NEW valid \in BOOLEAN, NEW role
        PROVE  authorize(rs, [form |-> "raw", valid |-> valid], role) = "served"
                 <=> JWT(rs, [form |-> "bearer", valid |-> valid], role) = "served"
    BY DEF authorize, JWT
  <2> QED BY <2>1, <2>2, AllowedAuthorized DEF ServersAgree
<1> QED BY <1>1, Invariance, PTL

-----------------------------------------------------------------------------
(* The status document *)

\* A server's goroutine is launched once: none of the servers whose OnStart is
\* still to come has one.
LaunchInv ==
  /\ order \in {<<"grpc", "http">>, <<"http", "grpc">>}
  /\ thread \in [Server ->
                  {"none", "launched", "begun", "serving", "served", "ended"}]
  /\ life = "start" =>
       /\ pos \in 1..2
       /\ \A i \in 1..2 :
            i > pos \/ (i = pos /\ hook = "enter") => thread[order[i]] = "none"

IsDocument(d) == d = [phase |-> d.phase, ret |-> d.ret, had |-> d.had, over |-> d.over]

\* Every entry was right when it was made, and stays so.
Entries(d) ==
  /\ d.over \subseteq Ended
  /\ \A s \in DOMAIN d.ret :
       IF d.ret[s] = "stopped" THEN s \in Ended ELSE s \notin d.over

DocumentInv ==
  /\ IsDocument(statusReq)
  /\ statusReq.phase # "none" => Entries(statusReq)
  /\ statusReq.phase = "write" => statusReq.had \subseteq DOMAIN statusReq.ret

StatusInv == LaunchInv /\ DocumentInv

\* Before the start there is neither a goroutine nor a request.
LEMMA StatusInit == ServersInit => StatusInv
<1> SUFFICES ASSUME ServersInit PROVE StatusInv
  OBVIOUS
<1>1. LaunchInv
  BY DEF ServersInit, LaunchInv, Server
<1>2. DocumentInv
  BY DEF ServersInit, NoStatusRequest, DocumentInv, IsDocument
<1> QED BY <1>1, <1>2 DEF StatusInv

\* A step of the lifecycle or of a server's goroutine launches only what was not
\* launched, so a goroutine that has ended stays so.
LEMMA LaunchStep ==
  ASSUME LaunchInv, [ServersNext]_serversVars
  PROVE  LaunchInv' /\ Ended \subseteq Ended'
<1> USE DEF LaunchInv, Server, Ended
<1>0. Len(order) = 2 /\ order' = order
  <2>1. order' = order
    BY Zenon DEF ServersNext, HookStep, Handler, serversVars, StartGo, StartReturns,
       StopServer, StopReturns, HookOver, StopApp, StartCtxDone, StartLeft, StopLeft,
       Back, CtxEnds, CloseStarted, Serve, ServeFails, ServeReturns, CloseStopped,
       StopTimesOut, Visit, StatusRequest, RangeEnds, Write, lifecycle
  <2> QED BY <2>1
<1>1. ASSUME NEW s \in Server, StartGo(s)
      PROVE  LaunchInv' /\ Ended \subseteq Ended'
  <2>1. /\ thread' = [thread EXCEPT ![s] = "launched"] /\ hook' = "wait" /\ pos' = pos
        /\ life' = life /\ life = "start" /\ order[pos] = s /\ hook = "enter"
    BY <1>1 DEF StartGo
  <2>2. pos \in 1..2 /\ thread[s] = "none"
    BY <2>1
  <2>3. \A i \in 1..2 : i > pos => order[i] # s
    BY <2>1, <2>2
  <2> QED BY <1>0, <2>1, <2>2, <2>3
<1>2. ASSUME NEW s \in Server, StartReturns(s)
      PROVE  LaunchInv' /\ Ended \subseteq Ended'
  <2>1. thread' = thread
    BY <1>2 DEF StartReturns
  <2>2. life' = "start" => /\ life = "start" /\ hook = "wait" /\ pos' = pos + 1
                           /\ pos # 2
    BY <1>0, <1>2 DEF StartReturns
  <2> QED BY <1>0, <2>1, <2>2
<1>3. CASE Back \/ StopLeft \/ StopApp \/ \E s \in Server : StopServer(s)
  <2>1. thread' = thread /\ life' # "start"
    BY <1>3 DEF Back, StopLeft, StopApp, StopServer
  <2> QED BY <1>0, <2>1
<1>4. ASSUME NEW s \in Server,
             CloseStarted(s) \/ Serve(s) \/ ServeFails(s)
               \/ ServeReturns(s) \/ CloseStopped(s)
      PROVE  LaunchInv' /\ Ended \subseteq Ended'
  <2>1. /\ UNCHANGED <<order, life, pos, hook>> /\ thread[s] \notin {"none", "ended"}
    BY <1>4 DEF CloseStarted, Serve, ServeFails, ServeReturns, CloseStopped,
       lifecycle
  <2>2. \E v \in {"begun", "serving", "served", "ended"} :
          thread' = [thread EXCEPT ![s] = v]
    BY <1>4 DEF CloseStarted, Serve, ServeFails, ServeReturns, CloseStopped
  <2> QED BY <2>1, <2>2
<1>5. CASE UNCHANGED <<order, life, pos, hook, thread>>
  BY <1>5
<1>6. \/ \E s \in Server :
           \/ StartGo(s) \/ StartReturns(s) \/ StopServer(s) \/ CloseStarted(s)
           \/ Serve(s) \/ ServeFails(s) \/ ServeReturns(s) \/ CloseStopped(s)
      \/ Back \/ StopLeft \/ StopApp \/ UNCHANGED <<order, life, pos, hook, thread>>
  BY Zenon DEF ServersNext, HookStep, Handler, serversVars, StopReturns, StopTimesOut,
     HookOver, StartCtxDone, StartLeft, CtxEnds, Visit, StatusRequest, RangeEnds, Write,
     lifecycle
<1> QED BY Zenon, <1>1, <1>2, <1>3, <1>4, <1>5, <1>6

\* The handler's own steps: what a reporter says holds when it says it.
LEMMA HandlerStep ==
  ASSUME StatusInv,
         \/ StatusRequest \/ RangeEnds \/ Write
         \/ \E s \in Server : Visit(s)
  PROVE  DocumentInv'
<1>1. IsDocument(statusReq) /\ (statusReq.phase # "none" => Entries(statusReq))
  BY DEF StatusInv, DocumentInv
<1>2. thread' = thread
  BY DEF StatusRequest, RangeEnds, Write, Visit
<1>3. CASE StatusRequest
  BY <1>2, <1>3 DEF StatusRequest, DocumentInv, IsDocument, Entries, Ended
<1>4. CASE RangeEnds
  <2>1. /\ statusReq' = [phase |-> "write", ret |-> statusReq.ret, had |-> statusReq.had,
                         over |-> statusReq.over]
        /\ statusReq.phase = "range" /\ statusReq.had \subseteq DOMAIN statusReq.ret
    BY <1>1, <1>4 DEF RangeEnds, IsDocument
  <2> QED BY <1>1, <1>2, <2>1 DEF DocumentInv, IsDocument, Entries, Ended
<1>5. CASE Write
  BY <1>5 DEF Write, NoStatusRequest, DocumentInv, IsDocument
<1>6. ASSUME NEW s \in Server, Visit(s) PROVE DocumentInv'
  <2> DEFINE ret == [k \in DOMAIN statusReq.ret \cup {s} |->
                       IF k # s THEN statusReq.ret[k]
                       ELSE IF thread[s] = "ended" THEN "stopped" ELSE "running"]
  <2>1. /\ statusReq' = [statusReq EXCEPT !.ret = ret] /\ statusReq.phase = "range"
    BY <1>6 DEF Visit
  <2>2. \A k \in DOMAIN ret :
          IF ret[k] = "stopped" THEN k \in Ended ELSE k \notin statusReq.over
    BY <1>1, <2>1 DEF Entries, Ended
  <2> HIDE DEF ret
  <2>3. statusReq' = [phase |-> "range", ret |-> ret, had |-> statusReq.had,
                      over |-> statusReq.over]
    BY <1>1, <2>1 DEF IsDocument
  <2>4. Entries(statusReq')
    BY <1>1, <2>1, <2>2, <2>3 DEF Entries
  <2> QED BY <1>2, <2>3, <2>4 DEF DocumentInv, IsDocument, Entries, Ended
<1> QED BY <1>3, <1>4, <1>5, <1>6

\* The invariant holds in every reachable state of the servers.
THEOREM StatusInvariance == ServersSpec => []StatusInv
<1>1. ASSUME StatusInv, [ServersNext]_serversVars PROVE StatusInv'
  <2>1. LaunchInv' /\ Ended \subseteq Ended'
    BY <1>1, LaunchStep DEF StatusInv
  <2>2. CASE statusReq' = statusReq
    BY <1>1, <2>1, <2>2 DEF StatusInv, DocumentInv, Entries
  <2>3. CASE \/ StatusRequest \/ RangeEnds \/ Write
             \/ \E s \in Server : Visit(s)
    BY <1>1, <2>1, <2>3, HandlerStep DEF StatusInv
  <2> QED BY <1>1, <2>2, <2>3 DEF ServersNext, HookStep, Handler, serversVars, StartGo,
             StartReturns, StopServer, StopReturns, HookOver, StopApp, StartCtxDone,
             StartLeft, StopLeft, Back, CtxEnds, CloseStarted, Serve, ServeFails,
             ServeReturns, CloseStopped, StopTimesOut
<1> QED BY <1>1, StatusInit, PTL DEF ServersSpec

\* Although the reporters are asked one by one while the servers start and end,
\* every entry of the document holds somewhere between the request and its answer.
THEOREM DocumentExact == ServersSpec => []StatusExact
<1>1. StatusInv => StatusExact
  BY DEF StatusInv, DocumentInv, Entries, StatusExact
<1> QED BY <1>1, StatusInvariance, PTL

-----------------------------------------------------------------------------
(* The configuration, for any private keys, roles and numbers of workers, options
   and starts. *)

\* A value of the configuration, and what options ask for.
IsEntry(v) == v = [type |-> v.type, val |-> v.val]
IsAsked(a) == a = [key |-> a.key, acl |-> a.acl, max |-> a.max, locker |-> a.locker,
                   settings |-> a.settings]

\* The JSON form in which options write a key.
Form(key) == IF key = "TMWorkers" THEN "numbers"
             ELSE IF key \in {"Identity", "ACL"} THEN "strings" ELSE "string"

WellFormed(c) == \A key \in DOMAIN c : IsEntry(c[key]) /\ Marshal(c[key].type) = Form(key)

\* The configuration has the list, the workers and the locker that were asked for.
Says(c, a) ==
  /\ IF "ACL" \in DOMAIN c THEN c["ACL"].val = a.acl ELSE a.acl = Empty
  /\ a.max \in Int
  /\ IF "TMWorkers" \in DOMAIN c
     THEN c["TMWorkers"].val = IF a.max < 20 THEN a.max + 20 ELSE a.max
     ELSE a.max = 20
  /\ IF "Locker" \in DOMAIN c THEN c["Locker"].val = a.locker ELSE a.locker = "none"
  /\ a.settings \subseteq DOMAIN c

\* Its identity is the one that was given, if there is one.
Given(c, a) ==
  IF a.key # None THEN "Identity" \in DOMAIN c /\ c["Identity"].val = a.key
  ELSE "Identity" \notin DOMAIN c

HasIdentity(c, a) ==
  /\ "Identity" \in DOMAIN c
  /\ IF a.key # None THEN c["Identity"].val = a.key
     ELSE c["Identity"].val \in {"new"} \X Nat

BuildInv == IsAsked(asked) /\ WellFormed(cfg) /\ Says(cfg, asked) /\ Given(cfg, asked)

\* The file is the first configuration in its JSON form.
FileInv(s, f) ==
  /\ s = File(f.cfg) /\ WellFormed(f.cfg) /\ "RootPath" \in DOMAIN f.cfg
  /\ Says(f.cfg, f.asked) /\ HasIdentity(f.cfg, f.asked)

\* A node with a root path runs with the file.
NodeInv ==
  /\ WellFormed(eff) /\ Says(eff, InForce)
  /\ FromRepo => eff = saved
  /\ workers = Workers(eff)
  /\ locker = IF Workers(eff) = 0 THEN "none" ELSE NewLocker(eff)
  /\ phase = IF workers = 0 \/ locker = "error" THEN "failed" ELSE "up"

ConfInv ==
  /\ made \in Nat
  /\ phase = "build" => BuildInv
  /\ saved # None => FileInv(saved, first)
  /\ phase # "build" => NodeInv

\* The JSON forms of what options write, and what reads them.
LEMMA Forms ==
  /\ Marshal("string") = "string" /\ Marshal("map[string]string") = "strings"
  /\ Marshal("map[string]interface of string") = "strings"
  /\ Marshal("map[string]int") = "numbers"
  /\ Unmarshal("string") = {"string"} /\ Unmarshal("value") = {}
  /\ Unmarshal("map[string]string") = {"strings"}
  /\ Unmarshal("map[string]int") = {"numbers"}
  /\ Unmarshal("map[string]interface") = {"strings", "numbers"}
BY DEF Marshal, Unmarshal

\* Options write the form that is asked for.
LEMMA Written ==
  /\ Marshal("map[string]interface of string") = Form("Identity")
  /\ Marshal("string") = Form("RootPath")
  /\ Marshal("map[string]string") = Form("ACL")
  /\ Marshal("map[string]int") = Form("TMWorkers")
BY Forms DEF Form

\* A value that has been decoded is encoded as it was.
LEMMA EncodedAgain ==
  ASSUME NEW key
  PROVE  Marshal(Decoded(Form(key))) = Form(key)
<1>1. Form(key) \in {"string", "strings", "numbers"}
  BY DEF Form
<1> QED BY <1>1 DEF Marshal, Decoded

\* A value has the type and the content it is made of.
LEMMA ValueFacts ==
  ASSUME NEW type, NEW v
  PROVE  IsEntry(Value(type, v)) /\ Value(type, v).val = v /\ Value(type, v).type = type
BY DEF Value, IsEntry

\* Saving a configuration keeps its keys, their values and their JSON forms.
LEMMA FileFacts ==
  ASSUME NEW c, WellFormed(c)
  PROVE  /\ DOMAIN File(c) = DOMAIN c
         /\ \A key \in DOMAIN c : /\ File(c)[key].val = c[key].val
                                  /\ Marshal(File(c)[key].type) = Marshal(c[key].type)
         /\ WellFormed(File(c))
<1>1. DOMAIN File(c) = DOMAIN c
  BY DEF File
<1>2. ASSUME NEW key \in DOMAIN c
      PROVE  /\ File(c)[key].val = c[key].val
             /\ Marshal(File(c)[key].type) = Marshal(c[key].type)
             /\ IsEntry(File(c)[key])
  <2>1. /\ c[key] = [type |-> c[key].type, val |-> c[key].val]
        /\ Marshal(c[key].type) = Form(key)
    BY DEF WellFormed, IsEntry
  <2>2. File(c)[key] = [type |-> Decoded(Form(key)), val |-> c[key].val]
    BY <2>1 DEF File
  <2> QED BY SMTT(20), <2>1, <2>2, EncodedAgain DEF IsEntry
<1> QED BY <1>1, <1>2 DEF WellFormed

\* So it says the same, with the same identity.
LEMMA FileSays ==
  ASSUME NEW c, WellFormed(c), NEW a
  PROVE  /\ Says(c, a) => Says(File(c), a)
         /\ HasIdentity(c, a) => HasIdentity(File(c), a)
<1>1. /\ DOMAIN File(c) = DOMAIN c
      /\ \A key \in DOMAIN c : File(c)[key].val = c[key].val
  BY FileFacts
<1> QED BY <1>1 DEF Says, HasIdentity

\* Before the first option nothing is configured.
LEMMA ConfInit == ConfigInit => ConfInv
<1> SUFFICES ASSUME ConfigInit PROVE ConfInv
  OBVIOUS
<1>1. /\ cfg = Empty /\ phase = "build" /\ saved = None /\ asked = Nothing
      /\ made = 0
  BY DEF ConfigInit
<1>2. DOMAIN Empty = {}
  BY DEF Empty
<1>3. BuildInv
  BY <1>1, <1>2 DEF BuildInv, IsAsked, WellFormed, Says, Given, Nothing
<1> QED BY <1>1, <1>3 DEF ConfInv

\* An option keeps the invariant if it keeps that of the configuration.
LEMMA OptionStep ==
  ASSUME ConfInv, NEW c, Option(c), BuildInv'
  PROVE  ConfInv'
<1>1. phase' = "build" /\ UNCHANGED <<saved, first, made>>
  BY DEF Option, nodeVars
<1> QED BY <1>1 DEF ConfInv

\* What is asked for in one respect is not in the others.
LEMMA AskedFacts ==
  ASSUME NEW a, IsAsked(a), NEW v
  PROVE  /\ [a EXCEPT !.key = v] = [key |-> v, acl |-> a.acl, max |-> a.max,
                                    locker |-> a.locker, settings |-> a.settings]
         /\ [a EXCEPT !.max = v] = [key |-> a.key, acl |-> a.acl, max |-> v,
                                    locker |-> a.locker, settings |-> a.settings]
BY DEF IsAsked

\* All options.
LEMMA OptionsStep ==
  ASSUME ConfInv, Options
  PROVE  ConfInv'
<1>0. BuildInv
  BY DEF ConfInv, Options, WithP2PPrivateKey, WithRepositoryRoot, WithServiceACL,
     WithTaskManager, WithLocker, Option
<1>1. ASSUME NEW key \in PrivKey, WithP2PPrivateKey(key) PROVE ConfInv'
  <2> DEFINE c == Set(cfg, "Identity", Value("map[string]interface of string", key))
  <2>1. /\ DOMAIN c = DOMAIN cfg \cup {"Identity"} /\ c["Identity"].val = key
        /\ \A k \in DOMAIN cfg : k # "Identity" => c[k] = cfg[k]
        /\ WellFormed(c)
    <3> DEFINE v == Value("map[string]interface of string", key)
    <3>1. IsEntry(v) /\ v.val = key /\ Marshal(v.type) = Form("Identity")
      BY ValueFacts, Written
    <3>2. WellFormed(cfg)
      BY <1>0 DEF BuildInv
    <3>3. /\ DOMAIN c = DOMAIN cfg \cup {"Identity"} /\ c["Identity"] = v
          /\ \A k \in DOMAIN cfg : k # "Identity" => c[k] = cfg[k]
      BY DEF Set
    <3> HIDE DEF c, v
    <3>4. WellFormed(c)
      BY <3>1, <3>2, <3>3 DEF WellFormed
    <3> QED BY <3>1, <3>3, <3>4
  <2>2. Option(c) /\ asked' = [asked EXCEPT !.key = key] /\ cfg' = c
    BY <1>1 DEF WithP2PPrivateKey, Option
  <2> HIDE DEF c
  <2>3. asked' = [key |-> key, acl |-> asked.acl, max |-> asked.max,
                  locker |-> asked.locker, settings |-> asked.settings]
    BY <1>0, <2>2, AskedFacts DEF BuildInv
  <2>4. Says(c, asked')
    BY <1>0, <2>1, <2>3 DEF BuildInv, Says
  <2>5. Given(c, asked')
    BY <2>1, <2>3, ConfigAssumption DEF Given
  <2>6. BuildInv'
    BY <2>1, <2>2, <2>3, <2>4, <2>5 DEF BuildInv, IsAsked
  <2> QED BY <2>2, <2>6, OptionStep
<1>2. CASE WithRepositoryRoot
  <2> DEFINE c == Set(cfg, "RootPath", Value("string", "path"))
  <2>1. /\ DOMAIN c = DOMAIN cfg \cup {"RootPath"}
        /\ \A k \in DOMAIN cfg : k # "RootPath" => c[k] = cfg[k]
        /\ WellFormed(c)
    <3> DEFINE v == Value("string", "path")
    <3>1. IsEntry(v) /\ v.val = "path" /\ Marshal(v.type) = Form("RootPath")
      BY ValueFacts, Written
    <3>2. WellFormed(cfg)
      BY <1>0 DEF BuildInv
    <3>3. /\ DOMAIN c = DOMAIN cfg \cup {"RootPath"} /\ c["RootPath"] = v
          /\ \A k \in DOMAIN cfg : k # "RootPath" => c[k] = cfg[k]
      BY DEF Set
    <3> HIDE DEF c, v
    <3>4. WellFormed(c)
      BY <3>1, <3>2, <3>3 DEF WellFormed
    <3> QED BY <3>1, <3>3, <3>4
  <2>2. Option(c) /\ asked' = asked /\ cfg' = c
    BY <1>2 DEF WithRepositoryRoot, Option
  <2> HIDE DEF c
  <2>3. Says(c, asked) /\ Given(c, asked)
    BY <1>0, <2>1 DEF BuildInv, Says, Given
  <2>4. BuildInv'
    BY <1>0, <2>1, <2>2, <2>3 DEF BuildInv
  <2> QED BY <2>2, <2>4, OptionStep
<1>3. ASSUME NEW r \in Resource, NEW role \in AskedRole, WithServiceACL(r, role)
      PROVE  ConfInv'
  <2> DEFINE existing == IF Get(cfg, "ACL", "map[string]string") THEN cfg["ACL"].val
                         ELSE Empty
             list == Set(existing, r, role)
             c == Set(cfg, "ACL", Value("map[string]string", list))
  <2>1. /\ DOMAIN c = DOMAIN cfg \cup {"ACL"} /\ c["ACL"].val = list
        /\ \A k \in DOMAIN cfg : k # "ACL" => c[k] = cfg[k]
        /\ WellFormed(c)
    <3> DEFINE v == Value("map[string]string", list)
    <3>1. IsEntry(v) /\ v.val = list /\ Marshal(v.type) = Form("ACL")
      BY ValueFacts, Written
    <3>2. WellFormed(cfg)
      BY <1>0 DEF BuildInv
    <3>3. /\ DOMAIN c = DOMAIN cfg \cup {"ACL"} /\ c["ACL"] = v
          /\ \A k \in DOMAIN cfg : k # "ACL" => c[k] = cfg[k]
      BY DEF Set
    <3> HIDE DEF c, v, list
    <3>4. WellFormed(c)
      BY <3>1, <3>2, <3>3 DEF WellFormed
    <3> QED BY <3>1, <3>3, <3>4
  <2>2. existing = asked.acl
    BY <1>0, Forms DEF BuildInv, Says, WellFormed, Get, Form
  <2>3. Option(c) /\ asked' = [asked EXCEPT !.acl = Set(@, r, role)] /\ cfg' = c
    BY <1>3 DEF WithServiceACL, Option
  <2> HIDE DEF existing
  <2>4. list = Set(asked.acl, r, role)
    BY <2>2
  <2> HIDE DEF c, list
  <2>5. asked' = [key |-> asked.key, acl |-> list, max |-> asked.max,
                  locker |-> asked.locker, settings |-> asked.settings]
    BY <1>0, <2>3, <2>4 DEF BuildInv, IsAsked
  <2>6. Says(c, asked') /\ Given(c, asked')
    BY <1>0, <2>1, <2>5 DEF BuildInv, Says, Given
  <2>7. BuildInv'
    BY <2>1, <2>3, <2>5, <2>6 DEF BuildInv, IsAsked
  <2> QED BY <2>3, <2>7, OptionStep
<1>4. ASSUME NEW max \in Max, WithTaskManager(max) PROVE ConfInv'
  <2> DEFINE m == IF max < 20 THEN max + 20 ELSE max
             c == Set(cfg, "TMWorkers", Value("map[string]int", m))
  <2>1. /\ DOMAIN c = DOMAIN cfg \cup {"TMWorkers"} /\ c["TMWorkers"].val = m
        /\ \A k \in DOMAIN cfg : k # "TMWorkers" => c[k] = cfg[k]
        /\ WellFormed(c)
    <3> DEFINE v == Value("map[string]int", m)
    <3>1. IsEntry(v) /\ v.val = m /\ Marshal(v.type) = Form("TMWorkers")
      BY ValueFacts, Written
    <3>2. WellFormed(cfg)
      BY <1>0 DEF BuildInv
    <3>3. /\ DOMAIN c = DOMAIN cfg \cup {"TMWorkers"} /\ c["TMWorkers"] = v
          /\ \A k \in DOMAIN cfg : k # "TMWorkers" => c[k] = cfg[k]
      BY DEF Set
    <3> HIDE DEF c, v, m
    <3>4. WellFormed(c)
      BY <3>1, <3>2, <3>3 DEF WellFormed
    <3> QED BY <3>1, <3>3, <3>4
  <2>2. Option(c) /\ asked' = [asked EXCEPT !.max = max] /\ cfg' = c
    BY <1>4 DEF WithTaskManager, Option
  <2>3. max \in Int
    BY ConfigAssumption
  <2> HIDE DEF c
  <2>4. asked' = [key |-> asked.key, acl |-> asked.acl, max |-> max,
                  locker |-> asked.locker, settings |-> asked.settings]
    BY <1>0, <2>2, AskedFacts DEF BuildInv
  <2>5. Says(c, asked') /\ Given(c, asked')
    BY <1>0, <2>1, <2>3, <2>4 DEF BuildInv, Says, Given
  <2>6. BuildInv'
    BY <2>1, <2>2, <2>4, <2>5 DEF BuildInv, IsAsked
  <2> QED BY <2>2, <2>6, OptionStep
<1>5. ASSUME NEW lkr \in Lockers \cup {"other"}, NEW settings \in SUBSET Settings(lkr),
             WithLocker(lkr, settings)
      PROVE  ConfInv'
  <2> DEFINE c == [k \in DOMAIN cfg \cup {"Locker"} \cup settings |->
                     IF k = "Locker" THEN Value("string", lkr)
                     ELSE IF k \in settings THEN Value("string", "setting") ELSE cfg[k]]
  <2>1. settings \subseteq {"ZookeeperHost", "ZookeeperPort", "RedisHost", "RedisNetwork"}
    BY DEF Settings
  <2>2. ASSUME NEW v
        PROVE  /\ IsEntry(Value("string", v)) /\ Value("string", v).val = v
               /\ Marshal(Value("string", v).type) = "string"
    BY Forms DEF Value, IsEntry
  <2>3. /\ DOMAIN c = DOMAIN cfg \cup {"Locker"} \cup settings
        /\ c["Locker"] = Value("string", lkr)
        /\ \A k \in settings : c[k] = Value("string", "setting")
        /\ \A k \in DOMAIN cfg : k # "Locker" /\ k \notin settings => c[k] = cfg[k]
    BY <2>1
  <2>4. Option(c) /\ asked' = [asked EXCEPT !.locker = lkr, !.settings = @ \cup settings]
        /\ cfg' = c
    BY <1>5 DEF WithLocker, Option
  <2> HIDE DEF c
  <2>5. WellFormed(c)
    <3>1. ASSUME NEW k \in settings \cup {"Locker"}
          PROVE  Form(k) = "string" /\ \E v : c[k] = Value("string", v)
      BY <2>1, <2>3 DEF Form
    <3>2. WellFormed(cfg)
      BY <1>0 DEF BuildInv
    <3>3. ASSUME NEW k \in DOMAIN c
          PROVE  IsEntry(c[k]) /\ Marshal(c[k].type) = Form(k)
      <4>1. CASE k \in settings \cup {"Locker"}
        BY <2>2, <3>1, <4>1
      <4>2. CASE k \notin settings \cup {"Locker"}
        BY <2>3, <3>2, <4>2 DEF WellFormed
      <4> QED BY <4>1, <4>2
    <3> QED BY <3>3 DEF WellFormed
  <2>6. asked' = [key |-> asked.key, acl |-> asked.acl, max |-> asked.max,
                  locker |-> lkr, settings |-> asked.settings \cup settings]
    BY <1>0, <2>4 DEF BuildInv, IsAsked
  <2>7. Says(c, asked')
    BY <1>0, <2>1, <2>2, <2>3, <2>6 DEF BuildInv, Says
  <2>8. Given(c, asked')
    BY <1>0, <2>1, <2>3, <2>6 DEF BuildInv, Given
  <2>9. BuildInv'
    BY <2>4, <2>5, <2>6, <2>7, <2>8 DEF BuildInv, IsAsked
  <2> QED BY <2>4, <2>9, OptionStep
<1> QED BY <1>1, <1>2, <1>3, <1>4, <1>5 DEF Options

\* The root path can be read where it is set; an in-memory repository's check does
\* not find an identity, that of a file repository finds the one that is given.
LEMMA KeysRead ==
  ASSUME NEW c, WellFormed(c)
  PROVE  /\ Get(c, "RootPath", "string") <=> "RootPath" \in DOMAIN c
         /\ ~Get(c, "Identity", "value")
         /\ Get(c, "Identity", "map[string]interface") <=> "Identity" \in DOMAIN c
BY Forms DEF WellFormed, Get, Form

\* A new identity changes no other key.
LEMMA NewIdentityFacts ==
  ASSUME BuildInv, made \in Nat
  PROVE  LET d == NewIdentity(cfg)
         IN /\ WellFormed(d) /\ Says(d, asked)
            /\ DOMAIN d = DOMAIN cfg \cup {"Identity"}
            /\ d["Identity"].val \in {"new"} \X Nat
<1> DEFINE id == <<"new", made + 1>>
           d == Set(cfg, "Identity", Value("map[string]interface of string", id))
<1>1. /\ DOMAIN d = DOMAIN cfg \cup {"Identity"} /\ d["Identity"].val = id
      /\ \A k \in DOMAIN cfg : k # "Identity" => d[k] = cfg[k]
      /\ WellFormed(d)
  <2> DEFINE v == Value("map[string]interface of string", id)
  <2>1. IsEntry(v) /\ v.val = id /\ Marshal(v.type) = Form("Identity")
    BY ValueFacts, Written
  <2>2. WellFormed(cfg)
    BY DEF BuildInv
  <2>3. /\ DOMAIN d = DOMAIN cfg \cup {"Identity"} /\ d["Identity"] = v
        /\ \A k \in DOMAIN cfg : k # "Identity" => d[k] = cfg[k]
    BY DEF Set
  <2> HIDE DEF d, v, id
  <2>4. WellFormed(d)
    BY <2>1, <2>2, <2>3 DEF WellFormed
  <2> QED BY <2>1, <2>3, <2>4
<1>2. NewIdentity(cfg) = d
  BY DEF NewIdentity
<1>3. id \in {"new"} \X Nat
  OBVIOUS
<1> HIDE DEF d, id
<1>4. Says(d, asked)
  BY <1>1 DEF BuildInv, Says
<1> QED BY <1>1, <1>2, <1>3, <1>4

\* A start with a configuration that is the file's, if it has a root path.
LEMMA UpStep ==
  ASSUME NEW c, Up(c), WellFormed(c), made' \in Nat,
         saved' # None => FileInv(saved', first'),
         IF saved' # None /\ "RootPath" \in DOMAIN c
         THEN c = saved' /\ Says(c, first'.asked) ELSE Says(c, asked)
  PROVE  ConfInv'
<1>1. /\ eff' = c /\ asked' = asked /\ workers' = Workers(c)
      /\ locker' = IF Workers(c) = 0 THEN "none" ELSE NewLocker(c)
      /\ phase' = IF workers' = 0 \/ locker' = "error" THEN "failed" ELSE "up"
  BY DEF Up
<1>2. phase' # "build"
  BY <1>1
<1>3. Workers(c) = Workers(eff)' /\ NewLocker(c) = NewLocker(eff)'
  BY <1>1
<1>4. FromRepo' <=> saved' # None /\ "RootPath" \in DOMAIN c
  BY <1>1, <1>2 DEF FromRepo
<1>5. Says(eff, InForce)'
  BY <1>1, <1>4 DEF InForce
<1>6. NodeInv'
  BY <1>1, <1>3, <1>4, <1>5 DEF NodeInv
<1> QED BY <1>2, <1>6 DEF ConfInv

\* Every step of a node's life.
LEMMA ConfStep ==
  ASSUME ConfInv, [ConfigNext]_configVars
  PROVE  ConfInv'
<1>1. CASE Options
  BY <1>1, OptionsStep
<1> DEFINE n == NewIdentity(cfg)
<1>2. CASE NewInMem
  <2>1. BuildInv /\ made \in Nat
    BY <1>2 DEF ConfInv, NewInMem, Up
  <2>2. WellFormed(cfg)
    BY <2>1 DEF BuildInv
  <2>3. "RootPath" \notin DOMAIN cfg /\ Up(n) /\ UNCHANGED <<saved, first>>
        /\ made' = made + 1
    BY <1>2, <2>2, KeysRead DEF NewInMem, Identified
  <2>4. WellFormed(n) /\ Says(n, asked) /\ DOMAIN n = DOMAIN cfg \cup {"Identity"}
    BY <2>1, NewIdentityFacts
  <2> HIDE DEF n
  <2>5. saved' # None => FileInv(saved', first')
    BY <2>3 DEF ConfInv
  <2>6. made' \in Nat /\ "RootPath" \notin DOMAIN n
    BY <2>1, <2>3, <2>4
  <2> QED BY <2>3, <2>4, <2>5, <2>6, UpStep
<1>3. CASE NewInit
  <2>1. BuildInv /\ made \in Nat
    BY <1>3 DEF ConfInv, NewInit, Up
  <2>2. WellFormed(cfg)
    BY <2>1 DEF BuildInv
  <2> DEFINE c == Identified(cfg, "map[string]interface")
  <2>3. /\ Up(File(c)) /\ saved' = File(c) /\ first' = [cfg |-> c, asked |-> asked]
        /\ made' \in Nat
    BY <1>3, <2>1 DEF NewInit
  <2>4. "RootPath" \in DOMAIN cfg
    BY <1>3, <2>2, KeysRead DEF NewInit
  <2>5. /\ WellFormed(n) /\ Says(n, asked) /\ DOMAIN n = DOMAIN cfg \cup {"Identity"}
        /\ n["Identity"].val \in {"new"} \X Nat
    BY <2>1, NewIdentityFacts
  <2>6. c = IF "Identity" \in DOMAIN cfg THEN cfg ELSE n
    BY <2>2, KeysRead DEF Identified
  <2> HIDE DEF c, n
  <2>7. /\ WellFormed(c) /\ Says(c, asked) /\ HasIdentity(c, asked)
        /\ "RootPath" \in DOMAIN c
    BY <2>1, <2>4, <2>5, <2>6 DEF BuildInv, Given, HasIdentity
  <2>8. FileInv(saved', first')
    BY <2>3, <2>7 DEF FileInv
  <2>9. WellFormed(File(c)) /\ Says(File(c), asked)
    BY <2>7, FileFacts, FileSays
  <2>10. first'.asked = asked
    BY <2>3
  <2> QED BY <2>3, <2>8, <2>9, <2>10, UpStep
<1>4. CASE NewSaved
  <2>1. Up(saved) /\ saved # None /\ UNCHANGED <<saved, first, made>>
    BY <1>4 DEF NewSaved
  <2>2. FileInv(saved, first) /\ made \in Nat
    BY <2>1 DEF ConfInv
  <2>3. WellFormed(saved) /\ Says(saved, first.asked) /\ "RootPath" \in DOMAIN saved
    BY <2>2, FileFacts, FileSays DEF FileInv
  <2> QED BY <2>1, <2>2, <2>3, UpStep
<1>5. CASE StopNode
  <2>1. /\ cfg' = Empty /\ asked' = Nothing /\ phase' = "build"
        /\ UNCHANGED <<saved, first, made>>
    BY <1>5 DEF StopNode
  <2>2. DOMAIN Empty = {}
    BY DEF Empty
  <2>3. IsAsked(Nothing) /\ WellFormed(Empty)
    BY ONLY <2>2 DEF IsAsked, WellFormed, Nothing
  <2>4. Says(Empty, Nothing)
    BY ONLY <2>2 DEF Says, Nothing
  <2>5. Given(Empty, Nothing)
    BY ONLY <2>2 DEF Given, Nothing
  <2>6. BuildInv'
    BY ONLY <2>1, <2>3, <2>4, <2>5 DEF BuildInv
  <2> QED BY <2>1, <2>6 DEF ConfInv
<1>6. CASE UNCHANGED configVars
  BY <1>6 DEF configVars, ConfInv, BuildInv, NodeInv, InForce, FromRepo
<1> QED BY <1>1, <1>2, <1>3, <1>4, <1>5, <1>6 DEF ConfigNext

\* The list, the task manager and the locker read what the options wrote.
LEMMA ReadersAgree ==
  ASSUME ConfInv
  PROVE  OptionsArrive
<1> SUFFICES ASSUME phase # "build" PROVE OptionsArrive
  BY DEF OptionsArrive
<1>1. WellFormed(eff) /\ Says(eff, InForce) /\ NodeInv
  BY DEF ConfInv, NodeInv
<1>2. InForce.acl # Empty =>
        Get(eff, "ACL", "map[string]string") /\ eff["ACL"].val = InForce.acl
  BY <1>1, Forms DEF Says, WellFormed, Get, Form
<1>3. /\ Workers(eff) = 0 => InForce.max <= -20
      /\ Workers(eff) # 0 => Workers(eff) > 0 /\ Workers(eff) >= InForce.max
  <2>1. Get(eff, "TMWorkers", "map[string]int") <=> "TMWorkers" \in DOMAIN eff
    BY <1>1, Forms DEF WellFormed, Get, Form
  <2>2. /\ InForce.max \in Int
        /\ IF "TMWorkers" \in DOMAIN eff
           THEN eff["TMWorkers"].val = IF InForce.max < 20 THEN InForce.max + 20
                                       ELSE InForce.max
           ELSE InForce.max = 20
    BY ONLY <1>1 DEF Says
  <2> DEFINE asks == InForce.max
             max == IF "TMWorkers" \in DOMAIN eff THEN eff["TMWorkers"].val ELSE 20
  <2>3. Workers(eff) = IF max <= 0 THEN 0 ELSE max
    BY ONLY <2>1 DEF Workers
  <2>4. asks \in Int /\ max = IF asks < 20 THEN asks + 20 ELSE asks
    BY ONLY <2>2
  <2> HIDE DEF asks, max
  <2>5. /\ Workers(eff) = 0 => asks <= -20
        /\ Workers(eff) # 0 => Workers(eff) > 0 /\ Workers(eff) >= asks
    BY ONLY <2>3, <2>4
  <2> QED BY ONLY <2>5 DEF asks
<1>4. NewLocker(eff) \in {InForce.locker, "error"}
  BY <1>1 DEF Says, NewLocker
<1>5. ASSUME NEW lkr \in {"inmem", "redis"}, InForce.locker = lkr,
             Settings(lkr) \subseteq InForce.settings
      PROVE  NewLocker(eff) = lkr
  <2>1. /\ "Locker" \in DOMAIN eff /\ eff["Locker"].val = lkr
        /\ Settings(lkr) \subseteq DOMAIN eff
    BY <1>1, <1>5 DEF Says
  <2>2. Settings(lkr) \subseteq {"RedisHost", "RedisNetwork"}
    BY DEF Settings
  <2>3. Get(eff, "Locker", "string") /\ \A key \in Settings(lkr) : Get(eff, key, "string")
    BY <1>1, <2>1, <2>2, Forms DEF WellFormed, Get, Form
  <2>4. \A key \in Settings(lkr) :
          Get(eff, key, IF key = "ZookeeperPort" THEN "int" ELSE "string")
    BY <2>2, <2>3
  <2>5. lkr \in Lockers
    BY DEF Lockers
  <2> QED BY <2>1, <2>3, <2>4, <2>5 DEF NewLocker
<1>6. LockerMade("inmem") /\ LockerMade("redis")
  BY SMTT(20), <1>1, <1>5 DEF LockerMade, NodeInv
<1>7. locker \in {InForce.locker, "none", "error"}
  BY <1>1, <1>4 DEF NodeInv
<1>8. phase = "up" <=> workers > 0 /\ locker # "error"
  <2>1. workers = 0 \/ workers > 0
    BY ONLY <1>1, <1>3 DEF NodeInv
  <2> QED BY ONLY <1>1, <2>1 DEF NodeInv
<1>9. /\ workers = 0 => InForce.max <= -20
      /\ workers > 0 => workers >= InForce.max
  <2>1. workers = Workers(eff)
    BY ONLY <1>1 DEF NodeInv
  <2> QED BY ONLY <1>3, <2>1
<1> QED BY <1>2, <1>6, <1>7, <1>8, <1>9 DEF OptionsArrive

\* A node over a repository reads from the file what its first start was given.
LEMMA FileReads ==
  ASSUME ConfInv
  PROVE  SavedWins /\ IdentityOrigin
<1> SUFFICES ASSUME FromRepo PROVE SavedWins /\ IdentityOrigin
  BY DEF SavedWins, IdentityOrigin
<1>1. FileInv(saved, first) /\ eff = saved
  BY DEF FromRepo, ConfInv, NodeInv
<1>2. eff = File(first.cfg) /\ WellFormed(first.cfg) /\ HasIdentity(eff, first.asked)
  BY <1>1, FileSays DEF FileInv
<1>3. /\ DOMAIN eff = DOMAIN first.cfg
      /\ \A key \in DOMAIN eff :
           /\ eff[key].val = first.cfg[key].val
           /\ Marshal(eff[key].type) = Marshal(first.cfg[key].type)
  BY <1>2, FileFacts
<1>4. SavedWins
  BY <1>3 DEF SavedWins, Get
<1>5. IdentityOrigin
  BY <1>2 DEF IdentityOrigin, HasIdentity
<1> QED BY <1>4, <1>5

\* No order of options and starts leaves the invariant of the configuration.
THEOREM ConfInvariance == ConfigSpec => []ConfInv
<1>1. ConfInv /\ [ConfigNext]_configVars => ConfInv'
  BY ConfStep
<1> QED BY <1>1, ConfInit, PTL DEF ConfigSpec

\* Whatever options a node over a repository is started with, it runs with the
\* values of its first start, which can be read as the same types although
\* SetConfig has put them through JSON.
THEOREM SavedConfigurationWins == ConfigSpec => []SavedWins
<1>1. ConfInv => SavedWins
  BY FileReads
<1> QED BY <1>1, ConfInvariance, PTL

\* Constructors read what the options wrote, whatever their order and their number
\* and also from a saved configuration; a number of workers, of any sign, fails the
\* node only if it is -20 or less.
THEOREM OptionsAreRead == ConfigSpec => []OptionsArrive
<1>1. ConfInv => OptionsArrive
  BY ReadersAgree
<1> QED BY <1>1, ConfInvariance, PTL

\* Over a repository the identity is the one that was given at the first start, at
\* every start, and a generated one only if none was.
THEOREM IdentityIsTheGivenOne == ConfigSpec => []IdentityOrigin
<1>1. ConfInv => IdentityOrigin
  BY FileReads
<1> QED BY <1>1, ConfInvariance, PTL
=============================================================================
