-------------------------- MODULE HttpServerProofs --------------------------
(* Theorems about HttpServer for every number of connections, users and     *)
(* emails. The specification's fairness plays no part in them.              *)
EXTENDS HttpServer, TLAPS

(* What its step says of a connection's request: the leaves that may get    *)
(* there, what its controller works on, and that nothing was written before *)
(* the answer.                                                              *)
Knows(s) ==
  /\ pc[s] \in Serving => req[s].leaf \in Leaves
  /\ pc[s] = "exists" => req[s].token \in Users
  /\ pc[s] = "sql" => req[s].leaf \in {"index", "store", "registration", "update", "remove"}
  /\ pc[s] = "sql" /\ req[s].leaf \in Named => arg[s] \in Emails
  /\ pc[s] = "sql" /\ req[s].leaf \in {"update", "remove"} => arg[s] \in Users
  /\ pc[s] \in {"lookup", "fetch", "verify"} => req[s].leaf = "login"
  /\ pc[s] \in {"lookup", "fetch"} => arg[s] \in Emails
  /\ pc[s] = "verify" => arg[s] \in Users
  /\ wrote[s] => pc[s] = "writing"

Shape == TypeOK /\ \A s \in Sessions : Knows(s)
-----------------------------------------------------------------------------
(* The routes, and that the middleware's scope covers every leaf that needs *)
(* it: each of them hangs under /users.                                     *)
LEMMA TableLeaves ==
  /\ Leaves = {"health", "registration", "login", "index", "store", "update",
               "remove", "swagger"}
  /\ \A r \in table : r.leaf \in Protected => Guarded(r.path)
<1>2. ASSUME NEW r \in table
      PROVE  \/ r.path = "/health" /\ r.leaf = "health"
             \/ r.path = "/register" /\ r.leaf = "registration"
             \/ r.path = "/login" /\ r.leaf = "login"
             \/ r.path = "/users" /\ r.leaf \in {"index", "store"}
             \/ r.path = "/users/{id}" /\ r.leaf \in {"update", "remove"}
             \/ r.path = "/swagger" /\ r.leaf = "swagger"
  <2>1. PICK p, m, leaf, types :
          /\ r = Add(p, m, leaf, types)
          /\ \/ p = "/health" /\ leaf = "health"
             \/ p = "/register" /\ leaf = "registration"
             \/ p = "/login" /\ leaf = "login"
             \/ p = "/users" /\ leaf \in {"index", "store"}
             \/ p = "/users/{id}" /\ leaf \in {"update", "remove"}
             \/ p = "/swagger" /\ leaf = "swagger"
    BY ZenonT(30) DEF table
  <2>2. r = Add(p, m, leaf, types)
    BY <2>1
  <2>3. r.path = p /\ r.leaf = leaf
    BY <2>2 DEF Add
  <2> QED
    BY <2>1, <2>3
<1>3. \A leaf \in {"health", "registration", "login", "index", "store", "update",
                   "remove", "swagger"} : \E r \in table : r.leaf = leaf
  BY DEF table, Add
<1>4. \A leaf : leaf \in Leaves <=> \E r \in table : r.leaf = leaf
  BY DEF Leaves
<1>5. Leaves \subseteq {"health", "registration", "login", "index", "store", "update",
                   "remove", "swagger"}
  BY <1>2, <1>4
<1>6. {"health", "registration", "login", "index", "store", "update", "remove",
        "swagger"} \subseteq Leaves
  BY <1>3, <1>4
<1>7. ASSUME NEW r \in table, r.leaf \in Protected
      PROVE  Guarded(r.path)
  BY <1>2, <1>7 DEF Protected, Guarded
<1> QED
  BY <1>5, <1>6, <1>7

(* A request that is not refused has a handler.                             *)
LEMMA RouteExists ==
  ASSUME NEW p \in Paths, NEW m \in Methods, NEW b \in Bodies, Refusal(p, m, b) = 0
  PROVE  Leaf(p, m) \in Leaves /\ (Leaf(p, m) \in Protected => Guarded(p))
<1> DEFINE n == IF AutoHead(p, m) THEN "GET" ELSE m
<1>1. n \in MethodsOf(p)
  BY DEF Refusal, AutoHead
<1>2. \E r \in table : r.path = p /\ r.method = n
  BY <1>1 DEF MethodsOf
<1>3. RouteOf(p, n) \in table /\ RouteOf(p, n).path = p
  BY <1>2 DEF RouteOf
<1> QED
  BY <1>3, TableLeaves DEF Leaf, Leaves

(* What dispatch makes of a request: refused with one of five statuses, or  *)
(* with a leaf, behind the middleware if the leaf needs it.                 *)
LEMMA DispatchedAre ==
  ASSUME NEW d \in Dispatched
  PROVE  /\ d.refusal \in {0, 200, 400, 404, 405, 415}
         /\ d.head \in BOOLEAN /\ d.json \in BOOLEAN /\ d.raw \in BOOLEAN
         /\ d.guarded \in BOOLEAN
         /\ d.refusal = 0 => d.leaf \in Leaves
         /\ d.refusal = 0 /\ d.leaf \in Protected => d.guarded
<1>1. PICK p \in Paths, m \in Methods, b \in Bodies : d = Dispatch(p, m, b)
  BY DEF Dispatched
<1>2. CASE Refusal(p, m, b) # 0
  <2>1. Refusal(p, m, b) \in {200, 400, 404, 405, 415} /\ b.ascii \in BOOLEAN
    BY <1>2 DEF Refusal, Bodies
  <2> QED
    BY <1>1, <1>2, <2>1 DEF Dispatch
<1>3. CASE Refusal(p, m, b) = 0
  <2>1. /\ AutoHead(p, m) \in BOOLEAN /\ Guarded(p) \in BOOLEAN
        /\ IsJson(b) \in BOOLEAN /\ b.ascii \in BOOLEAN
    BY DEF AutoHead, Guarded, IsJson, Bodies
  <2> QED
    BY <1>1, <1>3, <2>1, RouteExists DEF Dispatch
<1> QED
  BY <1>2, <1>3
-----------------------------------------------------------------------------
RowsOk ==
  /\ row \in [Users -> {"unborn", "gone"} \cup Emails]
  /\ \A u, v \in Users : u # v /\ row[u] = row[v] => row[u] \notin Emails

Answered(s) == \E code \in Statuses \ {0}, ka \in BOOLEAN : Answer(s, code, ka)

(* An answer that says of no effect, and an end without one.                *)
Silent == Statuses \ {0, 201}
Plain(s) ==
  /\ \E code \in Silent, ka \in BOOLEAN : Answer(s, code, ka)
  /\ UNCHANGED wrote /\ Quiet

Erred(s) == (Forget(s, "off") /\ UNCHANGED control) \/ Plain(s)

(* An answer keeps the types; a request that is answered is over.           *)
LEMMA AnswerShape ==
  ASSUME Shape, NEW s \in Sessions, Answered(s), RowsOk', issued' \subseteq Users,
         wrote' \in [Sessions -> BOOLEAN],
         \A t \in Sessions : t # s => wrote'[t] = wrote[t]
  PROVE  Shape'
<1>1. PICK code \in Statuses \ {0}, ka \in BOOLEAN : Answer(s, code, ka)
  BY DEF Answered
<1>2. [NoRequest EXCEPT !.leaf = req[s].leaf] \in Requests
  BY DEF Shape, TypeOK, Requests, NoRequest
<1>3. TypeOK'
  BY <1>1, <1>2 DEF Shape, TypeOK, Answer, control, RowsOk, Steps
<1>4. \A t \in Sessions : t # s => UNCHANGED <<pc[t], req[t], arg[t], wrote[t]>>
  BY <1>1 DEF Answer, Shape, TypeOK
<1>5. pc'[s] = "writing"
  BY <1>1 DEF Answer, Shape, TypeOK
<1>6. \A t \in Sessions : Knows(t)'
  BY <1>4, <1>5 DEF Knows, Serving, Shape
<1> QED
  BY <1>3, <1>6 DEF Shape

(* So does the end of a connection, or of a request on it.                  *)
LEMMA ForgetShape ==
  ASSUME Shape, NEW s \in Sessions, NEW step \in {"off", "reading"},
         Forget(s, step), UNCHANGED control
  PROVE  Shape'
<1>1. NoRequest \in Requests
  BY DEF Requests, NoRequest
<1>2. TypeOK'
  BY <1>1 DEF Shape, TypeOK, Forget, control, Steps, Statuses
<1>3. \A t \in Sessions : t # s => UNCHANGED <<pc[t], req[t], arg[t], wrote[t]>>
  BY DEF Forget, Shape, TypeOK
<1>4. pc'[s] = step /\ wrote'[s] = FALSE
  BY DEF Forget, Shape, TypeOK
<1>5. \A t \in Sessions : Knows(t)'
  BY <1>3, <1>4 DEF Knows, Serving, Shape
<1> QED
  BY <1>2, <1>5 DEF Shape

(* And going on to another step, knowing what that step needs.              *)
LEMMA GotoShape ==
  ASSUME Shape, NEW s \in Sessions, NEW step \in Steps \ {"writing"}, pc[s] # "writing",
         Goto(s, step), Quiet, UNCHANGED wrote,
         NEW r \in Requests, req' = [req EXCEPT ![s] = r],
         NEW x \in Users \cup Emails \cup {Nobody}, arg' = [arg EXCEPT ![s] = x],
         late' \in [Sessions -> BOOLEAN], Knows(s)'
  PROVE  Shape'
<1>1. TypeOK'
  BY DEF Shape, TypeOK, Goto, control, answer, Quiet
<1>2. \A t \in Sessions : t # s => UNCHANGED <<pc[t], req[t], arg[t], wrote[t]>>
  BY DEF Goto, Shape, TypeOK
<1>3. \A t \in Sessions : Knows(t)'
  BY <1>2 DEF Knows, Shape
<1> QED
  BY <1>1, <1>3 DEF Shape

(* A statement leaves no email in two rows and no other kind of row.        *)
LEMMA RunRows ==
  ASSUME Shape, NEW s \in Sessions, pc[s] = "sql", Run(s)
  PROVE  RowsOk'
<1> USE HttpAssumption DEF Shape, TypeOK, RowsOk
<1>1. CASE UNCHANGED row
  BY <1>1
<1>2. CASE req[s].leaf \in {"store", "registration"}
  <2>1. arg[s] \in Emails
    BY <1>2 DEF Knows, Named
  <2>2. PICK u \in Users : row' = [row EXCEPT ![u] = arg[s]]
    BY <1>2 DEF Run
  <2>3. \A v \in Users : row[v] # arg[s]
    BY <1>2 DEF Run, Taken
  <2> QED
    BY <2>1, <2>2, <2>3
<1>3. CASE req[s].leaf = "update" /\ Exists(arg[s])
  <2>1. PICK e \in Emails : row' = [row EXCEPT ![arg[s]] = e] /\ ~Taken(e, arg[s])
    BY <1>3 DEF Run
  <2> QED
    BY <2>1 DEF Taken
<1>4. CASE req[s].leaf = "remove" /\ Exists(arg[s])
  <2>1. row' = [row EXCEPT ![arg[s]] = "gone"]
    BY <1>4 DEF Run
  <2> QED
    BY <2>1
<1> QED
  BY <1>1, <1>2, <1>3, <1>4 DEF Run
-----------------------------------------------------------------------------
(* An answer that says of no effect, given by a step that has none.         *)
LEMMA PlainAnswer ==
  ASSUME NEW s, NEW code \in Silent, UNCHANGED wrote, Quiet
  PROVE  /\ Answer(s, code, TRUE) => Plain(s)
         /\ Answer(s, code, FALSE) => Plain(s)
<1>1. ASSUME NEW ka \in BOOLEAN, Answer(s, code, ka)
      PROVE  Plain(s)
  <2>1. \E c \in Silent, k \in BOOLEAN : Answer(s, c, k)
    <3> WITNESS code \in Silent, ka \in BOOLEAN
    <3> QED
      BY <1>1
  <2> QED
    BY Zenon, <2>1 DEF Plain
<1>2. TRUE \in BOOLEAN /\ FALSE \in BOOLEAN
  OBVIOUS
<1>3. Answer(s, code, TRUE) => Plain(s)
  BY Zenon, <1>1, <1>2
<1>4. Answer(s, code, FALSE) => Plain(s)
  BY Zenon, <1>1, <1>2
<1> QED
  BY Zenon, <1>3, <1>4

(* The two whose status and keep-alive are settled.                         *)
LEMMA Unauthorised ==
  ASSUME NEW s, Answer(s, 401, TRUE), UNCHANGED wrote, Quiet
  PROVE  Plain(s)
<1>1. 401 \in Silent
  BY DEF Silent, Statuses
<1> QED
  BY <1>1, PlainAnswer

LEMMA ServerError ==
  ASSUME NEW s, Answer(s, 500, FALSE), UNCHANGED wrote, Quiet
  PROVE  Plain(s)
<1>1. 500 \in Silent
  BY DEF Silent, Statuses
<1> QED
  BY <1>1, PlainAnswer

(* What is thrown is a 500 or the end of the session.                       *)
LEMMA ThrownIsErred ==
  ASSUME NEW s, Throw(s)
  PROVE  Erred(s)
<1>1. CASE Answer(s, 500, FALSE) /\ UNCHANGED wrote /\ Quiet
  <2>1. Plain(s)
    BY Zenon, <1>1, ServerError
  <2> QED
    BY Zenon, <2>1 DEF Erred
<1>2. CASE Forget(s, "off") /\ UNCHANGED control
  BY Zenon, <1>2 DEF Erred
<1> QED
  BY Zenon, <1>1, <1>2 DEF Throw

(* The steps of a connection by how they end.                               *)
LEMMA Ends ==
  ASSUME Shape, NEW s \in Sessions
  PROVE  /\ \A code \in Statuses \ {0} : AsAsked(s, code) => Answered(s)
         /\ \A code \in Silent : Reply(s, code) => Plain(s)
         /\ SqlOk(s) => Run(s) /\ Wrote(s) /\ Answered(s) /\ UNCHANGED issued
         /\ SqlFails(s) => \/ Erred(s)
                           \/ Run(s) /\ Wrote(s) /\ Answered(s) /\ UNCHANGED issued
         /\ \/ Unknown(s) \/ Health(s) \/ Swagger(s) \/ Invalid(s) \/ LookFails(s)
            \/ HandlerThrows(s) \/ SqlDuplicate(s) \/ LoginFails(s)
            => Erred(s)
<1>1. \A code \in Statuses \ {0} : AsAsked(s, code) => Answered(s)
  BY DEF AsAsked, Answered
<1>2. \A code \in Silent : Reply(s, code) => Plain(s)
  BY DEF AsAsked, Reply, Plain
<1>3. Throw(s) => Erred(s)
  BY Zenon, ThrownIsErred
<1>4. ASSUME SqlOk(s) PROVE Answered(s)
  <2>1. Success(req[s].leaf) \in Statuses \ {0}
    BY <1>4 DEF SqlOk, Success, Statuses, Shape, Knows
  <2> QED
    BY <1>1, <1>4, <2>1 DEF SqlOk
<1>5. SqlOk(s) => Run(s) /\ Wrote(s) /\ Answered(s) /\ UNCHANGED issued
  BY <1>4 DEF SqlOk
<1>6. ASSUME Answer(s, 500, FALSE) PROVE Answered(s)
  <2>1. 500 \in Statuses \ {0} /\ FALSE \in BOOLEAN
    BY DEF Statuses
  <2> QED
    BY <1>6, <2>1, Zenon DEF Answered
<1>7. SqlFails(s) => \/ Erred(s)
                     \/ Run(s) /\ Wrote(s) /\ Answered(s) /\ UNCHANGED issued
  BY <1>3, <1>6 DEF SqlFails
<1>8. Unknown(s) => Plain(s)
  BY Zenon, Unauthorised DEF Unknown
<1>9. Health(s) \/ Swagger(s) \/ Invalid(s) => Plain(s)
  BY <1>2 DEF Health, Swagger, Invalid, Statuses, Silent
<1>10. LookFails(s) \/ SqlDuplicate(s) \/ LoginFails(s) => Erred(s)
  BY <1>2, <1>3 DEF LookFails, SqlDuplicate, LoginFails, Erred, Statuses, Silent
<1>11. HandlerThrows(s) => Erred(s)
  BY Zenon, <1>3 DEF HandlerThrows, Unrendered, Erred
<1> QED
  BY <1>1, <1>2, <1>5, <1>7, <1>8, <1>9, <1>10, <1>11 DEF Erred

(* The steps that end in an answer, or an end, without a statement.         *)
LEMMA ErredShape ==
  ASSUME Shape, NEW s \in Sessions, Erred(s)
  PROVE  Shape'
<1>1. CASE Plain(s)
  <2>1. Answered(s)
    BY <1>1 DEF Plain, Answered, Silent
  <2> QED
    BY <1>1, <2>1, AnswerShape DEF Plain, Quiet, Shape, TypeOK, RowsOk
<1>2. CASE Forget(s, "off") /\ UNCHANGED control
  BY <1>2, ForgetShape
<1> QED
  BY <1>1, <1>2 DEF Erred

(* A request that dispatch or the middleware refuses.                       *)
LEMMA ReadRefused ==
  ASSUME NEW s, NEW d \in Dispatched, NEW token, Read(s, d, token),
         d.refusal # 0 \/ Answer(s, 401, TRUE)
  PROVE  Erred(s)
<1>1. \/ Unrendered(s, d.raw)
      \/ /\ \/ Answer(s, d.refusal, d.refusal = 200) /\ d.refusal # 0
            \/ Answer(s, 401, TRUE)
         /\ Quiet /\ UNCHANGED wrote
  BY DEF Read
<1>2. ASSUME Answer(s, d.refusal, d.refusal = 200), d.refusal # 0,
             Quiet, UNCHANGED wrote
      PROVE  Plain(s)
  <2>1. d.refusal \in Silent
    BY <1>2, DispatchedAre DEF Silent, Statuses
  <2>2. CASE d.refusal = 200
    <3>1. Answer(s, d.refusal, TRUE)
      BY <1>2, <2>2
    <3> QED
      BY <1>2, <2>1, <3>1, PlainAnswer
  <2>3. CASE d.refusal # 200
    <3>1. Answer(s, d.refusal, FALSE)
      BY <1>2, <2>3
    <3> QED
      BY <1>2, <2>1, <3>1, PlainAnswer
  <2> QED
    BY <2>2, <2>3
<1>3. ASSUME Answer(s, 401, TRUE), Quiet, UNCHANGED wrote
      PROVE  Plain(s)
  BY Zenon, <1>3, Unauthorised
<1> QED
  BY Zenon, <1>1, <1>2, <1>3 DEF Unrendered, Erred

(* Every step keeps the types and what steps know.                          *)
LEMMA ShapeStep ==
  ASSUME Shape, [Next]_vars
  PROVE  Shape'
<1> USE HttpAssumption
<1>1. ASSUME NEW s \in Sessions, Work(s) \/ DbAnswers(s)
      PROVE  Shape'
  <2>1. CASE Unknown(s) \/ Health(s) \/ Swagger(s) \/ Invalid(s)
    BY <2>1, Ends, ErredShape
  <2>2. CASE LookFails(s) \/ HandlerThrows(s) \/ SqlDuplicate(s) \/ LoginFails(s)
    BY <2>2, Ends, ErredShape
  <2>3. CASE SqlOk(s) \/ SqlFails(s)
    <3>1. CASE Erred(s)
      BY <3>1, ErredShape
    <3>2. CASE Run(s) /\ Wrote(s) /\ Answered(s) /\ UNCHANGED issued
      <4>1. pc[s] = "sql"
        BY <2>3 DEF SqlOk, SqlFails
      <4> QED
        BY <3>2, <4>1, RunRows, AnswerShape DEF Wrote, Shape, TypeOK
    <3> QED
      BY <2>3, <3>1, <3>2, Ends
  <2>4. CASE Verify(s)
    <3>1. CASE Reply(s, 422)
      BY <3>1, Ends, ErredShape DEF Erred, Statuses, Silent
    <3>2. CASE /\ issued' = issued \cup {arg[s]}
               /\ AsAsked(s, 201) /\ UNCHANGED <<row, wrote>>
      <4>1. arg[s] \in Users
        BY <2>4 DEF Verify, Shape, Knows
      <4>2. Answered(s)
        BY <3>2, Ends DEF Statuses
      <4> QED
        BY <3>2, <4>1, <4>2, AnswerShape DEF Shape, TypeOK, RowsOk
    <3> QED
      BY <2>4, <3>1, <3>2 DEF Verify
  <2>5. CASE Lookup(s) \/ Fetch(s)
    <3>1. CASE Reply(s, 422)
      BY <3>1, Ends, ErredShape DEF Erred, Statuses, Silent
    <3>2. ASSUME NEW step \in {"fetch", "verify"}, LoginStep(s, step),
                 pc[s] \in {"lookup", "fetch"}, NEW x \in Users \cup Emails,
                 arg' = [arg EXCEPT ![s] = x],
                 step = "fetch" => x \in Emails, step = "verify" => x \in Users
          PROVE  Shape'
      <4>1. Knows(s)'
        BY <3>2 DEF LoginStep, Goto, Shape, TypeOK, Knows, Serving
      <4>2. req' = [req EXCEPT ![s] = req[s]] /\ req[s] \in Requests
        BY <3>2 DEF LoginStep, Shape, TypeOK
      <4> QED
        BY <3>2, <4>1, <4>2, GotoShape DEF LoginStep, Steps, Shape, TypeOK
    <3>3. CASE LoginStep(s, "fetch") /\ UNCHANGED arg /\ pc[s] = "lookup"
      <4>1. arg[s] \in Emails /\ arg' = [arg EXCEPT ![s] = arg[s]]
        BY <3>3 DEF Shape, TypeOK, Knows
      <4> QED
        BY <3>2, <3>3, <4>1
    <3>4. ASSUME NEW u \in Users, arg' = [arg EXCEPT ![s] = u], LoginStep(s, "verify"),
                 pc[s] = "fetch"
          PROVE  Shape'
      BY <3>2, <3>4
    <3> QED
      BY <2>5, <3>1, <3>3, <3>4 DEF Lookup, Fetch
  <2>6. CASE Known(s)
    <3>1. Knows(s)' /\ pc[s] = "exists"
      BY <2>6 DEF Known, Goto, Same, Shape, TypeOK, Knows, Serving
    <3>2. /\ req' = [req EXCEPT ![s] = req[s]] /\ req[s] \in Requests
          /\ arg' = [arg EXCEPT ![s] = arg[s]]
      BY <2>6 DEF Known, Same, Shape, TypeOK
    <3> QED
      BY <2>6, <3>1, <3>2, GotoShape DEF Known, Same, Steps, Shape, TypeOK
  <2>7. CASE Proceed(s)
    <3>1. PICK x \in Users \cup Emails \cup {Nobody} :
            /\ req[s].leaf \in Named => x \in Emails
            /\ req[s].leaf \in {"update", "remove"} => x \in Users
            /\ arg' = [arg EXCEPT ![s] = x]
      BY <2>7 DEF Proceed
    <3>2. PICK step \in {"lookup", "sql"} :
            Goto(s, step) /\ (step = "lookup" <=> req[s].leaf = "login")
      BY <2>7 DEF Proceed
    <3> DEFINE r == [req[s] EXCEPT !.json = FALSE]
    <3>3. r \in Requests /\ r.leaf = req[s].leaf
      <4>1. req[s] \in Requests
        BY DEF Shape, TypeOK
      <4> HIDE DEF Shape
      <4> QED
        BY <4>1 DEF Requests
    <3>4. req' = [req EXCEPT ![s] = r]
      BY <2>7 DEF Proceed
    <3> HIDE DEF r
    <3>5. req[s].leaf \in Leaves \ {"health", "swagger"} /\ pc[s] = "handler"
      BY <2>7 DEF Proceed, Shape, Knows, Serving
    <3>6. Knows(s)'
      BY <2>7, <3>1, <3>2, <3>3, <3>4, <3>5, TableLeaves DEF Proceed, Goto, Shape, TypeOK,
         Knows, Serving, Named
    <3> QED
      BY <2>7, <3>1, <3>2, <3>3, <3>4, <3>5, <3>6, GotoShape DEF Proceed, Steps, Shape, TypeOK
  <2> QED
    BY <1>1, <2>1, <2>2, <2>3, <2>4, <2>5, <2>6, <2>7 DEF Work, DbAnswers
<1>2. ASSUME NEW s \in Sessions, NEW d \in Dispatched, NEW token \in Users \cup {Nobody},
             Read(s, d, token)
      PROVE  Shape'
  <2>2. CASE d.refusal # 0 \/ Answer(s, 401, TRUE)
    BY <1>2, <2>2, ReadRefused, ErredShape
  <2> DEFINE r == [leaf |-> d.leaf, head |-> d.head, json |-> d.json, raw |-> d.raw,
                   token |-> IF d.guarded THEN token ELSE Nobody]
             step == IF d.guarded THEN "exists" ELSE "handler"
  <2>3. CASE /\ d.refusal = 0 /\ (d.guarded => token # Nobody)
             /\ req' = [req EXCEPT ![s] = r]
             /\ late' = [late EXCEPT ![s] = d.guarded /\ row[token] = "gone"]
             /\ Goto(s, step)
             /\ UNCHANGED <<arg, wrote>> /\ Quiet
    <3>1. r \in Requests /\ r.leaf \in Leaves /\ (d.guarded => r.token \in Users)
      BY <2>3, DispatchedAre DEF Requests
    <3> HIDE DEF r
    <3>2. step \in {"exists", "handler"} /\ (step = "exists" => d.guarded)
      OBVIOUS
    <3> HIDE DEF step
    <3>3. pc[s] = "reading" /\ Quiet /\ UNCHANGED wrote
      BY <1>2, <2>3 DEF Read
    <3>4. Knows(s)'
      BY <2>3, <3>1, <3>2, <3>3 DEF Goto, Shape, TypeOK, Knows, Serving
    <3>5. arg' = [arg EXCEPT ![s] = arg[s]] /\ late' \in [Sessions -> BOOLEAN]
      BY <2>3, DispatchedAre DEF Shape, TypeOK
    <3> QED
      BY <2>3, <3>1, <3>2, <3>3, <3>4, <3>5, GotoShape DEF Steps, Shape, TypeOK
  <2> QED
    BY <1>2, <2>2, <2>3 DEF Read
<1>3. ASSUME NEW s \in Sessions, Connect(s) \/ Accept(s)
      PROVE  Shape'
  <2>1. PICK step \in {"backlog", "reading"} : Goto(s, step)
    BY <1>3 DEF Connect, Accept
  <2>2. /\ req' = [req EXCEPT ![s] = req[s]] /\ req[s] \in Requests
        /\ arg' = [arg EXCEPT ![s] = arg[s]] /\ pc[s] # "writing"
    BY <1>3 DEF Connect, Accept, Same, Shape, TypeOK
  <2>3. Knows(s)'
    BY <1>3, <2>1 DEF Connect, Accept, Same, Goto, Shape, TypeOK, Knows, Serving
  <2> QED
    BY <1>3, <2>1, <2>2, <2>3, GotoShape DEF Connect, Accept, Same, Steps, Shape, TypeOK
<1>4. ASSUME NEW s \in Sessions, ReadFails(s) \/ Write(s) \/ WriteFails(s)
      PROVE  Shape'
  <2>1. PICK step \in {"off", "reading"} : Forget(s, step) /\ UNCHANGED control
    BY <1>4 DEF ReadFails, Write, WriteFails
  <2> QED
    BY <2>1, ForgetShape
<1>5. CASE AcceptFails
  BY <1>5 DEF AcceptFails, Same, Quiet, answer, Shape, TypeOK, Knows, Serving, Steps
<1>6. CASE Stop
  <2>1. NoRequest \in Requests
    BY DEF Requests, NoRequest
  <2>2. TypeOK'
    <3>1. /\ pc' = [s \in Sessions |-> "off"] /\ req' = [s \in Sessions |-> NoRequest]
          /\ arg' = [s \in Sessions |-> Nobody] /\ status' = [s \in Sessions |-> 0]
          /\ keep' = [s \in Sessions |-> FALSE] /\ wrote' = [s \in Sessions |-> FALSE]
          /\ late' = [s \in Sessions |-> FALSE]
      BY <1>6 DEF Stop
    <3>2. /\ pc' \in [Sessions -> Steps] /\ status' \in [Sessions -> Statuses]
          /\ req' \in [Sessions -> Requests]
          /\ arg' \in [Sessions -> Users \cup Emails \cup {Nobody}]
          /\ keep' \in [Sessions -> BOOLEAN] /\ wrote' \in [Sessions -> BOOLEAN]
          /\ late' \in [Sessions -> BOOLEAN]
          /\ \A s \in Sessions : pc'[s] = "writing" <=> status'[s] # 0
      BY <2>1, <3>1 DEF Steps, Statuses
    <3>3. listening' \in BOOLEAN /\ stopped' \in BOOLEAN /\ UNCHANGED <<row, issued>>
      BY <1>6 DEF Stop, Quiet
    <3> QED
      BY <3>2, <3>3 DEF Shape, TypeOK
  <2>3. ASSUME NEW s \in Sessions
        PROVE  Knows(s)'
    <3>1. pc'[s] = "off" /\ wrote'[s] = FALSE
      BY <1>6 DEF Stop
    <3> QED
      BY <3>1 DEF Knows, Serving
  <2> QED
    BY <2>2, <2>3 DEF Shape
<1>7. ASSUME NEW u \in Users, Expire(u)
      PROVE  Shape'
  BY <1>7 DEF Expire, control, answer, Shape, TypeOK, Knows, Serving
<1>8. CASE UNCHANGED vars
  BY <1>8 DEF vars, control, answer, Shape, TypeOK, Knows
<1> QED
  BY <1>1, <1>2, <1>3, <1>4, <1>5, <1>6, <1>7, <1>8 DEF Next, Running

(* Types, and what a connection's step says of its request, hold            *)
(* throughout.                                                              *)
LEMMA ShapeInvariant == Spec => []Shape
<1>1. Init => Shape
  <2>1. NoRequest \in Requests
    BY DEF Requests, NoRequest
  <2> QED
    <3>1. Init => TypeOK
      <4> SUFFICES ASSUME Init PROVE TypeOK
        OBVIOUS
      <4>1. /\ listening \in BOOLEAN /\ stopped \in BOOLEAN
            /\ keep \in [Sessions -> BOOLEAN] /\ wrote \in [Sessions -> BOOLEAN]
            /\ late \in [Sessions -> BOOLEAN]
        BY DEF Init
      <4>2. /\ row \in [Users -> {"unborn", "gone"} \cup Emails]
            /\ \A u, v \in Users : row[u] \notin Emails
            /\ issued \subseteq Users
        BY HttpAssumption DEF Init
      <4>3. /\ pc \in [Sessions -> Steps] /\ status \in [Sessions -> Statuses]
            /\ \A s \in Sessions : (pc[s] = "writing") <=> (status[s] # 0)
        BY DEF Init, Steps, Statuses
      <4>4. /\ req \in [Sessions -> Requests]
            /\ arg \in [Sessions -> Users \cup Emails \cup {Nobody}]
        BY <2>1 DEF Init
      <4> QED
        BY <4>1, <4>2, <4>3, <4>4 DEF TypeOK
    <3>2. Init => \A s \in Sessions : Knows(s)
      BY DEF Init, Knows, Serving
    <3> QED
      BY <3>1, <3>2 DEF Shape
<1>2. Shape /\ [Next]_vars => Shape'
  BY ShapeStep
<1> QED
  BY <1>1, <1>2, PTL DEF Spec
-----------------------------------------------------------------------------
(* What a step of one connection changes.                                   *)
Reading(s) == \E d \in Dispatched, token \in Users \cup {Nobody} : Read(s, d, token)

Ending(s) == ReadFails(s) \/ Write(s) \/ WriteFails(s)

StepOf(s) ==
  Connect(s) \/ Accept(s) \/ Reading(s) \/ Ending(s) \/ Work(s) \/ DbAnswers(s)

Aside == AcceptFails \/ (\E u \in Users : Expire(u)) \/ Stop \/ UNCHANGED vars

(* A step is one connection's, or changes what no request holds.            *)
LEMMA NextSteps == [Next]_vars => (\E s \in Sessions : StepOf(s)) \/ Aside
  BY DEF Next, Running, StepOf, Aside, Reading, Ending

(* To read a request changes neither the rows nor the tokens.               *)
LEMMA ReadingIsQuiet ==
  ASSUME NEW s, Reading(s)
  PROVE  Quiet
<1>1. PICK d \in Dispatched, token \in Users \cup {Nobody} : Read(s, d, token)
  BY DEF Reading
<1>2. Unrendered(s, d.raw) => Quiet
  BY DEF Unrendered, Forget, Quiet
<1> QED
  BY <1>1, <1>2 DEF Read

(* Another connection's request is left alone.                              *)
LEMMA OthersKeep ==
  ASSUME Shape, NEW s \in Sessions, StepOf(s), NEW t \in Sessions, t # s
  PROVE  UNCHANGED <<pc[t], req[t], arg[t], wrote[t], status[t], late[t]>>
<1> USE DEF Shape, TypeOK
<1>1. ASSUME NEW code, NEW ka, Answer(s, code, ka)
      PROVE  UNCHANGED <<pc[t], req[t], arg[t], status[t], late[t]>>
  BY <1>1 DEF Answer
<1>2. ASSUME NEW step, Forget(s, step)
      PROVE  UNCHANGED <<pc[t], req[t], arg[t], wrote[t], status[t], late[t]>>
  BY <1>2 DEF Forget
<1>3. CASE Erred(s)
  BY <1>1, <1>2, <1>3 DEF Erred, Plain
<1>4. CASE Run(s) /\ Wrote(s) /\ Answered(s)
  BY <1>1, <1>4 DEF Answered, Wrote
<1>5. CASE Connect(s) \/ Accept(s) \/ Known(s)
  BY <1>5 DEF Connect, Accept, Known, Goto, Same, answer
<1>6. CASE Proceed(s)
  BY <1>6 DEF Proceed, Goto, answer
<1>7. CASE Verify(s) \/ Lookup(s) \/ Fetch(s)
  <2>1. CASE Reply(s, 422)
    BY <1>1, <2>1 DEF Reply, AsAsked
  <2>2. CASE AsAsked(s, 201) /\ UNCHANGED wrote
    BY <1>1, <2>2 DEF AsAsked
  <2>3. ASSUME NEW step, LoginStep(s, step),
               UNCHANGED arg \/ \E u \in Users : arg' = [arg EXCEPT ![s] = u]
        PROVE  UNCHANGED <<pc[t], req[t], arg[t], wrote[t], status[t], late[t]>>
    BY <2>3 DEF LoginStep, Goto, answer
  <2> QED
    BY <1>7, <2>1, <2>2, <2>3 DEF Verify, Lookup, Fetch
<1>8. CASE Ending(s)
  BY <1>2, <1>8 DEF Ending, ReadFails, Write, WriteFails
<1>9. ASSUME NEW d \in Dispatched, NEW token \in Users \cup {Nobody}, Read(s, d, token)
      PROVE  UNCHANGED <<pc[t], req[t], arg[t], wrote[t], status[t], late[t]>>
  <2>1. CASE Erred(s)
    BY <1>3, <2>1
  <2>2. CASE ~(d.refusal # 0 \/ Answer(s, 401, TRUE))
    BY <1>9, <2>2 DEF Read, Goto, answer
  <2> QED
    BY <1>9, <2>1, <2>2, ReadRefused
<1> QED
  BY <1>3, <1>4, <1>5, <1>6, <1>7, <1>8, <1>9, Ends DEF StepOf, Reading, Work, DbAnswers

(* Where a request is over.                                                 *)
LEMMA OverAt ==
  ASSUME Shape, NEW s \in Sessions, Answered(s) \/ Erred(s) \/ Ending(s)
  PROVE  pc'[s] \in {"off", "reading", "writing"}
<1> USE DEF Shape, TypeOK
<1>1. ASSUME NEW code, NEW ka, Answer(s, code, ka)
      PROVE  pc'[s] = "writing"
  BY <1>1 DEF Answer
<1>2. ASSUME NEW step, Forget(s, step)
      PROVE  pc'[s] = step
  BY <1>2 DEF Forget
<1> QED
  BY <1>1, <1>2 DEF Answered, Erred, Plain, Ending, ReadFails, Write, WriteFails
-----------------------------------------------------------------------------
(* A user once inserted stays inserted, one removed stays removed: the ids  *)
(* of table users are not used again.                                       *)
LEMMA RowsLast ==
  ASSUME Shape, [Next]_vars, NEW u \in Users
  PROVE  /\ row[u] # "unborn" => row'[u] # "unborn"
         /\ row[u] = "gone" => row'[u] = "gone"
<1> USE HttpAssumption DEF Shape, TypeOK
<1>1. CASE UNCHANGED row
  BY <1>1
<1>2. ASSUME NEW s \in Sessions, pc[s] = "sql", Run(s)
      PROVE  /\ row[u] # "unborn" => row'[u] # "unborn"
             /\ row[u] = "gone" => row'[u] = "gone"
  <2>1. RowsOk'
    BY <1>2, RunRows
  <2>2. CASE req[s].leaf \in {"store", "registration"}
    <3>1. PICK v \in Users : row[v] = "unborn" /\ row' = [row EXCEPT ![v] = arg[s]]
      BY <1>2, <2>2 DEF Run
    <3>2. arg[s] \in Emails
      BY <1>2, <2>2 DEF Knows, Named
    <3> QED
      BY <3>1, <3>2
  <2>3. CASE req[s].leaf = "update" \/ req[s].leaf = "remove"
    BY <1>2, <2>3 DEF Run, Exists
  <2>4. CASE UNCHANGED row
    BY <2>4
  <2> QED
    BY <1>2, <2>2, <2>3, <2>4 DEF Run
<1>3. ASSUME NEW s \in Sessions, StepOf(s)
      PROVE  UNCHANGED row \/ (pc[s] = "sql" /\ Run(s))
  BY <1>3, Ends, ReadingIsQuiet DEF StepOf, Connect, Accept, Ending, ReadFails, Write, WriteFails,
     Work, DbAnswers, Erred, Plain, Forget, Quiet, Known, Lookup, Fetch, LoginStep, Reply,
     Verify, Proceed, SqlOk, SqlFails
<1>4. Aside => UNCHANGED row
  BY DEF Aside, AcceptFails, Expire, Stop, Quiet, vars
<1> QED
  BY <1>1, <1>2, <1>3, <1>4, NextSteps
-----------------------------------------------------------------------------
(* A token is of a user who has been there; a request past the middleware,  *)
(* or with a leaf that needs it, carries one that was good when read.       *)
Authorised(s) ==
  /\ pc[s] = "exists" =>
       row[req[s].token] # "unborn" /\ (late[s] => row[req[s].token] = "gone")
  /\ pc[s] \in {"handler", "sql"} /\ req[s].leaf \in Protected =>
       req[s].token \in Users /\ row[req[s].token] # "unborn" /\ ~late[s]
  /\ pc[s] = "verify" => row[arg[s]] # "unborn"

Lawful ==
  /\ \A u \in issued : row[u] # "unborn"
  /\ \A s \in Sessions : Authorised(s)

(* Tokens are issued by Verify only, to a user that Fetch has seen.         *)
LEMMA IssuedStep ==
  ASSUME Shape, Lawful, [Next]_vars
  PROVE  \A u \in issued' : row'[u] # "unborn"
<1> USE DEF Shape
<1>1. issued \subseteq Users /\ \A u \in issued : row'[u] # "unborn"
  BY RowsLast DEF TypeOK, Lawful
<1>2. CASE issued' \subseteq issued
  BY <1>1, <1>2
<1>3. ASSUME NEW s \in Sessions, Verify(s), issued' = issued \cup {arg[s]}
      PROVE  \A u \in issued' : row'[u] # "unborn"
  <2>1. arg[s] \in Users /\ row[arg[s]] # "unborn"
    BY <1>3 DEF Verify, Knows, Lawful, Authorised
  <2> QED
    BY <1>1, <1>3, <2>1, RowsLast
<1>4. ASSUME NEW s \in Sessions, StepOf(s)
      PROVE  issued' \subseteq issued \/ (Verify(s) /\ issued' = issued \cup {arg[s]})
  BY <1>4, Ends, ReadingIsQuiet DEF StepOf, Connect, Accept, Ending, ReadFails, Write, WriteFails,
     Work, DbAnswers, Erred, Plain, Forget, Quiet, Known, Lookup, Fetch,
     LoginStep, Reply, Verify, Proceed
<1>5. Aside => issued' \subseteq issued
  BY DEF Aside, AcceptFails, Expire, Stop, Quiet, vars
<1> QED
  BY <1>2, <1>3, <1>4, <1>5, NextSteps

(* The middleware lets through a user it has found; no row comes back, so   *)
(* one that was gone when the token was read is not found.                  *)
LEMMA AuthorisedStep ==
  ASSUME Shape, Lawful, [Next]_vars, NEW t \in Sessions
  PROVE  Authorised(t)'
<1> USE HttpAssumption DEF Shape
<1>1. CASE UNCHANGED <<pc[t], req[t], arg[t], late[t]>>
  <2>1. pc[t] = "exists" => req[t].token \in Users
    BY DEF Knows
  <2>2. pc[t] = "verify" => arg[t] \in Users
    BY DEF Knows
  <2> QED
    BY <1>1, <2>1, <2>2, RowsLast DEF Authorised, Lawful
<1>2. CASE pc'[t] \notin {"exists", "handler", "sql", "verify"}
  BY <1>2 DEF Authorised
<1>3. CASE Aside
  <2>1. CASE AcceptFails
    BY <1>1, <1>2, <2>1 DEF AcceptFails, Same, TypeOK
  <2>2. CASE Stop
    BY <1>2, <2>2 DEF Stop
  <2>3. CASE (\E u \in Users : Expire(u)) \/ UNCHANGED vars
    BY <1>1, <2>3 DEF Expire, vars
  <2> QED
    BY <1>3, <2>1, <2>2, <2>3 DEF Aside
<1>4. ASSUME NEW s \in Sessions, StepOf(s), s # t
      PROVE  Authorised(t)'
  BY <1>1, <1>4, OthersKeep
<1>5. CASE Answered(t) \/ Erred(t) \/ Ending(t)
  BY <1>2, <1>5, OverAt
<1>6. CASE Connect(t) \/ Accept(t)
  BY <1>2, <1>6 DEF Connect, Accept, Goto, TypeOK
<1>7. CASE Known(t)
  <2>1. /\ pc[t] = "exists" /\ pc'[t] = "handler" /\ UNCHANGED <<row, req, late>>
        /\ row[req[t].token] \in Emails
    BY <1>7 DEF Known, Goto, Same, Quiet, TypeOK
  <2> QED
    BY <2>1 DEF Authorised, Lawful, Knows
<1>8. CASE Proceed(t)
  <2>1. /\ pc[t] = "handler" /\ pc'[t] \in {"sql", "lookup"} /\ UNCHANGED <<row, late>>
        /\ req'[t] = [req[t] EXCEPT !.json = FALSE]
    BY <1>8 DEF Proceed, Goto, Quiet, TypeOK
  <2>2. req'[t].leaf = req[t].leaf /\ req'[t].token = req[t].token
    BY <2>1 DEF TypeOK, Requests
  <2> QED
    BY <2>1, <2>2 DEF Authorised, Lawful
<1>9. CASE LoginStep(t, "fetch")
  BY <1>2, <1>9 DEF LoginStep, Goto, TypeOK
<1>10. ASSUME NEW u \in Users, row[u] = arg[t], pc[t] = "fetch",
              arg' = [arg EXCEPT ![t] = u], LoginStep(t, "verify")
       PROVE  Authorised(t)'
  <2>1. pc'[t] = "verify" /\ arg'[t] = u /\ UNCHANGED row
    BY <1>10 DEF LoginStep, Goto, Quiet, TypeOK
  <2>2. row[u] \in Emails
    BY <1>10 DEF Knows
  <2> QED
    BY <2>1, <2>2 DEF Authorised
<1>11. CASE Lookup(t) \/ Fetch(t) \/ Verify(t)
  BY <1>5, <1>9, <1>10, <1>11, Ends DEF Lookup, Fetch, Verify, Reply, Statuses, Silent
<1>12. ASSUME NEW d \in Dispatched, NEW token \in Users \cup {Nobody}, Read(t, d, token)
       PROVE  Authorised(t)'
  <2>1. CASE Erred(t)
    BY <1>5, <2>1
  <2>2. CASE ~(d.refusal # 0 \/ Answer(t, 401, TRUE))
    <3> DEFINE r == [leaf |-> d.leaf, head |-> d.head, json |-> d.json, raw |-> d.raw,
                     token |-> IF d.guarded THEN token ELSE Nobody]
    <3>1. /\ d.refusal = 0 /\ (d.guarded => token # Nobody) /\ token \in Decoded
          /\ req' = [req EXCEPT ![t] = r]
          /\ late' = [late EXCEPT ![t] = d.guarded /\ row[token] = "gone"]
          /\ pc'[t] = (IF d.guarded THEN "exists" ELSE "handler")
          /\ UNCHANGED row
      BY <1>12, <2>2 DEF Read, Goto, Quiet, TypeOK
    <3>2. d.guarded \in BOOLEAN /\ (d.leaf \in Protected => d.guarded)
      BY <3>1, DispatchedAre
    <3>3. req'[t].leaf = d.leaf /\ (d.guarded => req'[t].token = token)
      BY <3>1 DEF TypeOK
    <3>4. late'[t] <=> d.guarded /\ row[token] = "gone"
      BY <3>1 DEF TypeOK
    <3>5. d.guarded => row[token] # "unborn"
      BY <3>1 DEF Decoded, Lawful
    <3> QED
      BY <3>1, <3>2, <3>3, <3>4, <3>5 DEF Authorised
  <2> QED
    BY <1>12, <2>1, <2>2, ReadRefused
<1>13. ASSUME StepOf(t)
       PROVE  Authorised(t)'
  BY <1>5, <1>6, <1>7, <1>8, <1>11, <1>12, <1>13, Ends DEF StepOf, Reading, Work, DbAnswers
<1> QED
  BY <1>3, <1>4, <1>13, NextSteps
-----------------------------------------------------------------------------
(* An answer keeps the leaf of its request.                                 *)
LEMMA AnswerKeepsLeaf ==
  ASSUME Shape, NEW s \in Sessions, NEW code, NEW ka, Answer(s, code, ka)
  PROVE  pc'[s] = "writing" /\ status'[s] = code /\ req'[s].leaf = req[s].leaf
<1>1. req'[s] = [NoRequest EXCEPT !.leaf = req[s].leaf]
  BY DEF Answer, Shape, TypeOK
<1> QED
  BY <1>1 DEF Answer, Shape, TypeOK, NoRequest

(* A statement answered with 201 has inserted a row; a listing changes none.*)
LEMMA WroteIs ==
  ASSUME Shape, NEW s \in Sessions, pc[s] = "sql", Run(s), Wrote(s)
  PROVE  /\ req[s].leaf \in {"store", "registration"} => wrote'[s]
         /\ req[s].leaf = "index" => ~wrote'[s]
         /\ req[s].leaf # "login"
<1> USE HttpAssumption DEF Shape, TypeOK
<1>1. wrote'[s] <=> row' # row
  BY DEF Wrote
<1>2. CASE req[s].leaf \in {"store", "registration"}
  <2>1. PICK u \in Users : row[u] = "unborn" /\ row' = [row EXCEPT ![u] = arg[s]]
    BY <1>2 DEF Run
  <2>2. arg[s] \in Emails
    BY <1>2 DEF Knows, Named
  <2>3. row'[u] # row[u]
    BY <2>1, <2>2
  <2> QED
    BY <1>1, <1>2, <2>3
<1>3. CASE req[s].leaf \notin {"store", "registration"}
  BY <1>1, <1>3 DEF Run, Knows
<1> QED
  BY <1>2, <1>3

Effect(s) == pc[s] = "writing" =>
  /\ status[s] \in 400..499 => ~wrote[s]
  /\ status[s] = 201 /\ req[s].leaf # "login" => wrote[s]
  /\ req[s].leaf \in {"index", "login"} => ~wrote[s]

(* Nothing was written before the answer that tells of it.                  *)
LEMMA EffectStep ==
  ASSUME Shape, AnswerTellsEffect, [Next]_vars
  PROVE  AnswerTellsEffect'
<1> USE DEF Shape
<1> SUFFICES ASSUME NEW t \in Sessions PROVE Effect(t)'
  BY DEF AnswerTellsEffect, Effect
<1>1. CASE UNCHANGED <<pc[t], req[t], status[t], wrote[t]>>
  <2>1. Effect(t)
    BY DEF AnswerTellsEffect, Effect
  <2> QED
    BY <1>1, <2>1 DEF Effect
<1>2. CASE pc'[t] # "writing"
  BY <1>2 DEF Effect
<1>3. CASE Aside
  BY <1>1, <1>2, <1>3 DEF Aside, AcceptFails, Expire, Stop, Same, answer, vars, TypeOK
<1>4. ASSUME NEW s \in Sessions, StepOf(s), s # t
      PROVE  Effect(t)'
  BY <1>1, <1>4, OthersKeep
<1>5. CASE Plain(t) /\ pc[t] # "writing"
  <2>1. ~wrote'[t]
    BY <1>5 DEF Plain, Knows
  <2>2. status'[t] # 201
    BY <1>5, AnswerKeepsLeaf DEF Plain, Silent
  <2> QED
    BY <2>1, <2>2 DEF Effect
<1>6. CASE Erred(t) /\ pc[t] # "writing"
  BY <1>2, <1>5, <1>6 DEF Erred, Forget, TypeOK
<1>7. CASE Ending(t)
  BY <1>2, <1>7 DEF Ending, ReadFails, Write, WriteFails, Forget, TypeOK
<1>8. CASE SqlOk(t)
  <2>1. PICK ka : Answer(t, Success(req[t].leaf), ka)
    BY <1>8 DEF SqlOk, AsAsked
  <2>2. pc[t] = "sql" /\ Run(t) /\ Wrote(t)
    BY <1>8 DEF SqlOk
  <2>3. status'[t] = Success(req[t].leaf) /\ req'[t].leaf = req[t].leaf
    BY <2>1, AnswerKeepsLeaf
  <2>4. CASE req[t].leaf \in {"store", "registration"}
    <3>1. status'[t] = 201
      BY <2>3, <2>4 DEF Success
    <3> QED
      BY <2>2, <2>3, <2>4, <3>1, WroteIs DEF Effect
  <2>5. CASE req[t].leaf = "index"
    <3>1. status'[t] = 200
      BY <2>3, <2>5 DEF Success
    <3> QED
      BY <2>2, <2>3, <2>5, <3>1, WroteIs DEF Effect
  <2>6. CASE req[t].leaf \in {"update", "remove"}
    <3>1. status'[t] = 204
      BY <2>3, <2>6 DEF Success
    <3> QED
      BY <2>2, <2>3, <2>6, <3>1 DEF Effect
  <2> QED
    BY <2>2, <2>4, <2>5, <2>6 DEF Knows
<1>9. CASE SqlFails(t)
  <2>1. CASE Run(t) /\ Wrote(t) /\ Answer(t, 500, FALSE)
    <3>1. status'[t] = 500 /\ req'[t].leaf = req[t].leaf
      <4>1. PICK ka : Answer(t, 500, ka)
        BY <2>1, Zenon
      <4> QED
        BY <4>1, AnswerKeepsLeaf
    <3>2. pc[t] = "sql" /\ Run(t) /\ Wrote(t)
      BY <1>9, <2>1 DEF SqlFails
    <3> QED
      BY <3>1, <3>2, WroteIs DEF Effect
  <2>2. pc[t] = "sql"
    BY <1>9 DEF SqlFails
  <2>3. CASE Throw(t)
    <3>1. Erred(t)
      BY Zenon, <2>3, ThrownIsErred
    <3> QED
      BY <1>6, <2>2, <3>1
  <2> QED
    BY <1>9, <2>1, <2>3 DEF SqlFails
<1>10. CASE Verify(t)
  <2>1. pc[t] = "verify" /\ req[t].leaf = "login"
    BY <1>10 DEF Verify, Knows
  <2>2. CASE Reply(t, 422)
    BY <1>5, <2>1, <2>2, Ends DEF Statuses, Silent
  <2>3. CASE AsAsked(t, 201) /\ UNCHANGED wrote
    BY <2>1, <2>3, AnswerKeepsLeaf DEF AsAsked, Effect, Knows
  <2> QED
    BY <1>10, <2>2, <2>3 DEF Verify
<1>11. CASE Lookup(t) \/ Fetch(t)
  <2>1. CASE Reply(t, 422)
    BY <1>5, <1>11, <2>1, Ends DEF Lookup, Fetch, Statuses, Silent
  <2>2. ASSUME NEW step \in {"fetch", "verify"}, LoginStep(t, step)
        PROVE  Effect(t)'
    BY <1>2, <2>2 DEF LoginStep, Goto, TypeOK
  <2> QED
    BY <1>11, <2>1, <2>2 DEF Lookup, Fetch
<1>12. CASE Connect(t) \/ Accept(t) \/ Known(t) \/ Proceed(t)
  BY <1>2, <1>12 DEF Connect, Accept, Known, Proceed, Goto, TypeOK
<1>13. ASSUME NEW d \in Dispatched, NEW token \in Users \cup {Nobody}, Read(t, d, token)
       PROVE  Effect(t)'
  <2>1. CASE Erred(t)
    BY <1>6, <1>13, <2>1 DEF Read
  <2>2. CASE ~(d.refusal # 0 \/ Answer(t, 401, TRUE))
    BY <1>2, <1>13, <2>2 DEF Read, Goto, TypeOK
  <2> QED
    BY <1>13, <2>1, <2>2, ReadRefused
<1>14. CASE \/ Unknown(t) \/ Health(t) \/ Swagger(t) \/ Invalid(t) \/ LookFails(t)
            \/ HandlerThrows(t) \/ SqlDuplicate(t) \/ LoginFails(t)
  <2>1. pc[t] # "writing"
    BY <1>14 DEF Unknown, Health, Swagger, Invalid, LookFails, HandlerThrows, SqlDuplicate,
       LoginFails
  <2> QED
    BY <1>6, <1>14, <2>1, Ends
<1>15. ASSUME StepOf(t)
       PROVE  Effect(t)'
  BY <1>7, <1>8, <1>9, <1>10, <1>11, <1>12, <1>13, <1>14, <1>15 DEF StepOf, Reading, Work,
     DbAnswers
<1> QED
  BY <1>3, <1>4, <1>15, NextSteps
-----------------------------------------------------------------------------
(* The variables of HttpServer have their types: no two rows have the same  *)
(* email, and only a connection with an answer to write has a status.       *)
THEOREM HttpTypeCorrect == Spec => []TypeOK
  BY ShapeInvariant, PTL DEF Shape

(* AuthenticationMiddleware::handle: whatever the path, method or body, no  *)
(* controller under /users works for a request without a good token of a    *)
(* user that was still there when the request was read.                     *)
THEOREM AlwaysAuthorised == Spec => []OnlyAuthorised
<1>1. Init => Lawful
  BY DEF Init, Lawful, Authorised
<1>2. Shape /\ Lawful /\ [Next]_vars => Lawful'
  BY IssuedStep, AuthorisedStep DEF Lawful
<1>3. Shape /\ Lawful => OnlyAuthorised
  BY HttpAssumption DEF Lawful, Authorised, OnlyAuthorised
<1> QED
  BY <1>1, <1>2, <1>3, ShapeInvariant, PTL DEF Spec

(* The controllers' answers: a 4xx has changed no row, a 201 for a user has *)
(* made one, and a listing or a login never changes any.                    *)
THEOREM AnswersTellEffects == Spec => []AnswerTellsEffect
<1>1. Init => AnswerTellsEffect
  BY DEF Init, AnswerTellsEffect
<1>2. Shape /\ AnswerTellsEffect /\ [Next]_vars => AnswerTellsEffect'
  BY EffectStep
<1> QED
  BY <1>1, <1>2, ShapeInvariant, PTL DEF Spec
=============================================================================
