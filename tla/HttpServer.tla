----------------------------- MODULE HttpServer -----------------------------
(* The server as its clients see it: the listener, a session for each       *)
(* connection, and a request from its bytes to its answer, through dispatch,*)
(* the authentication middleware, a controller and its services, with the   *)
(* users' rows and the tokens they work on (core/bootstrap.cpp, the rest of *)
(* Router.cpp, middlewares/, controllers/, services/). Every step but Read  *)
(* ends where the coroutine is suspended. What a body or a path parameter   *)
(* says is looked at by the controller only, and chosen there.              *)
EXTENDS Router

CONSTANTS Sessions, Users, Emails, Nobody

ASSUME HttpAssumption ==
  /\ Nobody \notin Users \cup Emails
  /\ {"unborn", "gone"} \cap Emails = {}

VARIABLES
  listening,  \* the listener's coroutine runs
  stopped,    \* ioc.stop() has been called
  row,        \* the row of each id: not yet, no longer, or its email
  issued,     \* users with a token that is still good
  pc,         \* where each connection is
  req,        \* its request
  arg,        \* the id or email its controller works on
  status,     \* its answer's
  keep,       \* does the answer keep the connection
  wrote,      \* history: has the request changed a row
  late        \* history: the token's user was gone when it was read

control == <<listening, stopped>>
answer == <<status, keep>>
vars == <<control, row, issued, pc, req, arg, answer, wrote, late>>

Steps == {"off", "backlog", "reading", "exists", "handler", "sql",
          "lookup", "fetch", "verify", "writing"}
Serving == {"exists", "handler", "sql", "lookup", "fetch", "verify"}
Requests == [leaf : Leaves \cup {"none"}, head : BOOLEAN, json : BOOLEAN,
             raw : BOOLEAN, token : Users \cup {Nobody}]
NoRequest == [leaf |-> "none", head |-> FALSE, json |-> FALSE, raw |-> FALSE,
              token |-> Nobody]
Statuses == {0, 200, 201, 204, 302, 400, 401, 404, 405, 409, 415, 422, 500}

TypeOK ==
  /\ listening \in BOOLEAN /\ stopped \in BOOLEAN
  /\ row \in [Users -> {"unborn", "gone"} \cup Emails]
  /\ \A u, v \in Users : u # v /\ row[u] = row[v] => row[u] \notin Emails
  /\ issued \subseteq Users
  /\ pc \in [Sessions -> Steps]
  /\ req \in [Sessions -> Requests]
  /\ arg \in [Sessions -> Users \cup Emails \cup {Nobody}]
  /\ status \in [Sessions -> Statuses]
  /\ \A s \in Sessions : (pc[s] = "writing") <=> (status[s] # 0)
  /\ keep \in [Sessions -> BOOLEAN]
  /\ wrote \in [Sessions -> BOOLEAN]
  /\ late \in [Sessions -> BOOLEAN]

Init ==
  /\ listening = TRUE /\ stopped = FALSE
  /\ row = [u \in Users |-> "unborn"] /\ issued = {}
  /\ pc = [s \in Sessions |-> "off"]
  /\ req = [s \in Sessions |-> NoRequest]
  /\ arg = [s \in Sessions |-> Nobody]
  /\ status = [s \in Sessions |-> 0]
  /\ keep = [s \in Sessions |-> FALSE]
  /\ wrote = [s \in Sessions |-> FALSE]
  /\ late = [s \in Sessions |-> FALSE]

Goto(s, step) == pc' = [pc EXCEPT ![s] = step] /\ UNCHANGED <<control, answer>>
Same == UNCHANGED <<req, arg, wrote, late>>
Quiet == UNCHANGED <<row, issued>>

(* A response, rendered; the next await writes it. Of the request only its  *)
(* leaf is remembered.                                                      *)
Answer(s, code, ka) ==
  /\ pc' = [pc EXCEPT ![s] = "writing"]
  /\ req' = [req EXCEPT ![s] = [NoRequest EXCEPT !.leaf = req[s].leaf]]
  /\ arg' = [arg EXCEPT ![s] = Nobody]
  /\ status' = [status EXCEPT ![s] = code]
  /\ keep' = [keep EXCEPT ![s] = ka]
  /\ late' = [late EXCEPT ![s] = FALSE]
  /\ UNCHANGED control

\* Faulty variant: the answer of the last request is left behind.
ForgetKeepingAnswer(s, step) ==
  /\ pc' = [pc EXCEPT ![s] = step]
  /\ req' = [req EXCEPT ![s] = NoRequest]
  /\ arg' = [arg EXCEPT ![s] = Nobody]
  /\ wrote' = [wrote EXCEPT ![s] = FALSE]
  /\ late' = [late EXCEPT ![s] = FALSE]
  /\ UNCHANGED <<row, issued, answer>>

(* The connection, at a point where it has no request.                      *)
Forget(s, step) ==
  /\ pc' = [pc EXCEPT ![s] = step]
  /\ req' = [req EXCEPT ![s] = NoRequest]
  /\ arg' = [arg EXCEPT ![s] = Nobody]
  /\ status' = [status EXCEPT ![s] = 0]
  /\ keep' = [keep EXCEPT ![s] = FALSE]
  /\ wrote' = [wrote EXCEPT ![s] = FALSE]
  /\ late' = [late EXCEPT ![s] = FALSE]
  /\ UNCHANGED <<row, issued>>
-----------------------------------------------------------------------------
(* The listener and the process.                                            *)

Connect(s) ==
  /\ listening /\ pc[s] = "off"
  /\ Goto(s, "backlog") /\ Same /\ Quiet

\* Faulty variant: the listener awaits the session instead of spawning it.
AcceptInline(s) ==
  /\ listening /\ pc[s] = "backlog"
  /\ \A t \in Sessions : pc[t] \in {"off", "backlog"}
  /\ Goto(s, "reading") /\ Same /\ Quiet

Accept(s) ==
  /\ listening /\ pc[s] = "backlog"
  /\ Goto(s, "reading") /\ Same /\ Quiet

(* An error of one accept ends the coroutine; the acceptor goes with it.    *)
AcceptFails ==
  /\ listening
  /\ listening' = FALSE
  /\ pc' = [s \in Sessions |-> IF pc[s] = "backlog" THEN "off" ELSE pc[s]]
  /\ UNCHANGED <<stopped, answer>> /\ Same /\ Quiet

(* SIGINT or SIGTERM. Whatever is under way goes with the process.          *)
Stop ==
  /\ stopped' = TRUE /\ listening' = FALSE
  /\ pc' = [s \in Sessions |-> "off"]
  /\ req' = [s \in Sessions |-> NoRequest]
  /\ arg' = [s \in Sessions |-> Nobody]
  /\ status' = [s \in Sessions |-> 0]
  /\ keep' = [s \in Sessions |-> FALSE]
  /\ wrote' = [s \in Sessions |-> FALSE]
  /\ late' = [s \in Sessions |-> FALSE]
  /\ Quiet
-----------------------------------------------------------------------------
(* The session.                                                             *)

(* What decode() makes of a header: the user of a token that is still good, *)
(* or none: no header, another format or signature, out of date.            *)
Decoded == issued \cup {Nobody}

(* An error answer whose text cites bytes that are no UTF-8 is not rendered:*)
(* dump() throws where dispatch no longer catches, and the session ends.    *)
Unrendered(s, raw) == raw /\ Forget(s, "off") /\ UNCHANGED control

(* Parsed, and taken by dispatch as far as the first await: a refusal, the  *)
(* middleware's 401 for a token that is none or no good, or on.             *)
Read(s, d, token) ==
  /\ pc[s] = "reading"
  /\ token \in Decoded
  /\ \/ /\ d.refusal # 0
        /\ Answer(s, d.refusal, d.refusal = 200)
        /\ UNCHANGED wrote /\ Quiet
     \/ /\ d.refusal # 0
        /\ Unrendered(s, d.raw)
     \/ /\ d.refusal = 0 /\ d.guarded /\ token = Nobody
        /\ Answer(s, 401, TRUE)
        /\ UNCHANGED wrote /\ Quiet
     \/ /\ d.refusal = 0 /\ (d.guarded => token # Nobody)
        /\ req' = [req EXCEPT ![s] =
             [leaf |-> d.leaf, head |-> d.head, json |-> d.json, raw |-> d.raw,
              token |-> IF d.guarded THEN token ELSE Nobody]]
        /\ late' = [late EXCEPT ![s] = d.guarded /\ row[token] = "gone"]
        /\ Goto(s, IF d.guarded THEN "exists" ELSE "handler")
        /\ UNCHANGED <<arg, wrote>> /\ Quiet

(* No request: the client has gone, or sent what is not HTTP or too large.  *)
ReadFails(s) ==
  /\ pc[s] = "reading"
  /\ Forget(s, "off") /\ UNCHANGED control

Write(s) ==
  /\ pc[s] = "writing"
  /\ Forget(s, IF keep[s] THEN "reading" ELSE "off") /\ UNCHANGED control

WriteFails(s) ==
  /\ pc[s] = "writing"
  /\ Forget(s, "off") /\ UNCHANGED control

\* Faulty variant: dispatch catches nothing.
ThrowUncaught(s) == Forget(s, "off") /\ UNCHANGED control

(* An exception out of the chain is a 500, but for an automatic HEAD, where *)
(* it ends the session. The text is the code's own, or PostgreSQL's, which  *)
(* is UTF-8.                                                                *)
Throw(s) ==
  \/ /\ req[s].head
     /\ Forget(s, "off") /\ UNCHANGED control
  \/ /\ ~req[s].head
     /\ Answer(s, 500, FALSE)
     /\ UNCHANGED wrote /\ Quiet
-----------------------------------------------------------------------------
(* AuthenticationMiddleware::handle, past its first await.                  *)

\* Faulty variant: a good token is enough.
KnownWithoutLooking(s) ==
  /\ pc[s] = "exists"
  /\ Goto(s, "handler") /\ Same /\ Quiet

Known(s) ==
  /\ pc[s] = "exists" /\ row[req[s].token] \in Emails
  /\ Goto(s, "handler") /\ Same /\ Quiet

Unknown(s) ==
  /\ pc[s] = "exists" /\ row[req[s].token] \notin Emails
  /\ Answer(s, 401, TRUE) /\ UNCHANGED wrote /\ Quiet

LookFails(s) == pc[s] = "exists" /\ Throw(s)
-----------------------------------------------------------------------------
(* The controllers. What they throw (a number that is none or out of range, *)
(* a field of another type, no field to update, a file refused) is a 500;   *)
(* the text of a body that is no JSON cites it.                             *)

(* With the request's own keep_alive(), looked at only here.                *)
AsAsked(s, code) == \E ka \in BOOLEAN : Answer(s, code, ka)
Reply(s, code) == AsAsked(s, code) /\ UNCHANGED wrote /\ Quiet

Health(s) == pc[s] = "handler" /\ req[s].leaf = "health" /\ Reply(s, 200)
Swagger(s) == pc[s] = "handler" /\ req[s].leaf = "swagger" /\ Reply(s, 302)

(* A serializer throws a ValidationError.                                   *)
Invalid(s) ==
  /\ pc[s] = "handler"
  /\ req[s].leaf \in Named \cup {"update"}
  /\ req[s].leaf \in Named => req[s].json
  /\ Reply(s, 422)

HandlerThrows(s) ==
  /\ pc[s] = "handler" /\ req[s].leaf \notin {"health", "swagger"}
  /\ Throw(s) \/ Unrendered(s, req[s].raw)

(* Hashing the password, or storing a picture, comes before the statement.  *)
Proceed(s) ==
  /\ pc[s] = "handler"
  /\ req[s].leaf \in Named => req[s].json
  /\ \E x \in Users \cup Emails \cup {Nobody} :
       /\ req[s].leaf \in Named => x \in Emails
       /\ req[s].leaf \in {"update", "remove"} => x \in Users
       /\ req[s].leaf = "index" => x = Nobody
       /\ arg' = [arg EXCEPT ![s] = x]
  /\ req[s].leaf \notin {"health", "swagger"}
  /\ req' = [req EXCEPT ![s].json = FALSE]
  /\ Goto(s, IF req[s].leaf = "login" THEN "lookup" ELSE "sql")
  /\ UNCHANGED <<wrote, late>> /\ Quiet
-----------------------------------------------------------------------------
(* The statements. Emails are unique; identities are not used again.        *)

Exists(u) == row[u] \in Emails
Taken(e, u) == \E v \in Users \ {u} : row[v] = e
Wrote(s) == wrote' = [wrote EXCEPT ![s] = row' # row]
Success(leaf) == CASE leaf = "index" -> 200
                   [] leaf \in {"store", "registration"} -> 201
                   [] leaf \in {"update", "remove"} -> 204

(* The statement runs; an id without a row is no error.                     *)
Run(s) ==
  \/ req[s].leaf = "index" /\ UNCHANGED row
  \/ /\ req[s].leaf \in {"store", "registration"}
     /\ ~Taken(arg[s], Nobody)
     /\ \E u \in Users : row[u] = "unborn" /\ row' = [row EXCEPT ![u] = arg[s]]
  \/ /\ req[s].leaf = "update"
     /\ \E e \in Emails :
          /\ Exists(arg[s]) => ~Taken(e, arg[s])
          /\ row' = IF Exists(arg[s]) THEN [row EXCEPT ![arg[s]] = e] ELSE row
  \/ /\ req[s].leaf = "remove"
     /\ row' = IF Exists(arg[s]) THEN [row EXCEPT ![arg[s]] = "gone"] ELSE row

SqlOk(s) ==
  /\ pc[s] = "sql"
  /\ Run(s) /\ Wrote(s)
  /\ AsAsked(s, Success(req[s].leaf))
  /\ UNCHANGED issued

(* A unique violation. Only the users service makes a ValidationError of it.*)
SqlDuplicate(s) ==
  /\ pc[s] = "sql"
  /\ \/ req[s].leaf \in {"store", "registration"} /\ Taken(arg[s], Nobody)
     \/ /\ req[s].leaf = "update" /\ Exists(arg[s])
        /\ \E e \in Emails : Taken(e, arg[s])
  /\ IF req[s].leaf = "registration" THEN Throw(s) ELSE Reply(s, 409)

\* Faulty variant: every failure of the statement is called a conflict.
SqlFailsAsConflict(s) ==
  /\ pc[s] = "sql"
  /\ Run(s) \/ UNCHANGED row
  /\ Wrote(s)
  /\ AsAsked(s, 409)
  /\ UNCHANGED issued

(* Any other error; the statement may have run.                             *)
SqlFails(s) ==
  /\ pc[s] = "sql"
  /\ \/ Throw(s)
     \/ /\ Run(s) /\ Wrote(s) /\ ~req[s].head
        /\ Answer(s, 500, FALSE)
        /\ UNCHANGED issued
-----------------------------------------------------------------------------
(* AuthenticationController::login: exists(), getOne(), then the password on*)
(* a worker, and the token of the user that getOne() saw.                   *)

LoginStep(s, step) == Goto(s, step) /\ UNCHANGED <<req, wrote, late>> /\ Quiet

Lookup(s) ==
  /\ pc[s] = "lookup"
  /\ \/ Taken(arg[s], Nobody) /\ LoginStep(s, "fetch") /\ UNCHANGED arg
     \/ ~Taken(arg[s], Nobody) /\ Reply(s, 422)

Fetch(s) ==
  /\ pc[s] = "fetch"
  /\ \/ \E u \in Users :
          row[u] = arg[s] /\ arg' = [arg EXCEPT ![s] = u] /\ LoginStep(s, "verify")
     \/ ~Taken(arg[s], Nobody) /\ Reply(s, 422)

Verify(s) ==
  /\ pc[s] = "verify"
  /\ \/ Reply(s, 422)
     \/ /\ issued' = issued \cup {arg[s]}
        /\ AsAsked(s, 201) /\ UNCHANGED <<row, wrote>>

LoginFails(s) == pc[s] \in {"lookup", "fetch", "verify"} /\ Throw(s)

(* An hour later. A request that carries it has been read already, or is    *)
(* refused.                                                                 *)
Expire(u) ==
  /\ u \in issued
  /\ issued' = issued \ {u}
  /\ UNCHANGED <<control, row, pc, req, arg, answer, wrote, late>>
-----------------------------------------------------------------------------
(* Steps of this process: its one thread, or a worker that hashes or stores.*)
Work(s) ==
  \/ Health(s)
  \/ Swagger(s)
  \/ Invalid(s)
  \/ HandlerThrows(s)
  \/ Proceed(s)
  \/ Verify(s)

(* Ends of a database call.                                                 *)
DbAnswers(s) ==
  \/ Known(s)
  \/ Unknown(s)
  \/ LookFails(s)
  \/ SqlOk(s)
  \/ SqlDuplicate(s)
  \/ SqlFails(s)
  \/ Lookup(s)
  \/ Fetch(s)
  \/ LoginFails(s)

Running ==
  \/ AcceptFails
  \/ \E u \in Users : Expire(u)
  \/ \E s \in Sessions :
       \/ Connect(s)
       \/ Accept(s)
       \/ \E d \in Dispatched, token \in Users \cup {Nobody} : Read(s, d, token)
       \/ ReadFails(s)
       \/ Work(s)
       \/ DbAnswers(s)
       \/ Write(s)
       \/ WriteFails(s)

Next == ~stopped /\ (Running \/ Stop)

(* The loop runs what is posted to it, and workers finish; a client may be  *)
(* idle for ever, and so may a request that waits for a connection.         *)
Fairness ==
  \A s \in Sessions :
    /\ WF_vars(~stopped /\ Work(s))
    /\ WF_vars(~stopped /\ Accept(s))

Spec == Init /\ [][Next]_vars /\ Fairness
-----------------------------------------------------------------------------
(* A controller behind the middleware works only for a token of the server's*)
(* whose user was still there when the request was read: a user removed     *)
(* keeps nothing but the requests already under way, whatever path, method  *)
(* or body a request comes with.                                            *)
OnlyAuthorised ==
  \A s \in Sessions :
    pc[s] \in {"handler", "sql"} /\ req[s].leaf \in Protected =>
      req[s].token # Nobody /\ row[req[s].token] # "unborn" /\ ~late[s]

(* What a client is told is what happened: a refusal (4xx) has changed no   *)
(* row, a 201 of a user has made one, a method without side effects none.   *)
AnswerTellsEffect ==
  \A s \in Sessions : pc[s] = "writing" =>
    /\ status[s] \in 400..499 => ~wrote[s]
    /\ status[s] = 201 /\ req[s].leaf # "login" => wrote[s]
    /\ req[s].leaf \in {"index", "login"} => ~wrote[s]

(* Every request that dispatch handed on is answered, whatever its handler  *)
(* throws, unless the process is stopped, but for two kinds the code leaves *)
(* without an answer: an automatic HEAD, outside the try (Router.cpp:250),  *)
(* and a body that is no JSON and not all ASCII, whose 500 may not render   *)
(* (Router.cpp:352-356, JsonRenderer.cpp:23).                               *)
(* The premise is that its calls to the database end: a statement has its   *)
(* timeout, but the wait for a connection of the pool has none.             *)
RequestsAnswered ==
  \A s \in Sessions :
    WF_vars(~stopped /\ DbAnswers(s)) =>
      ((pc[s] \in Serving /\ ~req[s].head /\ ~req[s].raw)
         ~> (pc[s] = "writing" \/ stopped))

(* A client in the backlog is taken while others are idle or busy, as long  *)
(* as no accept has failed.                                                 *)
BacklogServed ==
  \A s \in Sessions : pc[s] = "backlog" ~> (pc[s] # "backlog" \/ stopped)
=============================================================================
