------------------------------- MODULE Router -------------------------------
(* The routes and the order in which Router::dispatch refuses a request     *)
(* before any middleware or handler has seen it (core/routers/Router.cpp,   *)
(* routes/Routes.cpp, core/request/Request.h). Statuses are HTTP's; 0 is    *)
(* no refusal.                                                              *)
EXTENDS Naturals

Methods == {"GET", "HEAD", "POST", "PUT", "PATCH", "DELETE", "OPTIONS"}

(* A target without its query. Any other is that of no route.               *)
Paths == {"/health", "/register", "/login", "/users", "/users/{id}", "/swagger", "elsewhere"}

(* A body: its content type, whether it is empty, whether it parses as that *)
(* type, or as JSON when the type names neither, and whether all that a     *)
(* parser's error text could cite of it is ASCII. One larger than the limit *)
(* never gets here: the parser fails on it first.                           *)
Bodies ==
  {b \in [type : {"none", "json", "multipart", "other"},
          empty : BOOLEAN, parses : BOOLEAN, ascii : BOOLEAN] :
     /\ b.empty => ~b.parses
     /\ b.empty /\ b.type # "multipart" => b.ascii}

IsJson(b) == b.type # "multipart" /\ b.parses

(* One route per path; a method added twice would replace the first.        *)
Add(p, m, leaf, types) == [path |-> p, method |-> m, leaf |-> leaf, types |-> types]

table ==
  { Add("/health", "GET", "health", {}),
    Add("/register", "POST", "registration", {}),
    Add("/login", "POST", "login", {}),
    Add("/users", "GET", "index", {}),
    Add("/users", "POST", "store", {}),
    Add("/users/{id}", "PATCH", "update", {"multipart"}),
    Add("/users/{id}", "DELETE", "remove", {}),
    Add("/swagger", "GET", "swagger", {}) }

MethodsOf(p) == {r.method : r \in {q \in table : q.path = p}}
RouteOf(p, m) == CHOOSE r \in table : r.path = p /\ r.method = m

\* Faulty variant: a scope that is compared whole, not as a prefix.
GuardedExactly(p) == p = "/users"

(* router.use("/users", authenticationMiddleware): a prefix.                *)
Guarded(p) == p \in {"/users", "/users/{id}"}

AutoHead(p, m) == m = "HEAD" /\ m \notin MethodsOf(p) /\ "GET" \in MethodsOf(p)

Refusal(p, m, b) ==
  IF MethodsOf(p) = {} THEN 404
  ELSE IF AutoHead(p, m) THEN 0
  ELSE IF m = "OPTIONS" /\ m \notin MethodsOf(p) THEN 200
  ELSE IF m \notin MethodsOf(p) THEN 405
  ELSE IF RouteOf(p, m).types # {} /\ ~b.empty /\ b.type \notin RouteOf(p, m).types THEN 415
  ELSE IF b.type \in {"json", "multipart"} /\ ~b.parses THEN 400
  ELSE 0

Leaves == {r.leaf : r \in table}

(* The leaves that take a JSON body and those behind the middleware.        *)
Named == {"registration", "login", "store"}
Protected == {"index", "store", "update", "remove"}

(* The handler of a request that is not refused; a HEAD gets the GET's.     *)
Leaf(p, m) == RouteOf(p, IF AutoHead(p, m) THEN "GET" ELSE m).leaf

(* What dispatch makes of a request before its first await. It is raw if a  *)
(* parser's complaint may cite bytes of it that are no UTF-8: dispatch's own*)
(* for a 400, or Request::json()'s in a handler.                            *)
Dispatch(p, m, b) ==
  IF Refusal(p, m, b) # 0
  THEN [refusal |-> Refusal(p, m, b), leaf |-> "none", head |-> FALSE,
        json |-> FALSE, raw |-> Refusal(p, m, b) = 400 /\ ~b.ascii,
        guarded |-> FALSE]
  ELSE [refusal |-> 0, leaf |-> Leaf(p, m), head |-> AutoHead(p, m),
        json |-> IsJson(b) /\ Leaf(p, m) \in Named,
        raw |-> ~IsJson(b) /\ Leaf(p, m) \in Named /\ ~b.ascii,
        guarded |-> Guarded(p)]

Dispatched == {Dispatch(p, m, b) : p \in Paths, m \in Methods, b \in Bodies}
=============================================================================
