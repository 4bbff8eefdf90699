------------------------------ MODULE Queries -------------------------------
(* The statements UsersRepository builds with SQLBuilder, and what they do  *)
(* to the table. A statement is its clauses in the order of its text, each  *)
(* with the number of its placeholder (0: none), and the parameters sent    *)
(* with it; the value of a parameter is the set of values it matches. An    *)
(* optional value is a set of at most one.                                  *)
EXTENDS Naturals, FiniteSets, Sequences, SequencesExt

CONSTANTS
  ArrayIn(_),  \* what PostgreSQL matches for some texts joined into an array
  Malformed,   \* ... this and nothing else if it refuses the literal
  Plain,       \* texts without a meaning of their own there, as numbers are
  MaxListed    \* the longest array

(* A text with a quote, a backslash, a brace, a space at an end, or that is *)
(* NULL, is none of those.                                                  *)
ASSUME LiteralAssumption ==
  /\ MaxListed \in Nat
  /\ Malformed \notin Plain \cup Nat
  /\ \A s \in BoundedSeq(Plain, MaxListed) \ {<<>>} : ArrayIn(s) = Range(s)

Builder == [verb |-> "none", clauses |-> <<>>, params |-> <<>>, index |-> 0, hasWhere |-> FALSE]

Clause(part, column, at) == [part |-> part, column |-> column, at |-> at]

Select(qb) == [qb EXCEPT !.verb = "SELECT"]
SelectExists(qb) == [qb EXCEPT !.verb = "EXISTS"]
Delete(qb) == [qb EXCEPT !.verb = "DELETE", !.clauses = <<>>]

(* INSERT and UPDATE number a placeholder for each field; its value is the  *)
(* caller's business.                                                       *)
Fields(qb, verb, fields) ==
  [qb EXCEPT !.verb = verb, !.index = @ + Len(fields),
             !.clauses = @ \o [i \in DOMAIN fields |-> Clause("SET", fields[i], qb.index + i)]]

Bind(qb, part, column, value) ==
  [qb EXCEPT !.clauses = Append(@, Clause(part, column, qb.index + 1)),
             !.params = Append(@, value), !.index = @ + 1]

Condition(qb, column, value) ==
  [Bind(qb, IF qb.hasWhere THEN "AND" ELSE "WHERE", column, value) EXCEPT !.hasWhere = TRUE]

(* For an optional value that is not there the callers skip the call.       *)
Where(qb, column, value) == IF value = {} THEN qb ELSE Condition(qb, column, value)

(* The list's texts between braces and commas, neither quoted nor escaped;  *)
(* an empty list adds nothing either.                                       *)
ArrayToPg(list) == UNION {ArrayIn(s) : s \in list}
WhereAny(qb, column, list) ==
  IF list \subseteq {<<>>} THEN qb ELSE Condition(qb, column, ArrayToPg(list))

Limit(qb, n) == IF n = {} THEN qb ELSE Bind(qb, "LIMIT", "none", n)
Offset(qb, n) == IF n = {} THEN qb ELSE Bind(qb, "OFFSET", "none", n)
OrderBy(qb, column) == [qb EXCEPT !.clauses = Append(@, Clause("ORDER", column, 0))]
-----------------------------------------------------------------------------
(* UsersRepository.                                                         *)

GetList(f) ==
  LET byId    == WhereAny(Where(Select(Builder), "id", f.id), "id", f.id__in)
      byNames == Where(WhereAny(byId, "username", f.username__in), "username", f.username)
  IN  Offset(Limit(OrderBy(Where(byNames, "email", f.email), "id"), f.limit), f.offset)

GetOne(email) == Limit(Where(Select(Builder), "email", email), {1})

ExistsOne(id, email) == SelectExists(Where(Where(Select(Builder), "id", id), "email", email))

(* The parameters are put together apart from the fields.                   *)
Create(user) ==
  [Fields(Builder, "INSERT", <<"username", "email", "password">>)
     EXCEPT !.params = <<user.username, user.email, user.password>>]

(* A field to set goes with its value; one without a value, or with an      *)
(* empty one, is passed by.                                                 *)
Emplaced(sent, column, value) ==
  IF value \subseteq {"empty"} THEN sent
  ELSE [fields |-> Append(sent.fields, column), params |-> Append(sent.params, value)]

Changes(user) ==
  LET email    == Emplaced([fields |-> <<>>, params |-> <<>>], "email", user.email)
      username == Emplaced(email, "username", user.username)
      password == Emplaced(username, "password", user.password)
  IN  Emplaced(password, "picture", user.picture)

\* Faulty variant: the id's value goes before those of the fields.
UpdateIdFirst(user) ==
  [Where(Fields(Builder, "UPDATE", Changes(user).fields), "id", user.id)
     EXCEPT !.params = <<user.id>> \o Changes(user).params]

(* Without a field to set SQLBuilder throws: the statement is never sent.   *)
Update(user) ==
  [Where(Fields(Builder, "UPDATE", Changes(user).fields), "id", user.id)
     EXCEPT !.params = Append(Changes(user).params, user.id)]

RemoveOne(id) == Where(Delete(Builder), "id", id)
-----------------------------------------------------------------------------
(* PostgreSQL: the statement on a table given as its rows in order of id.   *)

Conditions(q) == {c \in Range(q.clauses) : c.part \in {"WHERE", "AND"}}
Matches(q, row) == \A c \in Conditions(q) : row[c.column] \in q.params[c.at]

(* The values the clauses of one part bind for a column.                    *)
Bound(q, part, column) ==
  UNION {q.params[c.at] : c \in {d \in Range(q.clauses) : d.part = part /\ d.column = column}}

(* Of some rows, given by their places in the table, those left after       *)
(* skipping as many as OFFSET says, as far as LIMIT lets.                   *)
Page(S, limit, offset) ==
  {i \in S : LET before == Cardinality({j \in S : j < i}) IN
      /\ \A n \in offset : before >= n
      /\ \A n \in limit : \A m \in IF offset = {} THEN {0} ELSE offset : before < m + n}

(* A parameter that does not read as its type.                              *)
Refused(q) == \E i \in DOMAIN q.params : Malformed \in q.params[i]

(* What a SELECT may answer: its page in order of id; if it names no order, *)
(* that many of the rows; if it is refused, nothing, but an error.          *)
Selected(q, rows) ==
  LET found == {i \in DOMAIN rows : Matches(q, rows[i])}
      page  == Page(found, Bound(q, "LIMIT", "none"), Bound(q, "OFFSET", "none"))
  IN  IF Refused(q) THEN {}
      ELSE IF \E c \in Range(q.clauses) : c.part = "ORDER" /\ c.column = "id" THEN {page}
      ELSE {S \in SUBSET found : Cardinality(S) = Cardinality(page)}

Updated(q, rows) ==
  [i \in DOMAIN rows |->
     IF ~Matches(q, rows[i]) THEN rows[i]
     ELSE [c \in DOMAIN rows[i] |->
             IF Bound(q, "SET", c) = {} THEN rows[i][c]
             ELSE CHOOSE v \in Bound(q, "SET", c) : TRUE]]

Remaining(q, rows) == {i \in DOMAIN rows : ~Matches(q, rows[i])}
-----------------------------------------------------------------------------
(* A text PostgreSQL parses: the clauses in the grammar's order, one WHERE, *)
(* before every AND, and the placeholders $1, $2, ... in the order of the   *)
(* text, one for each parameter.                                            *)
Place == [SET |-> 1, WHERE |-> 2, AND |-> 2, ORDER |-> 3, LIMIT |-> 4, OFFSET |-> 5]

WellFormed(q) ==
  LET c == q.clauses IN
  /\ \A i, j \in DOMAIN c : i < j => Place[c[i].part] <= Place[c[j].part]
  /\ \A i \in DOMAIN c : c[i].part = "AND" => \E j \in DOMAIN c : j < i /\ c[j].part = "WHERE"
  /\ \A i, j \in DOMAIN c : c[i].part = "WHERE" /\ c[j].part = "WHERE" => i = j
  /\ \A i, j \in DOMAIN c : i < j /\ c[i].at # 0 /\ c[j].at # 0 => c[i].at < c[j].at
  /\ {c[i].at : i \in DOMAIN c} \ {0} = DOMAIN q.params
=============================================================================
