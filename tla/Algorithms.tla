----------------------------- MODULE Algorithms -----------------------------
(* The pure parts of a request's way to the database, one input at a time:  *)
(* a list's filter, a body, a multipart update, a number, a timestamp. The  *)
(* properties compare what the code makes of an input with what the input   *)
(* says.                                                                    *)
EXTENDS Queries, Forms, Conversions

CONSTANTS
  Rows,     \* the table, its rows in order of id
  Values,   \* what its columns hold
  Names,    \* texts a request may list as names
  MaxParts  \* the longest form

Columns == {"id", "username", "email", "password", "picture"}

ASSUME TableAssumption ==
  /\ Rows \in Seq([Columns -> Values])
  /\ \A i \in DOMAIN Rows : Rows[i].id \in Plain
  /\ Malformed \notin Values

VARIABLES kind, input

vars == <<kind, input>>

Column(c) == {Rows[i][c] : i \in DOMAIN Rows}
Option(S) == {{}} \cup {{v} : v \in S}
Filters ==
  [id : Option(Column("id")), id__in : Option(BoundedSeq(Column("id"), MaxListed)),
   username : Option(Column("username")), username__in : Option(BoundedSeq(Names, MaxListed)),
   email : Option(Column("email")),
   limit : {{n} : n \in 1..Len(Rows)}, offset : Option({n - 1 : n \in 1..Len(Rows)})]

Init == kind = "none" /\ input = <<>>

Take(k, i) == kind = "none" /\ kind' = k /\ input' = i

List == \E f \in Filters : Take("list", f)
Fetch == \E id \in Option(Column("id")), email \in Option(Column("email")) :
           Take("fetch", [id |-> id, email |-> email])
Body == \E u, e, p \in JsonValues : Take("body", [username |-> u, email |-> e, password |-> p])
Patch == \E id \in Column("id"), n \in 0..MaxParts : \E parts \in [1..n -> Parts] :
           Take("patch", [id |-> id, parts |-> parts])
NumberText == \E t, u \in Texts : Take("number", <<t, u>>)
Timestamp == \E s \in 0..2, f \in Fractions : Take("time", [second |-> s, fraction |-> f])
Done == kind # "none" /\ kind' = "none" /\ input' = <<>>

Next == List \/ Fetch \/ Body \/ Patch \/ NumberText \/ Timestamp \/ Done

Spec == Init /\ [][Next]_vars
-----------------------------------------------------------------------------
Listed(list) == UNION {Range(s) : s \in list}

Wanted(f, r) ==
  /\ f.id = {} \/ r.id \in f.id
  /\ Listed(f.id__in) = {} \/ r.id \in Listed(f.id__in)
  /\ f.username = {} \/ r.username \in f.username
  /\ Listed(f.username__in) = {} \/ r.username \in Listed(f.username__in)
  /\ f.email = {} \/ r.email \in f.email

(* Every list, lookup and deletion finds the rows its filter describes, in  *)
(* order, page by page, with each parameter at the placeholder of its own   *)
(* clause whichever clauses are there; an empty list of ids or names        *)
(* filters nothing. Names that are not plain in an array's literal may be   *)
(* refused or read as others (SQLBuilder.h:132), but whatever they are the  *)
(* statement parses and none of the other conditions is lost. A log-in      *)
(* finds a row of its email if there is one.                                *)
ReadsMeanFilters ==
  /\ kind = "list" =>
       LET all == {i \in DOMAIN Rows : Wanted(input, Rows[i])}
           others == {i \in DOMAIN Rows : Wanted([input EXCEPT !.username__in = {}], Rows[i])}
       IN  /\ WellFormed(GetList(input))
           /\ Listed(input.username__in) \subseteq Plain =>
                Selected(GetList(input), Rows) = {Page(all, input.limit, input.offset)}
           /\ \A S \in Selected(GetList(input), Rows) : S \subseteq others
  /\ kind = "fetch" =>
       LET of(column) == {i \in DOMAIN Rows : input[column] = {} \/ Rows[i][column] \in input[column]}
       IN  /\ WellFormed(ExistsOne(input.id, input.email))
           /\ UNION Selected(ExistsOne(input.id, input.email), Rows) = of("id") \cap of("email")
           /\ input.email # {} =>
                /\ WellFormed(GetOne(input.email))
                /\ \A S \in Selected(GetOne(input.email), Rows) :
                     S \subseteq of("email") /\ (S = {} <=> of("email") = {})
           /\ input.id # {} =>
                /\ WellFormed(RemoveOne(input.id))
                /\ Remaining(RemoveOne(input.id), Rows) = DOMAIN Rows \ of("id")

(* What the last part of a name, a text or a file, says: {} without one.    *)
LastSaid(parts, name, file) ==
  LET said == {i \in DOMAIN parts : parts[i].name = name /\ parts[i].file = file}
  IN  {parts[i].data : i \in {k \in said : \A j \in said : j <= k}}

(* A new row has the name and the email of its body and the password's hash,*)
(* and nothing else is set. An update that is accepted changes the          *)
(* row of its id and no other, each column to what the last part for it     *)
(* said and the rest not at all; a text sent as a file and a file sent as a *)
(* text change nothing.                                                     *)
WritesMeanForms ==
  /\ kind = "body" /\ "ok" \in {RegisterSerializer(input), UserCreateSerializer(input)} =>
       LET q == Create(Created(input)) IN
       /\ WellFormed(q)
       /\ \A c \in {"username", "email"} : Bound(q, "SET", c) = {input[c]}
       /\ Bound(q, "SET", "password") = {"hash"}
       /\ \A c \in {"id", "picture"} : Bound(q, "SET", c) = {}
  /\ kind = "patch" =>
       LET b == UpdateBody(input.parts)
           q == Update(Entity({input.id}, b))
           said(column) == LastSaid(input.parts, column, column = "picture")
       IN  UserUpdateSerializer(b) = "ok" /\ (\E c \in DOMAIN b : b[c] # "absent") =>
             /\ WellFormed(q)
             /\ \A i \in DOMAIN Rows : LET row == Rows[i]
                                        new == Updated(q, Rows)[i] IN
                  /\ row.id # input.id => new = row
                  /\ DOMAIN new = Columns /\ new.id = row.id
                  /\ row.id = input.id =>
                       /\ \A c \in Columns : said(c) = {} => new[c] = row[c]
                       /\ \A c \in {"username", "email"} : said(c) # {} => said(c) = {new[c]}
                       /\ said("password") # {} => new.password = "hash"
                       /\ said("picture") # {} => new.picture \in {"stored", "client's"}

(* What a statement does to the table is what the request said.             *)
StatementsMeanRequests == ReadsMeanFilters /\ WritesMeanForms

(* Who registers, is created or changes his credentials may log in with     *)
(* them, and nothing refused by one form is let in by another; but for an   *)
(* email that is none, which registration alone takes: its owner can never  *)
(* log in.                                                                  *)
FormsAgree ==
  kind = "body" =>
    /\ UserCreateSerializer(input) = "ok" => RegisterSerializer(input) = "ok"
    /\ RegisterSerializer(input) = "ok" /\ input.email # "bad" =>
         LoginSerializer(input) = "ok" /\ UserCreateSerializer(input) = "ok"
    /\ UserUpdateSerializer(input) = "ok" /\ input.email # "absent" /\ input.password # "absent" =>
         LoginSerializer(input) = "ok"
    /\ RegisterSerializer(input) = "ok" /\ input.email = "bad" => LoginSerializer(input) = "invalid"

(* A number that fits arrives as itself, and none that arrives is another's:*)
(* ids and sizes only modulo their word, a port modulo its narrower one; a  *)
(* limit is between 1 and the maximum whatever was asked.                   *)
NumbersSurvive ==
  kind = "number" => \A t \in Range(input) :
    /\ \A n \in ParseId(t) : n % 2^LongBits = Said(t) % 2^LongBits
    /\ t.digits /\ Said(t) \in -(2^(LongBits - 1))..(2^(LongBits - 1) - 1) => ParseId(t) = {Said(t)}
    /\ ParseId(t) \subseteq ParseIds(input)
    /\ ListLimit({t}) \cup ListLimit({}) \subseteq 1..MaxLimit
    /\ t.digits /\ Said(t) \in 1..MaxLimit => ListLimit({t}) = {Said(t)}
    /\ t.digits /\ Said(t) \in 0..(2^PortBits - 1) => Uint16(t) = {Said(t)} /\ Uint64(t) = {Said(t)}

(* A timestamp keeps its second and its digits up to the precision.         *)
TimesSurvive ==
  kind = "time" =>
    LET iso == ToIsoString(ParsePgTimestamp(input)) IN
    /\ iso.second = input.second
    /\ \A i \in 1..Precision : Digit(iso.fraction, i) = Digit(input.fraction, i)

(* What a text says arrives, as far as the types are wide.                  *)
ValuesSurvive == NumbersSurvive /\ TimesSurvive
=============================================================================
