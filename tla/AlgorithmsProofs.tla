--------------------------- MODULE AlgorithmsProofs ---------------------------
(* Theorems about the forms, the statements and the numbers, for every width*)
(* of the machine words, every filter and every number of parts.            *)
EXTENDS Algorithms, WellFoundedInduction, FiniteSetTheorems, TLAPS

(* Every set of numbers that is not empty has a least one.                  *)
LEMMA LeastNumber ==
  ASSUME NEW T, T \subseteq Nat, T # {}
  PROVE  \E x \in T : \A y \in T : x <= y
<1>1. PICK x \in T : \A y \in T : ~(<<y, x>> \in OpToRel(<, Nat))
  BY NatLessThanWellFounded, WFMin
<1>2. ASSUME NEW y \in T, y < x
      PROVE  <<y, x>> \in OpToRel(<, Nat)
  <2>1. <<y, x>> \in Nat \X Nat /\ <<y, x>>[1] < <<y, x>>[2]
    BY <1>2
  <2> QED
    BY Zenon, <2>1 DEF OpToRel
<1>3. \A y \in T : ~(y < x)
  BY Zenon, <1>1, <1>2
<1> QED
  BY <1>3

(* So a set of numbers with a bound has a greatest one: the one closest to  *)
(* the bound.                                                               *)
LEMMA GreatestNumber ==
  ASSUME NEW n \in Nat, NEW T, T \subseteq 1..n, T # {}
  PROVE  Max(T) \in T /\ \A y \in T : y <= Max(T)
<1> DEFINE D == {n - y : y \in T}
<1>1. D \subseteq Nat /\ D # {}
  <2>1. \A y \in T : y \in 1..n /\ n - y \in Nat
    OBVIOUS
  <2>2. PICK y \in T : TRUE
    OBVIOUS
  <2> QED
    BY <2>1, <2>2
<1>2. \E d \in D : \A e \in D : d <= e
  <2> HIDE DEF D
  <2> QED
    BY <1>1, LeastNumber
<1>3. \E x \in T : \A y \in T : n - x <= n - y
  BY <1>2
<1>4. \E x \in T : \A y \in T : x >= y
  BY <1>3
<1>5. Max(T) \in T /\ \A y \in T : Max(T) >= y
  BY Zenon, <1>4 DEF Max
<1> QED
  BY <1>5

-----------------------------------------------------------------------------
(* The first check of three, or of two, that does not hold decides: a form  *)
(* is taken when all of them hold.                                          *)
LEMMA VerdictOfThree ==
  ASSUME NEW a, NEW b, NEW c
  PROVE  Verdict(<<a, b, c>>) = "ok" <=> a = "ok" /\ b = "ok" /\ c = "ok"
<1> DEFINE s == <<a, b, c>>
           I == {i \in 1..Len(s) : s[i] # "ok"}
<1>1. Len(s) = 3 /\ s[1] = a /\ s[2] = b /\ s[3] = c
  OBVIOUS
<1>2. Verdict(s) = IF I # {} THEN (IF Min(I) = 0 THEN "ok" ELSE s[Min(I)]) ELSE "ok"
  BY DEF Verdict, SelectInSeq
<1>3. I # {} => Min(I) \in I
  <2>1. ASSUME I # {}
        PROVE  \E x \in I : \A y \in I : x <= y
    <3>1. I \subseteq Nat
      BY <1>1
    <3> HIDE DEF I
    <3> QED
      BY <2>1, <3>1, LeastNumber
  <2> QED
    BY <2>1 DEF Min
<1> QED
  BY <1>1, <1>2, <1>3

(* The first of two, which also says what the verdict is.                   *)
LEMMA VerdictOfTwo ==
  ASSUME NEW a, NEW b
  PROVE  /\ Verdict(<<a, b>>) = "ok" <=> a = "ok" /\ b = "ok"
         /\ a # "ok" => Verdict(<<a, b>>) = a
<1> DEFINE s == <<a, b>>
           I == {i \in 1..Len(s) : s[i] # "ok"}
<1>1. Len(s) = 2 /\ s[1] = a /\ s[2] = b
  OBVIOUS
<1>2. Verdict(s) = IF I # {} THEN (IF Min(I) = 0 THEN "ok" ELSE s[Min(I)]) ELSE "ok"
  BY DEF Verdict, SelectInSeq
<1>3. I # {} => Min(I) \in I
  <2>1. ASSUME I # {}
        PROVE  \E x \in I : \A y \in I : x <= y
    <3>1. I \subseteq Nat
      BY <1>1
    <3> HIDE DEF I
    <3> QED
      BY <2>1, <3>1, LeastNumber
  <2> QED
    BY <2>1 DEF Min
<1>4. 1 \in I => Min(I) = 1
  <2>1. I \subseteq {1, 2}
    BY <1>1
  <2>2. 1 \in I => Min(I) <= 1 /\ Min(I) \in {1, 2}
    BY <2>1, <1>3 DEF Min
  <2> QED
    BY <2>2
<1> QED
  BY <1>1, <1>2, <1>3, <1>4

(* What each form asks of a body, whatever the order of its checks.         *)
LEMMA FormsAsk ==
  ASSUME NEW u \in JsonValues, NEW e \in JsonValues, NEW p \in JsonValues,
         NEW b, b.username = u, b.email = e, b.password = p
  PROVE  /\ RegisterSerializer(b) = "ok" <=>
              u \in {"bad", "good"} /\ e \in {"bad", "good"} /\ p = "good"
         /\ UserCreateSerializer(b) = "ok" <=>
              u \in {"bad", "good"} /\ e = "good" /\ p = "good"
         /\ LoginSerializer(b) = "ok" <=> e = "good" /\ p = "good"
         /\ e = "bad" => LoginSerializer(b) = "invalid"
         /\ UserUpdateSerializer(b) = "ok" <=>
              u \in {"absent", "bad", "good"} /\ e \in {"absent", "good"}
              /\ p \in {"absent", "good"}
<1> USE DEF Logged, Password, JsonValues
<1>1. RegisterSerializer(b) = "ok" <=>
        u \in {"bad", "good"} /\ e \in {"bad", "good"} /\ p = "good"
  BY VerdictOfThree DEF RegisterSerializer
<1>2. UserCreateSerializer(b) = "ok" <=>
        u \in {"bad", "good"} /\ e = "good" /\ p = "good"
  BY VerdictOfThree DEF UserCreateSerializer
<1>3. /\ LoginSerializer(b) = "ok" <=> e = "good" /\ p = "good"
      /\ e = "bad" => LoginSerializer(b) = "invalid"
  BY VerdictOfTwo DEF LoginSerializer
<1>4. UserUpdateSerializer(b) = "ok" <=>
        u \in {"absent", "bad", "good"} /\ e \in {"absent", "good"}
        /\ p \in {"absent", "good"}
  BY VerdictOfThree DEF UserUpdateSerializer
<1> QED
  BY <1>1, <1>2, <1>3, <1>4

(* The forms take one another's users but for an email that is none, which  *)
(* registration alone lets in and login then calls invalid.                 *)
THEOREM FormsDoAgree == Spec => []FormsAgree
<1> DEFINE BodyInv == kind = "body" =>
             \E u, e, p \in JsonValues : input = [username |-> u, email |-> e, password |-> p]
<1>1. Init => BodyInv
  BY DEF Init
<1>2. BodyInv /\ [Next]_vars => BodyInv'
  <2> SUFFICES ASSUME BodyInv, [Next]_vars PROVE BodyInv'
    OBVIOUS
  <2>1. CASE Body
    BY <2>1 DEF Body, Take
  <2>2. CASE List \/ Fetch \/ Patch \/ NumberText \/ Timestamp \/ Done
    <3>1. kind' # "body"
      BY <2>2 DEF List, Fetch, Patch, NumberText, Timestamp, Done, Take
    <3> QED
      BY <3>1
  <2>3. CASE UNCHANGED vars
    BY <2>3 DEF vars
  <2> QED
    BY <2>1, <2>2, <2>3 DEF Next
<1>3. BodyInv => FormsAgree
  <2> SUFFICES ASSUME BodyInv, kind = "body"
               PROVE  FormsAgree
    BY DEF FormsAgree
  <2>1. PICK u \in JsonValues, e \in JsonValues, p \in JsonValues :
          input = [username |-> u, email |-> e, password |-> p]
    OBVIOUS
  <2>2. input.username = u /\ input.email = e /\ input.password = p
    BY <2>1
  <2>3. /\ RegisterSerializer(input) = "ok" <=>
             u \in {"bad", "good"} /\ e \in {"bad", "good"} /\ p = "good"
        /\ UserCreateSerializer(input) = "ok" <=>
             u \in {"bad", "good"} /\ e = "good" /\ p = "good"
        /\ LoginSerializer(input) = "ok" <=> e = "good" /\ p = "good"
        /\ e = "bad" => LoginSerializer(input) = "invalid"
        /\ UserUpdateSerializer(input) = "ok" <=>
             u \in {"absent", "bad", "good"} /\ e \in {"absent", "good"}
             /\ p \in {"absent", "good"}
    BY <2>2, FormsAsk
  <2>4. e \in {"absent", "good"} /\ e # "absent" => e = "good"
    OBVIOUS
  <2> QED
    BY <2>2, <2>3, <2>4 DEF FormsAgree
<1> QED
  BY <1>1, <1>2, <1>3, PTL DEF Spec

(* Of the parts with one name, of texts or of files, a form keeps the last, *)
(* however many there are (Request::parseMultipart).                        *)
THEOREM LastPartsAreKept ==
  ASSUME NEW parts \in Seq(Parts), NEW name, NEW file
  PROVE  LET said == {i \in DOMAIN parts : parts[i].name = name /\ parts[i].file = file}
         IN  /\ said = {} => LastPart(parts, name, file) = "absent"
             /\ said # {} => \E i \in said : /\ \A j \in said : j <= i
                                             /\ LastPart(parts, name, file) = parts[i].data
<1> DEFINE said == {i \in DOMAIN parts : parts[i].name = name /\ parts[i].file = file}
           found == {i \in 1..Len(parts) : parts[i].name = name /\ parts[i].file = file}
           last == IF found # {} THEN Max(found) ELSE 0
<1>1. said = found /\ Len(parts) \in Nat /\ found \subseteq 1..Len(parts)
  OBVIOUS
<1>2. LastPart(parts, name, file) = IF last = 0 THEN "absent" ELSE parts[last].data
  BY Zenon DEF LastPart, SelectLastInSeq
<1> HIDE DEF said, found
<1>3. CASE found = {}
  BY <1>1, <1>2, <1>3 DEF said
<1>4. CASE found # {}
  <2>1. last \in found /\ \A j \in found : j <= last
    BY <1>1, <1>4, GreatestNumber
  <2>2. last # 0
    BY <1>1, <2>1
  <2> QED
    BY <1>1, <1>2, <1>4, <2>1, <2>2 DEF said
<1> QED
  BY <1>3, <1>4
-----------------------------------------------------------------------------
(* The statements. V is whatever the parameters' values are taken from.     *)

ClauseParts == {"SET", "WHERE", "AND", "ORDER", "LIMIT", "OFFSET"}
ClauseColumns == Columns \cup {"none"}
Verbs == {"none", "SELECT", "EXISTS", "DELETE", "INSERT", "UPDATE"}
Clauses == [part : ClauseParts, column : ClauseColumns, at : Nat]
Builders(V) ==
  [verb : Verbs, clauses : Seq(Clauses), params : Seq(SUBSET V),
   index : Nat, hasWhere : BOOLEAN]

(* Of n clauses and m parameters: the placeholders are $1 to $m, once each  *)
(* and in the order of the text; only an order has none; there is one WHERE *)
(* at most, no AND before it, and hasWhere tells of it.                     *)
Conditional == {"WHERE", "AND"}
InOrder(n, m, at, part, where) ==
  /\ \A i \in 1..n : at[i] <= m
  /\ \A i, j \in 1..n : i < j /\ at[j] # 0 => at[i] < at[j]
  /\ \A k \in 1..m : \E i \in 1..n : at[i] = k
  /\ \A i \in 1..n : part[i] # "ORDER" => at[i] # 0
  /\ where = TRUE <=> \E i \in 1..n : part[i] = "WHERE"
  /\ \A i \in 1..n : part[i] = "AND" => \E j \in 1..n : j < i /\ part[j] = "WHERE"
  /\ \A i, j \in 1..n : part[i] = "WHERE" /\ part[j] = "WHERE" => i = j

(* The grammar's places of n clauses: they grow, and none is behind top.    *)
Placed(n, place, top) ==
  /\ \A i \in 1..n : place[i] <= top
  /\ \A i, j \in 1..n : i < j => place[i] <= place[j]

At(q) == [i \in 1..Len(q.clauses) |-> q.clauses[i].at]
Part(q) == [i \in 1..Len(q.clauses) |-> q.clauses[i].part]
Places(q) == [i \in 1..Len(q.clauses) |-> Place[q.clauses[i].part]]
Parses(q, top) ==
  /\ Len(q.params) = q.index
  /\ InOrder(Len(q.clauses), q.index, At(q), Part(q), q.hasWhere)
  /\ Placed(Len(q.clauses), Places(q), top)

(* A list of placeholders and parts, longer by a clause at the next free    *)
(* placeholder, or by an order.                                             *)
Longer(n, m, k, at, part, where, at2, part2, where2) ==
  /\ \A i \in 1..n : at2[i] = at[i] /\ part2[i] = part[i]
  /\ \/ at2[n + 1] = m + 1 /\ k = m + 1
     \/ at2[n + 1] = 0 /\ k = m /\ part2[n + 1] = "ORDER"
  /\ \/ part2[n + 1] = "WHERE" /\ where # TRUE /\ where2 = TRUE
     \/ part2[n + 1] = "AND" /\ where = TRUE /\ where2 = TRUE
     \/ part2[n + 1] \notin Conditional /\ where2 = where

(* One more clause: bound to the next placeholder, or to none if it is an   *)
(* order.                                                                   *)
LEMMA OneMoreInOrder ==
  ASSUME NEW n \in Nat, NEW m \in Nat, NEW k \in Nat,
         NEW at \in [1..n -> Nat], NEW part \in [1..n -> ClauseParts],
         NEW at2 \in [1..(n + 1) -> Nat], NEW part2 \in [1..(n + 1) -> ClauseParts],
         NEW where, NEW where2,
         InOrder(n, m, at, part, where),
         Longer(n, m, k, at, part, where, at2, part2, where2)
  PROVE  InOrder(n + 1, k, at2, part2, where2)
<1> USE DEF Longer
<1>0. /\ n + 1 \in 1..(n + 1)
      /\ \A i \in 1..n : i \in 1..(n + 1) /\ i < n + 1 /\ ~(n + 1 < i)
      /\ \A i \in 1..(n + 1) : i \in 1..n \/ i = n + 1
      /\ k >= m
  OBVIOUS
<1>1. \A i \in 1..(n + 1) : at2[i] <= k
  <2>1. \A i \in 1..n : at[i] \in Nat /\ at[i] <= m
    BY DEF InOrder
  <2>2. at2[n + 1] <= k
    OBVIOUS
  <2>3. \A i \in 1..n : at2[i] <= k
    BY <1>0, <2>1
  <2> QED
    BY <1>0, <2>2, <2>3
<1>2. \A i, j \in 1..(n + 1) : i < j /\ at2[j] # 0 => at2[i] < at2[j]
  <2>1. \A i, j \in 1..n : i < j /\ at[j] # 0 => at[i] < at[j]
    BY DEF InOrder
  <2>2. ASSUME at2[n + 1] # 0, NEW i \in 1..n
        PROVE  at2[i] < at2[n + 1]
    <3>1. at2[i] = at[i] /\ at[i] <= m /\ at[i] \in Nat
      BY DEF InOrder
    <3> QED
      BY <2>2, <3>1
  <2>3. ASSUME NEW i \in 1..(n + 1), NEW j \in 1..(n + 1), i < j, at2[j] # 0
        PROVE  at2[i] < at2[j]
    <3>1. i \in 1..n
      BY <1>0, <2>3
    <3>2. CASE j \in 1..n
      BY <2>1, <2>3, <3>1, <3>2
    <3>3. CASE j = n + 1
      BY <2>2, <2>3, <3>1, <3>3
    <3> QED
      BY <1>0, <3>2, <3>3
  <2> QED
    BY <2>3
<1>3. \A l \in 1..k : \E i \in 1..(n + 1) : at2[i] = l
  <2>1. \A l \in 1..m : \E i \in 1..n : at2[i] = l
    BY DEF InOrder
  <2>2. k = m \/ (k = m + 1 /\ at2[n + 1] = m + 1)
    OBVIOUS
  <2>3. \A l \in 1..k : l \in 1..m \/ (l = m + 1 /\ k = m + 1)
    BY <2>2
  <2> QED
    BY <1>0, <2>1, <2>2, <2>3
<1>4. \A i \in 1..(n + 1) : part2[i] # "ORDER" => at2[i] # 0
  <2>1. \A i \in 1..n : part2[i] # "ORDER" => at2[i] # 0
    BY DEF InOrder
  <2>2. part2[n + 1] # "ORDER" => at2[n + 1] # 0
    OBVIOUS
  <2> QED
    BY <1>0, <2>1, <2>2
<1>5. where = TRUE <=> \E i \in 1..n : part2[i] = "WHERE"
  BY DEF InOrder
<1>6. where2 = TRUE <=> \E i \in 1..(n + 1) : part2[i] = "WHERE"
  BY <1>0, <1>5 DEF Conditional
<1>7. \A i \in 1..(n + 1) :
        part2[i] = "AND" => \E j \in 1..(n + 1) : j < i /\ part2[j] = "WHERE"
  <2>1. \A i \in 1..n : part2[i] = "AND" => \E j \in 1..n : j < i /\ part2[j] = "WHERE"
    BY DEF InOrder
  <2>2. part2[n + 1] = "AND" => \E j \in 1..n : j < n + 1 /\ part2[j] = "WHERE"
    BY <1>0, <1>5 DEF Conditional
  <2> QED
    BY <1>0, <2>1, <2>2
<1>8. \A i, j \in 1..(n + 1) : part2[i] = "WHERE" /\ part2[j] = "WHERE" => i = j
  <2>1. \A i, j \in 1..n : part2[i] = "WHERE" /\ part2[j] = "WHERE" => i = j
    BY DEF InOrder
  <2>2. part2[n + 1] = "WHERE" => \A i \in 1..n : part2[i] # "WHERE"
    BY <1>5 DEF Conditional
  <2> QED
    BY <1>0, <2>1, <2>2
<1> QED
  BY <1>1, <1>2, <1>3, <1>4, <1>6, <1>7, <1>8 DEF InOrder

(* And in its place, if that is not before the places so far.               *)
LEMMA OneMorePlaced ==
  ASSUME NEW n \in Nat, NEW place \in [1..n -> Nat], NEW place2 \in [1..(n + 1) -> Nat],
         NEW top \in Nat, Placed(n, place, top),
         \A i \in 1..n : place2[i] = place[i], top <= place2[n + 1]
  PROVE  Placed(n + 1, place2, place2[n + 1])
<1>1. /\ \A i \in 1..n : i \in 1..(n + 1) /\ ~(n + 1 < i)
      /\ \A i \in 1..(n + 1) : i \in 1..n \/ i = n + 1
      /\ place2[n + 1] \in Nat
  OBVIOUS
<1>2. \A i \in 1..n : place[i] \in Nat /\ place[i] <= top
  BY DEF Placed
<1>3. \A i \in 1..(n + 1) : place2[i] <= place2[n + 1]
  BY <1>1, <1>2
<1>4. \A i, j \in 1..(n + 1) : i < j => place2[i] <= place2[j]
  BY <1>1, <1>3 DEF Placed
<1> QED
  BY <1>3, <1>4 DEF Placed

(* The places of the clauses.                                               *)
LEMMA PlaceValues ==
  /\ Place["SET"] = 1 /\ Place["WHERE"] = 2 /\ Place["AND"] = 2
  /\ Place["ORDER"] = 3 /\ Place["LIMIT"] = 4 /\ Place["OFFSET"] = 5
  /\ \A part \in ClauseParts : Place[part] \in Nat
<1>1. /\ Place["SET"] = 1 /\ Place["WHERE"] = 2 /\ Place["AND"] = 2
      /\ Place["ORDER"] = 3 /\ Place["LIMIT"] = 4 /\ Place["OFFSET"] = 5
  BY DEF Place
<1>2. /\ 1 \in Nat /\ 2 \in Nat /\ 3 \in Nat /\ 4 \in Nat /\ 5 \in Nat
  OBVIOUS
<1> QED
  BY Zenon, <1>1, <1>2 DEF ClauseParts

(* What Append keeps.                                                       *)
LEMMA AppendKeeps ==
  ASSUME NEW S, NEW s \in Seq(S), NEW e \in S
  PROVE  /\ Len(Append(s, e)) = Len(s) + 1 /\ Append(s, e)[Len(s) + 1] = e
         /\ \A i \in 1..Len(s) : Append(s, e)[i] = s[i]
  OBVIOUS

(* A row a condition holds of.                                              *)
Holds(q, row, i) == row[q.clauses[i].column] \in q.params[q.clauses[i].at]

(* The conditions are clauses; which ones, and of what, Matches asks.       *)
LEMMA MatchesByIndex ==
  ASSUME NEW V, NEW q \in Builders(V), NEW row
  PROVE  Matches(q, row) <=>
           \A i \in 1..Len(q.clauses) : q.clauses[i].part \in Conditional => Holds(q, row, i)
<1>1. q.clauses \in Seq(Clauses)
  BY DEF Builders
<1>2. DOMAIN q.clauses = 1..Len(q.clauses)
  BY <1>1
<1>3. Matches(q, row) <=>
        \A i \in DOMAIN q.clauses : q.clauses[i].part \in Conditional => Holds(q, row, i)
  BY DEF Matches, Conditions, Range, Conditional, Holds
<1> QED
  BY <1>2, <1>3

(* So are those that bind a value for a column.                             *)
Binds(q, i, part, column, v) ==
  /\ q.clauses[i].part = part /\ q.clauses[i].column = column
  /\ v \in q.params[q.clauses[i].at]

LEMMA BoundByIndex ==
  ASSUME NEW V, NEW q \in Builders(V), NEW part, NEW column, NEW v
  PROVE  v \in Bound(q, part, column) <=>
           \E i \in 1..Len(q.clauses) : Binds(q, i, part, column, v)
<1>1. q.clauses \in Seq(Clauses)
  BY DEF Builders
<1>2. DOMAIN q.clauses = 1..Len(q.clauses)
  BY <1>1
<1>3. v \in Bound(q, part, column) <=> \E i \in DOMAIN q.clauses : Binds(q, i, part, column, v)
  BY DEF Bound, Range, Binds
<1> QED
  BY <1>2, <1>3

(* The builder r is q with one more clause, of the next placeholder or an   *)
(* order.                                                                   *)
OneMore(V, q, r, c, value) ==
  /\ q \in Builders(V) /\ r \in Builders(V) /\ c \in Clauses /\ value \in SUBSET V
  /\ r.clauses = Append(q.clauses, c)
  /\ \/ /\ c.at = q.index + 1 /\ r.index = q.index + 1
        /\ r.params = Append(q.params, value)
     \/ c.at = 0 /\ r.index = q.index /\ r.params = q.params /\ c.part = "ORDER"
  /\ \/ c.part = "WHERE" /\ q.hasWhere = FALSE /\ r.hasWhere = TRUE
     \/ c.part = "AND" /\ q.hasWhere = TRUE /\ r.hasWhere = TRUE
     \/ c.part \notin Conditional /\ r.hasWhere = q.hasWhere

(* The clauses of such a builder, one by one.                               *)
LEMMA OneMoreByIndex ==
  ASSUME NEW V, NEW q, NEW r, NEW c, NEW value, OneMore(V, q, r, c, value)
  PROVE  /\ Len(q.clauses) \in Nat /\ Len(r.clauses) = Len(q.clauses) + 1
         /\ \A i \in 1..Len(q.clauses) : q.clauses[i] \in Clauses /\ r.clauses[i] = q.clauses[i]
         /\ r.clauses[Len(q.clauses) + 1] = c
         /\ \A i \in 1..Len(r.clauses) : i \in 1..Len(q.clauses) \/ i = Len(r.clauses)
         /\ \A i \in 1..Len(q.clauses) : i \in 1..Len(r.clauses)
         /\ Len(r.clauses) \in 1..Len(r.clauses)
<1>1. q.clauses \in Seq(Clauses) /\ r.clauses = Append(q.clauses, c) /\ c \in Clauses
  BY DEF OneMore, Builders
<1> QED
  BY <1>1, AppendKeeps

(* It parses if q does and the clause is in its place.                      *)
LEMMA OneMoreParses ==
  ASSUME NEW V, NEW q, NEW r, NEW c, NEW value, OneMore(V, q, r, c, value),
         NEW top \in Nat, Parses(q, top), top <= Place[c.part]
  PROVE  Parses(r, Place[c.part])
<1>1. Len(q.clauses) \in Nat
  BY OneMoreByIndex
<1>2. q.index \in Nat /\ r.index \in Nat
  BY DEF OneMore, Builders
<1>3. PICK n \in Nat, m \in Nat, k \in Nat : n = Len(q.clauses) /\ m = q.index /\ k = r.index
  BY <1>1, <1>2
<1>4. /\ q.params \in Seq(SUBSET V) /\ value \in SUBSET V
      /\ Len(q.params) = m /\ InOrder(n, m, At(q), Part(q), q.hasWhere)
      /\ Placed(n, Places(q), top)
  BY <1>3 DEF OneMore, Builders, Parses
<1>5. /\ Len(r.clauses) = n + 1 /\ r.clauses[n + 1] = c /\ c \in Clauses
      /\ \A i \in 1..n : q.clauses[i] \in Clauses /\ r.clauses[i] = q.clauses[i]
  <2>1. c \in Clauses
    BY DEF OneMore
  <2> QED
    BY <1>3, <2>1, OneMoreByIndex
<1>6. /\ n + 1 \in 1..(n + 1)
      /\ \A i \in 1..n : i \in 1..(n + 1)
      /\ \A i \in 1..(n + 1) : i \in 1..n \/ i = n + 1
  OBVIOUS
<1>7. \A d \in Clauses : d.at \in Nat /\ d.part \in ClauseParts
  BY DEF Clauses
<1>8. /\ At(q) = [i \in 1..n |-> q.clauses[i].at]
      /\ Part(q) = [i \in 1..n |-> q.clauses[i].part]
      /\ Places(q) = [i \in 1..n |-> Place[q.clauses[i].part]]
      /\ At(r) = [i \in 1..(n + 1) |-> r.clauses[i].at]
      /\ Part(r) = [i \in 1..(n + 1) |-> r.clauses[i].part]
      /\ Places(r) = [i \in 1..(n + 1) |-> Place[r.clauses[i].part]]
  BY <1>3, <1>5 DEF At, Part, Places
<1>9. \A i \in 1..(n + 1) : r.clauses[i] \in Clauses
  BY <1>5, <1>6
<1>10. \A d \in Clauses : Place[d.part] \in Nat
  BY Zenon, <1>7, PlaceValues
<1>11. At(q) \in [1..n -> Nat] /\ Part(q) \in [1..n -> ClauseParts] /\ Places(q) \in [1..n -> Nat]
  BY <1>5, <1>7, <1>8, <1>10
<1>12. /\ At(r) \in [1..(n + 1) -> Nat] /\ Part(r) \in [1..(n + 1) -> ClauseParts]
       /\ Places(r) \in [1..(n + 1) -> Nat]
  BY <1>7, <1>8, <1>9, <1>10
<1>13. /\ \A i \in 1..n : At(r)[i] = At(q)[i] /\ Part(r)[i] = Part(q)[i]
       /\ At(r)[n + 1] = c.at /\ Part(r)[n + 1] = c.part
  BY <1>5, <1>6, <1>8
<1>14. (\A i \in 1..n : Places(r)[i] = Places(q)[i]) /\ Places(r)[n + 1] = Place[c.part]
  BY <1>5, <1>6, <1>8
<1>15. \/ c.at = m + 1 /\ k = m + 1 /\ r.params = Append(q.params, value)
       \/ c.at = 0 /\ k = m /\ c.part = "ORDER" /\ r.params = q.params
  BY <1>3 DEF OneMore
<1>16. InOrder(n + 1, k, At(r), Part(r), r.hasWhere)
  <2>1. \/ Part(r)[n + 1] = "WHERE" /\ q.hasWhere # TRUE /\ r.hasWhere = TRUE
        \/ Part(r)[n + 1] = "AND" /\ q.hasWhere = TRUE /\ r.hasWhere = TRUE
        \/ Part(r)[n + 1] \notin Conditional /\ r.hasWhere = q.hasWhere
    BY <1>13 DEF OneMore
  <2>2. \/ At(r)[n + 1] = m + 1 /\ k = m + 1
        \/ At(r)[n + 1] = 0 /\ k = m /\ Part(r)[n + 1] = "ORDER"
    BY <1>13, <1>15
  <2>3. \A i \in 1..n : At(r)[i] = At(q)[i] /\ Part(r)[i] = Part(q)[i]
    BY <1>13
  <2>4. InOrder(n, m, At(q), Part(q), q.hasWhere)
    BY <1>4
  <2> QED
    <3>1. Longer(n, m, k, At(q), Part(q), q.hasWhere, At(r), Part(r), r.hasWhere)
      BY Zenon, <2>1, <2>2, <2>3 DEF Longer
    <3> QED
      BY Zenon, <1>11, <1>12, <2>4, <3>1, OneMoreInOrder
<1>17. Placed(n + 1, Places(r), Place[c.part])
  <2>1. Placed(n + 1, Places(r), Places(r)[n + 1])
    BY <1>4, <1>11, <1>12, <1>14, OneMorePlaced
  <2> QED
    BY <1>14, <2>1
<1>18. Len(r.params) = k
  BY <1>4, <1>15
<1> QED
  BY <1>3, <1>5, <1>16, <1>17, <1>18 DEF Parses

(* The clauses of before keep their values.                                 *)
LEMMA ValuesKept ==
  ASSUME NEW V, NEW q, NEW r, NEW c, NEW value, OneMore(V, q, r, c, value),
         NEW top, Parses(q, top),
         NEW i \in 1..Len(q.clauses), q.clauses[i].part # "ORDER"
  PROVE  r.clauses[i] = q.clauses[i] /\ r.params[q.clauses[i].at] = q.params[q.clauses[i].at]
<1>1. PICK m \in Nat : m = q.index
  BY DEF OneMore, Builders
<1>2. /\ q.params \in Seq(SUBSET V) /\ value \in SUBSET V
      /\ Len(q.params) = m /\ InOrder(Len(q.clauses), m, At(q), Part(q), q.hasWhere)
  BY <1>1 DEF OneMore, Builders, Parses
<1>3. r.clauses[i] = q.clauses[i] /\ q.clauses[i] \in Clauses
  BY OneMoreByIndex
<1>4. At(q)[i] = q.clauses[i].at /\ Part(q)[i] = q.clauses[i].part /\ q.clauses[i].at \in Nat
  BY <1>3 DEF At, Part, Clauses
<1>5. q.clauses[i].at \in 1..m
  BY <1>2, <1>4 DEF InOrder
<1>6. r.params = Append(q.params, value) \/ r.params = q.params
  BY DEF OneMore
<1>7. \A j \in 1..m : Append(q.params, value)[j] = q.params[j]
  BY <1>2, AppendKeeps
<1>8. CASE r.params = Append(q.params, value)
  <2>1. r.params[q.clauses[i].at] = Append(q.params, value)[q.clauses[i].at]
    BY Zenon, <1>8
  <2> QED
    BY Zenon, <1>3, <1>5, <1>7, <2>1
<1>9. CASE r.params = q.params
  BY Zenon, <1>3, <1>9
<1> QED
  BY Zenon, <1>6, <1>8, <1>9

(* One more clause narrows the rows if it is a condition, and by its own    *)
(* value; it binds that for its own column; and nothing else changes.       *)
LEMMA OneMoreClause ==
  ASSUME NEW V, NEW q, NEW r, NEW c, NEW value, OneMore(V, q, r, c, value),
         NEW top, Parses(q, top), NEW row
  PROVE  /\ Matches(r, row) <=>
              Matches(q, row) /\ (c.part \in Conditional => row[c.column] \in value)
         /\ \A part, column :
              part # "ORDER" /\ ~(part = c.part /\ column = c.column) =>
                Bound(r, part, column) = Bound(q, part, column)
         /\ c.part # "ORDER" =>
              Bound(r, c.part, c.column) = Bound(q, c.part, c.column) \cup value
<1>1. PICK n \in Nat : n = Len(q.clauses)
  BY OneMoreByIndex
<1>2. /\ Len(r.clauses) = n + 1 /\ r.clauses[n + 1] = c
      /\ \A i \in 1..n : r.clauses[i] = q.clauses[i]
      /\ \A i \in 1..(n + 1) : i \in 1..n \/ i = n + 1
      /\ \A i \in 1..n : i \in 1..(n + 1)
      /\ n + 1 \in 1..(n + 1)
  BY <1>1, OneMoreByIndex
<1>3. c.part # "ORDER" => r.params[c.at] = value
  BY AppendKeeps DEF OneMore, Builders, Parses
<1>4. q \in Builders(V) /\ r \in Builders(V)
  BY DEF OneMore
<1>5. "ORDER" \notin Conditional
  BY DEF Conditional
<1>6. Matches(r, row) <=>
        Matches(q, row) /\ (c.part \in Conditional => row[c.column] \in value)
  <2>1. /\ Matches(q, row) <=>
             \A i \in 1..n : q.clauses[i].part \in Conditional => Holds(q, row, i)
        /\ Matches(r, row) <=>
             \A i \in 1..(n + 1) : r.clauses[i].part \in Conditional => Holds(r, row, i)
    BY <1>1, <1>2, <1>4, MatchesByIndex
  <2>2. ASSUME NEW i \in 1..n, q.clauses[i].part \in Conditional
        PROVE  Holds(r, row, i) <=> Holds(q, row, i)
    <3>1. q.clauses[i].part # "ORDER"
      BY <1>5, <2>2
    <3> QED
      BY <1>1, <3>1, ValuesKept DEF Holds
  <2>3. c.part \in Conditional => (Holds(r, row, n + 1) <=> row[c.column] \in value)
    BY <1>2, <1>3, <1>5 DEF Holds
  <2> QED
    BY <1>2, <2>1, <2>2, <2>3
<1>7. ASSUME NEW part, NEW column, NEW v, part # "ORDER"
      PROVE  v \in Bound(r, part, column) <=>
               \/ v \in Bound(q, part, column)
               \/ part = c.part /\ column = c.column /\ v \in value
  <2>1. /\ v \in Bound(q, part, column) <=> \E i \in 1..n : Binds(q, i, part, column, v)
        /\ v \in Bound(r, part, column) <=> \E i \in 1..(n + 1) : Binds(r, i, part, column, v)
    BY <1>1, <1>2, <1>4, BoundByIndex
  <2>2. \A i \in 1..n : Binds(r, i, part, column, v) <=> Binds(q, i, part, column, v)
    BY <1>1, <1>2, <1>7, ValuesKept DEF Binds
  <2>3. Binds(r, n + 1, part, column, v) <=> part = c.part /\ column = c.column /\ v \in value
    BY <1>2, <1>3, <1>7 DEF Binds
  <2> QED
    BY <1>2, <2>1, <2>2, <2>3
<1>8. \A part, column :
        part # "ORDER" /\ ~(part = c.part /\ column = c.column) =>
          Bound(r, part, column) = Bound(q, part, column)
  <2> SUFFICES ASSUME NEW part, NEW column, part # "ORDER",
                      ~(part = c.part /\ column = c.column)
               PROVE  Bound(r, part, column) = Bound(q, part, column)
    BY Zenon
  <2>1. ASSUME NEW v
        PROVE  v \in Bound(r, part, column) <=> v \in Bound(q, part, column)
    BY <1>7
  <2> QED
    BY Zenon, <2>1
<1>9. c.part # "ORDER" =>
        Bound(r, c.part, c.column) = Bound(q, c.part, c.column) \cup value
  <2> SUFFICES ASSUME c.part # "ORDER"
               PROVE  Bound(r, c.part, c.column) = Bound(q, c.part, c.column) \cup value
    OBVIOUS
  <2>1. \A v : v \in Bound(r, c.part, c.column) <=> v \in Bound(q, c.part, c.column) \/ v \in value
    BY Zenon, <1>7
  <2> QED
    BY Zenon, <2>1
<1> QED
  BY <1>6, <1>8, <1>9

(* No clause of a part whose place is behind the last binds anything.       *)
LEMMA NothingBound ==
  ASSUME NEW V, NEW q \in Builders(V), NEW top \in Nat, Parses(q, top),
         NEW part \in ClauseParts, top < Place[part], NEW column
  PROVE  Bound(q, part, column) = {}
<1>1. ASSUME NEW i \in 1..Len(q.clauses)
      PROVE  q.clauses[i].part # part
  <2>1. Places(q)[i] = Place[q.clauses[i].part]
    BY DEF Places
  <2>2. Places(q)[i] <= top
    BY DEF Parses, Placed
  <2>3. Place[part] \in Nat
    BY PlaceValues
  <2>4. ASSUME q.clauses[i].part = part
        PROVE  FALSE
    <3>1. Place[part] <= top
      BY <2>1, <2>2, <2>4
    <3> QED
      BY <2>3, <3>1
  <2> QED
    BY <2>4
<1>2. \A v : v \notin Bound(q, part, column)
  BY <1>1, BoundByIndex DEF Binds
<1> QED
  BY <1>2


(* What parses parses behind any later place too.                           *)
LEMMA ParsesBehind ==
  ASSUME NEW V, NEW q \in Builders(V), NEW top \in Nat, NEW last \in Nat,
         Parses(q, top), top <= last
  PROVE  Parses(q, last)
<1>1. q.clauses \in Seq(Clauses)
  BY DEF Builders
<1>2. \A i \in 1..Len(q.clauses) : q.clauses[i].part \in ClauseParts
  <2>1. \A i \in 1..Len(q.clauses) : q.clauses[i] \in Clauses
    BY <1>1
  <2> QED
    BY <2>1 DEF Clauses
<1>3. \A i \in 1..Len(q.clauses) : Places(q)[i] \in Nat
  BY <1>2, PlaceValues DEF Places
<1>4. Placed(Len(q.clauses), Places(q), last)
  BY <1>3 DEF Parses, Placed
<1> QED
  BY <1>4 DEF Parses

(* The statement asks for an order, of ids.                                 *)
Ordered(q) == \E c \in Range(q.clauses) : c.part = "ORDER" /\ c.column = "id"

LEMMA OneMoreOrdered ==
  ASSUME NEW V, NEW q, NEW r, NEW c, NEW value, OneMore(V, q, r, c, value)
  PROVE  Ordered(r) <=> Ordered(q) \/ (c.part = "ORDER" /\ c.column = "id")
<1>1. q.clauses \in Seq(Clauses) /\ r.clauses \in Seq(Clauses)
  BY DEF OneMore, Builders
<1>2. DOMAIN q.clauses = 1..Len(q.clauses) /\ DOMAIN r.clauses = 1..Len(r.clauses)
  BY <1>1
<1>3. Range(r.clauses) = Range(q.clauses) \cup {c}
  <2>1. /\ Range(q.clauses) = {q.clauses[i] : i \in 1..Len(q.clauses)}
        /\ Range(r.clauses) = {r.clauses[i] : i \in 1..Len(r.clauses)}
    BY <1>2 DEF Range
  <2>2. \A i \in 1..Len(r.clauses) : r.clauses[i] \in Range(q.clauses) \cup {c}
    BY <2>1, OneMoreByIndex
  <2>3. \A i \in 1..Len(q.clauses) : q.clauses[i] \in Range(r.clauses)
    BY <2>1, OneMoreByIndex
  <2>4. c \in Range(r.clauses)
    BY <2>1, OneMoreByIndex
  <2> HIDE DEF Range
  <2> QED
    BY <2>1, <2>2, <2>3, <2>4
<1> QED
  BY Zenon, <1>3 DEF Ordered

(* Binding a value appends one clause with the next placeholder, and the    *)
(* value at its place.                                                      *)
LEMMA BindAppends ==
  ASSUME NEW V, NEW q \in Builders(V), NEW part \in ClauseParts, NEW column \in ClauseColumns,
         NEW value \in SUBSET V
  PROVE  LET r == Bind(q, part, column, value) IN
         /\ r \in Builders(V)
         /\ r.clauses = Append(q.clauses, Clause(part, column, q.index + 1))
         /\ r.params = Append(q.params, value)
         /\ r.index = q.index + 1
         /\ r.hasWhere = q.hasWhere
<1> DEFINE r == Bind(q, part, column, value)
           cl == Append(q.clauses, Clause(part, column, q.index + 1))
           ps == Append(q.params, value)
<1>1. /\ q.clauses \in Seq(Clauses)
      /\ q.params \in Seq(SUBSET V) /\ q.index \in Nat
  BY DEF Builders
<1>2. Clause(part, column, q.index + 1) \in Clauses
  BY <1>1 DEF Clause, Clauses
<1>3. cl \in Seq(Clauses) /\ ps \in Seq(SUBSET V)
      /\ q.index + 1 \in Nat
  BY <1>1, <1>2
<1>4. r = [q EXCEPT !.clauses = cl, !.params = ps, !.index = q.index + 1]
  BY Zenon DEF Bind, Builders
<1> HIDE DEF cl, ps
<1>5. r \in Builders(V)
  BY Zenon, <1>3, <1>4 DEF Builders
<1>6. r.clauses = cl
  BY Zenon, <1>4 DEF Builders
<1>7. r.params = ps
  BY Zenon, <1>4 DEF Builders
<1>8. r.index = q.index + 1
  BY Zenon, <1>4 DEF Builders
<1>9. r.hasWhere = q.hasWhere
  BY Zenon, <1>4 DEF Builders
<1> QED
  BY <1>5, <1>6, <1>7, <1>8, <1>9 DEF cl, ps

(* What a builder's state promises, and of which rows.                      *)
Means(q, V, row, wanted, top) ==
  q \in Builders(V) /\ Parses(q, top) /\ (Matches(q, row) <=> wanted)

(* A condition narrows the rows, by its own value; what is set stays as it  *)
(* is.                                                                      *)
LEMMA ConditionNarrows ==
  ASSUME NEW V, NEW q, NEW row, NEW wanted \in BOOLEAN, NEW top \in Nat, top <= 2,
         Means(q, V, row, wanted, top),
         NEW column \in ClauseColumns, NEW value \in SUBSET V
  PROVE  /\ Means(Condition(q, column, value), V, row, wanted /\ row[column] \in value, 2)
         /\ \A field : Bound(Condition(q, column, value), "SET", field) = Bound(q, "SET", field)
<1> DEFINE part == IF q.hasWhere THEN "AND" ELSE "WHERE"
           b == Bind(q, part, column, value)
           r == [b EXCEPT !.hasWhere = TRUE]
<1>0. q \in Builders(V) /\ Parses(q, top) /\ (Matches(q, row) <=> wanted)
  BY DEF Means
<1>1. Condition(q, column, value) = r
  BY DEF Condition
<1>2. /\ part \in {"AND", "WHERE"} /\ part \in ClauseParts /\ part \in Conditional
      /\ \/ part = "WHERE" /\ q.hasWhere = FALSE
         \/ part = "AND" /\ q.hasWhere = TRUE
  <2>1. q.hasWhere = TRUE \/ q.hasWhere = FALSE
    BY <1>0 DEF Builders
  <2>2. CASE q.hasWhere = TRUE
    BY <2>2 DEF Conditional, ClauseParts
  <2>3. CASE q.hasWhere = FALSE
    BY <2>3 DEF Conditional, ClauseParts
  <2> QED
    BY <2>1, <2>2, <2>3
<1> HIDE DEF part
<1>3. /\ b \in Builders(V)
      /\ b.clauses = Append(q.clauses, Clause(part, column, q.index + 1))
      /\ b.params = Append(q.params, value)
      /\ b.index = q.index + 1
  BY <1>0, <1>2, BindAppends
<1> HIDE DEF b
<1>4. r \in Builders(V)
  BY <1>3 DEF Builders
<1>5. r.clauses = b.clauses
  BY Zenon, <1>3 DEF Builders
<1>6. r.params = b.params
  BY Zenon, <1>3 DEF Builders
<1>7. r.index = b.index
  BY Zenon, <1>3 DEF Builders
<1>8. r.hasWhere = TRUE
  BY <1>3 DEF Builders
<1> HIDE DEF r
<1> DEFINE c == Clause(part, column, q.index + 1)
<1>9. /\ c \in Clauses /\ c.part = part /\ c.column = column /\ c.at = q.index + 1
  <2>1. q.index + 1 \in Nat
    BY <1>0 DEF Builders
  <2> QED
    BY <1>2, <2>1 DEF Clause, Clauses
<1>10. /\ r.clauses = Append(q.clauses, c)
       /\ r.params = Append(q.params, value) /\ r.index = q.index + 1
  BY <1>3, <1>5, <1>6, <1>7
<1> HIDE DEF c
<1>11. OneMore(V, q, r, c, value)
  BY <1>0, <1>2, <1>4, <1>8, <1>9, <1>10 DEF OneMore
<1>12. /\ c.part # "SET" /\ Place[c.part] = 2
       /\ c.part \in Conditional
  BY <1>2, <1>9, PlaceValues
<1>13. Parses(r, 2)
  <2>1. top <= Place[c.part]
    BY <1>12
  <2>2. Parses(r, Place[c.part])
    BY Zenon, <1>0, <1>11, <2>1, OneMoreParses
  <2> QED
    BY Zenon, <1>12, <2>2
<1>14. /\ Matches(r, row) <=> Matches(q, row) /\ row[c.column] \in value
       /\ \A field : Bound(r, "SET", field) = Bound(q, "SET", field)
  BY <1>0, <1>11, <1>12, OneMoreClause
<1> QED
  BY <1>0, <1>1, <1>4, <1>9, <1>13, <1>14 DEF Means

(* The one of an optional value is there if the value is, and is no clause  *)
(* at all if not.                                                           *)
LEMMA WhereNarrows ==
  ASSUME NEW V, NEW q, NEW row, NEW wanted \in BOOLEAN, NEW top \in Nat, top <= 2,
         Means(q, V, row, wanted, top),
         NEW column \in ClauseColumns, NEW value \in SUBSET V
  PROVE  /\ Means(Where(q, column, value), V, row,
                  wanted /\ (value = {} \/ row[column] \in value), 2)
         /\ \A field : Bound(Where(q, column, value), "SET", field) = Bound(q, "SET", field)
<1>0. q \in Builders(V) /\ Parses(q, top) /\ (Matches(q, row) <=> wanted)
  BY DEF Means
<1>1. CASE value = {}
  <2>1. Parses(q, 2)
    BY <1>0, ParsesBehind
  <2>2. Where(q, column, value) = q
    BY <1>1 DEF Where
  <2> QED
    BY <1>0, <1>1, <2>1, <2>2 DEF Means
<1>2. CASE value # {}
  <2>1. Where(q, column, value) = Condition(q, column, value)
    BY <1>2 DEF Where
  <2>2. /\ Means(Condition(q, column, value), V, row, wanted /\ row[column] \in value, 2)
        /\ \A field : Bound(Condition(q, column, value), "SET", field) = Bound(q, "SET", field)
    BY ConditionNarrows
  <2>3. (wanted /\ (value = {} \/ row[column] \in value)) <=> (wanted /\ row[column] \in value)
    BY <1>2
  <2> QED
    BY Zenon, <2>1, <2>2, <2>3 DEF Means
<1> QED
  BY <1>1, <1>2

(* A limit or an offset that is there is the only one, and changes nothing  *)
(* else.                                                                    *)
LEMMA PagingBinds ==
  ASSUME NEW V, NEW q, NEW row, NEW wanted \in BOOLEAN, NEW top \in Nat,
         Means(q, V, row, wanted, top),
         NEW part \in {"LIMIT", "OFFSET"}, top < Place[part], NEW n \in SUBSET V,
         NEW r, r = IF n = {} THEN q ELSE Bind(q, part, "none", n)
  PROVE  /\ Means(r, V, row, wanted, Place[part])
         /\ Bound(r, part, "none") = n
         /\ \A other : other # part /\ other # "ORDER" =>
              Bound(r, other, "none") = Bound(q, other, "none")
         /\ Ordered(q) => Ordered(r)
<1>0. /\ q \in Builders(V) /\ Parses(q, top) /\ (Matches(q, row) <=> wanted)
      /\ part \in ClauseParts /\ part \notin Conditional /\ part # "ORDER"
      /\ "none" \in ClauseColumns
  BY DEF Means, ClauseParts, Conditional, ClauseColumns
<1>1. Place[part] \in Nat /\ top <= Place[part]
  BY <1>0, PlaceValues
<1>2. Bound(q, part, "none") = {}
  BY <1>0, NothingBound
<1>3. CASE n = {}
  <2>1. Parses(q, Place[part])
    BY <1>0, <1>1, ParsesBehind
  <2> QED
    BY <1>0, <1>2, <1>3, <2>1 DEF Means
<1>4. CASE n # {}
  <2>1. r = Bind(q, part, "none", n)
    BY <1>4
  <2>2. /\ r \in Builders(V)
        /\ r.clauses = Append(q.clauses, Clause(part, "none", q.index + 1))
        /\ r.params = Append(q.params, n)
        /\ r.index = q.index + 1
        /\ r.hasWhere = q.hasWhere
    BY <1>0, <2>1, BindAppends
  <2> DEFINE c == Clause(part, "none", q.index + 1)
  <2>3. c \in Clauses /\ c.part = part /\ c.column = "none" /\ c.at = q.index + 1
    <3>1. q.index + 1 \in Nat
      BY <1>0 DEF Builders
    <3> QED
      BY <1>0, <3>1 DEF Clause, Clauses
  <2>4. r.clauses = Append(q.clauses, c)
    BY <2>2
  <2> HIDE DEF c
  <2>5. OneMore(V, q, r, c, n)
    BY <1>0, <2>2, <2>3, <2>4 DEF OneMore
  <2>6. Parses(r, Place[part])
    <3>1. Parses(r, Place[c.part])
      BY <1>0, <1>1, <2>3, <2>5, OneMoreParses
    <3> QED
      BY <2>3, <3>1
  <2>7. /\ Matches(r, row) <=> Matches(q, row)
        /\ Bound(r, part, "none") = n
        /\ \A other : other # part /\ other # "ORDER" =>
             Bound(r, other, "none") = Bound(q, other, "none")
    <3>1. /\ Matches(r, row) <=>
               Matches(q, row) /\ (c.part \in Conditional => row[c.column] \in n)
          /\ \A other, column :
               other # "ORDER" /\ ~(other = c.part /\ column = c.column) =>
                 Bound(r, other, column) = Bound(q, other, column)
          /\ c.part # "ORDER" =>
               Bound(r, c.part, c.column) = Bound(q, c.part, c.column) \cup n
      BY <1>0, <2>5, OneMoreClause
    <3> QED
      BY <1>0, <1>2, <2>3, <3>1
  <2>8. Ordered(q) => Ordered(r)
    BY <2>5, OneMoreOrdered
  <2> QED
    BY <1>0, <2>2, <2>6, <2>7, <2>8 DEF Means
<1> QED
  BY <1>3, <1>4

LEMMA LimitBinds ==
  ASSUME NEW V, NEW q, NEW row, NEW wanted \in BOOLEAN, Means(q, V, row, wanted, 3),
         NEW n \in SUBSET V
  PROVE  /\ Means(Limit(q, n), V, row, wanted, 4)
         /\ Bound(Limit(q, n), "LIMIT", "none") = n
         /\ Ordered(q) => Ordered(Limit(q, n))
<1> DEFINE r == Limit(q, n)
<1>1. r = IF n = {} THEN q ELSE Bind(q, "LIMIT", "none", n)
  BY DEF Limit
<1>2. /\ "LIMIT" \in {"LIMIT", "OFFSET"} /\ Place["LIMIT"] = 4
      /\ 3 \in Nat /\ 3 < Place["LIMIT"]
  BY PlaceValues
<1> HIDE DEF r
<1>3. /\ Means(r, V, row, wanted, Place["LIMIT"]) /\ (Ordered(q) => Ordered(r))
      /\ Bound(r, "LIMIT", "none") = n
  <2> DEFINE part == "LIMIT"
  <2>1. part \in {"LIMIT", "OFFSET"} /\ 3 \in Nat /\ 3 < Place[part]
    BY <1>2
  <2>2. r = IF n = {} THEN q ELSE Bind(q, part, "none", n)
    BY <1>1
  <2> HIDE DEF part
  <2>3. /\ Means(r, V, row, wanted, Place[part]) /\ (Ordered(q) => Ordered(r))
        /\ Bound(r, part, "none") = n
    BY <2>1, <2>2, PagingBinds
  <2> QED
    BY <2>3 DEF part
<1> QED
  BY <1>2, <1>3 DEF r

LEMMA OffsetBinds ==
  ASSUME NEW V, NEW q, NEW row, NEW wanted \in BOOLEAN, Means(q, V, row, wanted, 4),
         NEW n \in SUBSET V
  PROVE  /\ Means(Offset(q, n), V, row, wanted, 5)
         /\ Bound(Offset(q, n), "OFFSET", "none") = n
         /\ Bound(Offset(q, n), "LIMIT", "none") = Bound(q, "LIMIT", "none")
         /\ Ordered(q) => Ordered(Offset(q, n))
<1> DEFINE r == Offset(q, n)
<1>1. r = IF n = {} THEN q ELSE Bind(q, "OFFSET", "none", n)
  BY DEF Offset
<1>2. /\ "OFFSET" \in {"LIMIT", "OFFSET"} /\ Place["OFFSET"] = 5
      /\ 4 \in Nat /\ 4 < Place["OFFSET"]
  BY PlaceValues
<1> HIDE DEF r
<1>3. /\ Means(r, V, row, wanted, Place["OFFSET"]) /\ (Ordered(q) => Ordered(r))
      /\ Bound(r, "OFFSET", "none") = n
      /\ Bound(r, "LIMIT", "none") = Bound(q, "LIMIT", "none")
  BY <1>1, <1>2, PagingBinds
<1> QED
  BY <1>2, <1>3 DEF r

(* An order has no placeholder and narrows nothing.                         *)
LEMMA OrderNarrowsNothing ==
  ASSUME NEW V, NEW q, NEW row, NEW wanted \in BOOLEAN, Means(q, V, row, wanted, 2)
  PROVE  Means(OrderBy(q, "id"), V, row, wanted, 3) /\ Ordered(OrderBy(q, "id"))
<1> DEFINE c == Clause("ORDER", "id", 0)
           cl == Append(q.clauses, c)
           r == [q EXCEPT !.clauses = cl]
<1>0. q \in Builders(V) /\ Parses(q, 2) /\ (Matches(q, row) <=> wanted)
  BY DEF Means
<1>1. q.clauses \in Seq(Clauses)
  BY <1>0 DEF Builders
<1>2. /\ c \in Clauses /\ c.part = "ORDER" /\ c.column = "id" /\ c.at = 0
      /\ "ORDER" \notin Conditional
  BY DEF Clause, Clauses, ClauseParts, ClauseColumns, Columns, Conditional
<1>3. OrderBy(q, "id") = r
  BY Zenon, <1>0 DEF OrderBy, Builders
<1> HIDE DEF c
<1>4. cl \in Seq(Clauses)
  BY <1>1, <1>2
<1> HIDE DEF cl
<1>5. r \in Builders(V)
  BY <1>0, <1>4 DEF Builders
<1>6. r.clauses = cl
  BY Zenon, <1>0 DEF Builders
<1>7. r.params = q.params
  BY Zenon, <1>0 DEF Builders
<1>8. r.index = q.index
  BY Zenon, <1>0 DEF Builders
<1>9. r.hasWhere = q.hasWhere
  BY Zenon, <1>0 DEF Builders
<1> HIDE DEF r
<1>10. r.clauses = Append(q.clauses, c) /\ {} \in SUBSET V
  BY <1>6 DEF cl
<1>11. OneMore(V, q, r, c, {})
  BY <1>0, <1>2, <1>5, <1>7, <1>8, <1>9, <1>10 DEF OneMore
<1>12. Place[c.part] = 3
  BY <1>2, PlaceValues
<1>13. Parses(r, 3)
  <2>1. 2 <= Place[c.part]
    BY <1>12
  <2>2. Parses(r, Place[c.part])
    BY <1>0, <1>11, <2>1, OneMoreParses
  <2> QED
    BY <1>12, <2>2
<1>14. (Matches(r, row) <=> Matches(q, row)) /\ Ordered(r)
  BY <1>0, <1>2, <1>11, OneMoreClause, OneMoreOrdered
<1> QED
  BY <1>0, <1>3, <1>5, <1>13, <1>14 DEF Means

(* What parses is a text PostgreSQL parses.                                 *)
LEMMA ParsedIsWellFormed ==
  ASSUME NEW V, NEW q \in Builders(V), NEW top, Parses(q, top)
  PROVE  WellFormed(q)
<1>1. q.clauses \in Seq(Clauses) /\ q.params \in Seq(SUBSET V) /\ q.index \in Nat
  BY DEF Builders
<1>2. PICK n \in Nat : n = Len(q.clauses)
  BY <1>1
<1>3. /\ DOMAIN q.clauses = 1..n /\ DOMAIN q.params = 1..q.index
      /\ \A i \in 1..n : q.clauses[i].at \in Nat
  <2>1. DOMAIN q.clauses = 1..n /\ \A i \in 1..n : q.clauses[i] \in Clauses
    BY <1>1, <1>2
  <2>2. DOMAIN q.params = 1..q.index
    BY <1>1 DEF Parses
  <2> QED
    BY <2>1, <2>2 DEF Clauses
<1>4. /\ At(q) = [i \in 1..n |-> q.clauses[i].at]
      /\ Part(q) = [i \in 1..n |-> q.clauses[i].part]
      /\ Places(q) = [i \in 1..n |-> Place[q.clauses[i].part]]
  BY <1>2 DEF At, Part, Places
<1>5. \A i \in 1..n : /\ At(q)[i] = q.clauses[i].at /\ Part(q)[i] = q.clauses[i].part
                      /\ Places(q)[i] = Place[q.clauses[i].part]
  BY <1>4
<1>6. InOrder(n, q.index, At(q), Part(q), q.hasWhere) /\ Placed(n, Places(q), top)
  BY <1>2 DEF Parses
<1>7. \A i, j \in 1..n : i < j => Place[q.clauses[i].part] <= Place[q.clauses[j].part]
  BY <1>5, <1>6 DEF Placed
<1>8. /\ \A i \in 1..n : q.clauses[i].part = "AND" =>
           \E j \in 1..n : j < i /\ q.clauses[j].part = "WHERE"
      /\ \A i, j \in 1..n : q.clauses[i].part = "WHERE" /\ q.clauses[j].part = "WHERE" => i = j
  BY <1>5, <1>6 DEF InOrder
<1>9. \A i, j \in 1..n : i < j /\ q.clauses[i].at # 0 /\ q.clauses[j].at # 0 =>
        q.clauses[i].at < q.clauses[j].at
  BY <1>5, <1>6 DEF InOrder
<1>10. {q.clauses[i].at : i \in 1..n} \ {0} = 1..q.index
  <2>1. \A i \in 1..n : q.clauses[i].at # 0 => q.clauses[i].at \in 1..q.index
    BY <1>1, <1>3, <1>5, <1>6 DEF InOrder
  <2>2. \A k \in 1..q.index : \E i \in 1..n : q.clauses[i].at = k
    BY <1>5, <1>6 DEF InOrder
  <2>3. 0 \notin 1..q.index
    OBVIOUS
  <2> QED
    BY <2>1, <2>2, <2>3
<1> QED
  BY <1>3, <1>7, <1>8, <1>9, <1>10 DEF WellFormed
-----------------------------------------------------------------------------
(* The statements of UsersRepository.                                       *)

(* A builder nothing was asked of yet is of every row.                      *)
LEMMA EmptyMeansAll ==
  ASSUME NEW V, NEW row, NEW q \in Builders(V),
         q.clauses = <<>>, q.params = <<>>, q.index = 0, q.hasWhere = FALSE
  PROVE  Means(q, V, row, TRUE, 0)
<1>1. Len(q.clauses) = 0 /\ Len(q.params) = 0
  OBVIOUS
<1>2. Parses(q, 0)
  BY <1>1 DEF Parses, InOrder, Placed
<1>3. Matches(q, row)
  BY <1>1, MatchesByIndex
<1> QED
  BY <1>2, <1>3 DEF Means

(* So is one whose only call was Select or Delete.                          *)
LEMMA StartMeansAll ==
  ASSUME NEW V, NEW row
  PROVE  Means(Select(Builder), V, row, TRUE, 0) /\ Means(Delete(Builder), V, row, TRUE, 0)
<1>1. /\ Builder \in Builders(V)
      /\ Builder.clauses = <<>> /\ Builder.params = <<>>
      /\ Builder.index = 0 /\ Builder.hasWhere = FALSE
  <2>1. <<>> \in Seq(Clauses) /\ <<>> \in Seq(SUBSET V) /\ 0 \in Nat
    OBVIOUS
  <2> QED
    BY <2>1 DEF Builder, Builders, Verbs
<1> DEFINE s == Select(Builder)
           d == Delete(Builder)
<1>2. s \in Builders(V) /\ d \in Builders(V)
  BY <1>1 DEF Select, Delete, Builders, Verbs
<1>3. s.clauses = <<>> /\ s.params = <<>> /\ s.index = 0 /\ s.hasWhere = FALSE
  BY Zenon, <1>1 DEF Select, Builders
<1>4. d.clauses = <<>> /\ d.params = <<>> /\ d.index = 0 /\ d.hasWhere = FALSE
  BY Zenon, <1>1 DEF Delete, Builders
<1> QED
  BY <1>2, <1>3, <1>4, EmptyMeansAll DEF s, d

(* A first condition, of a value that is there or not.                      *)
LEMMA FirstCondition ==
  ASSUME NEW V, NEW row, NEW column \in ClauseColumns, NEW value \in SUBSET V,
         NEW start \in {Select(Builder), Delete(Builder)}
  PROVE  Means(Where(start, column, value), V, row, value = {} \/ row[column] \in value, 2)
<1>1. Means(start, V, row, TRUE, 0)
  BY Zenon, StartMeansAll
<1>2. 0 \in Nat /\ 0 <= 2
  OBVIOUS
<1>3. Means(Where(start, column, value), V, row,
            TRUE /\ (value = {} \/ row[column] \in value), 2)
  BY Zenon, <1>1, <1>2, WhereNarrows
<1> QED
  BY Zenon, <1>3 DEF Means

(* And a further one.                                                       *)
LEMMA NextCondition ==
  ASSUME NEW V, NEW row, NEW q, NEW wanted \in BOOLEAN, Means(q, V, row, wanted, 2),
         NEW column \in ClauseColumns, NEW value \in SUBSET V
  PROVE  Means(Where(q, column, value), V, row,
               wanted /\ (value = {} \/ row[column] \in value), 2)
<1>1. 2 \in Nat /\ 2 <= 2
  OBVIOUS
<1> QED
  BY Zenon, <1>1, WhereNarrows

(* And one of a list, of what its array is read as; an empty one is no      *)
(* clause.                                                                  *)
Arrayed(list) == IF list \subseteq {<<>>} THEN {} ELSE ArrayToPg(list)
In(list, v) == list \subseteq {<<>>} \/ v \in Arrayed(list)

LEMMA NextListing ==
  ASSUME NEW V, NEW row, NEW q, NEW wanted \in BOOLEAN, Means(q, V, row, wanted, 2),
         NEW column \in ClauseColumns, NEW list, Arrayed(list) \in SUBSET V
  PROVE  Means(WhereAny(q, column, list), V, row, wanted /\ In(list, row[column]), 2)
<1>1. CASE list \subseteq {<<>>}
  <2>1. WhereAny(q, column, list) = q /\ In(list, row[column])
    BY <1>1 DEF WhereAny, In
  <2> QED
    BY Zenon, <2>1 DEF Means
<1>2. CASE ~(list \subseteq {<<>>})
  <2>1. WhereAny(q, column, list) = Condition(q, column, Arrayed(list))
    BY Zenon, <1>2 DEF WhereAny, Arrayed
  <2>2. In(list, row[column]) <=> row[column] \in Arrayed(list)
    BY Zenon, <1>2 DEF In
  <2>3. 2 \in Nat /\ 2 <= 2
    OBVIOUS
  <2>4. Means(Condition(q, column, Arrayed(list)), V, row,
              wanted /\ row[column] \in Arrayed(list), 2)
    BY Zenon, <2>3, ConditionNarrows
  <2> QED
    BY Zenon, <2>1, <2>2, <2>4 DEF Means
<1> QED
  BY <1>1, <1>2

(* Plain texts are read as themselves.                                      *)
LEMMA PlainArrays ==
  ASSUME NEW list \in Option(BoundedSeq(Plain, MaxListed))
  PROVE  /\ Arrayed(list) = Listed(list) /\ Listed(list) \subseteq Plain
         /\ list \subseteq {<<>>} <=> Listed(list) = {}
<1>1. CASE list = {}
  BY <1>1 DEF Arrayed, Listed
<1>2. ASSUME NEW s \in BoundedSeq(Plain, MaxListed), list = {s}
      PROVE  /\ Arrayed(list) = Listed(list) /\ Listed(list) \subseteq Plain
             /\ list \subseteq {<<>>} <=> Listed(list) = {}
  <2>1. PICK n \in 0..MaxListed : s \in [1..n -> Plain]
    BY <1>2 DEF BoundedSeq, SeqOf
  <2>2. Listed(list) = Range(s) /\ ArrayToPg(list) = ArrayIn(s)
    BY <1>2 DEF Listed, ArrayToPg
  <2>3. Range(s) \subseteq Plain
    BY <2>1 DEF Range
  <2>4. n \in Nat
    BY LiteralAssumption
  <2>5. CASE s = <<>>
    <3>1. Range(s) = {}
      BY <2>5 DEF Range
    <3> QED
      BY <1>2, <2>2, <2>5, <3>1 DEF Arrayed
  <2>6. CASE s # <<>>
    <3>1. ArrayIn(s) = Range(s)
      BY <1>2, <2>6, LiteralAssumption
    <3>2. n # 0
      BY <2>1, <2>4, <2>6
    <3>3. s[1] \in Range(s)
      BY <2>1, <2>4, <3>2 DEF Range
    <3>4. ~(list \subseteq {<<>>})
      BY <1>2, <2>6
    <3> QED
      BY <2>2, <2>3, <3>1, <3>3, <3>4 DEF Arrayed
  <2> QED
    BY <2>5, <2>6
<1> QED
  BY <1>1, <1>2 DEF Option

(* A statement whose values all read is not refused.                        *)
LEMMA NotRefused ==
  ASSUME NEW V, NEW q \in Builders(V), Malformed \notin V
  PROVE  ~Refused(q)
<1>1. q.params \in Seq(SUBSET V)
  BY DEF Builders
<1>2. \A i \in DOMAIN q.params : q.params[i] \in SUBSET V
  BY <1>1
<1> QED
  BY <1>2 DEF Refused

(* Asking only whether there is a row changes the verb.                     *)
LEMMA ExistenceNarrowsNothing ==
  ASSUME NEW V, NEW q, NEW row, NEW wanted \in BOOLEAN, Means(q, V, row, wanted, 2)
  PROVE  Means(SelectExists(q), V, row, wanted, 2)
<1> DEFINE r == SelectExists(q)
<1>0. q \in Builders(V) /\ Parses(q, 2) /\ (Matches(q, row) <=> wanted)
  BY DEF Means
<1>1. r \in Builders(V)
  BY <1>0 DEF SelectExists, Builders, Verbs
<1>2. r.clauses = q.clauses
  BY Zenon, <1>0 DEF SelectExists, Builders
<1>3. r.params = q.params
  BY Zenon, <1>0 DEF SelectExists, Builders
<1>4. r.index = q.index /\ r.hasWhere = q.hasWhere
  BY Zenon, <1>0 DEF SelectExists, Builders
<1> HIDE DEF r
<1>5. Parses(r, 2)
  BY Zenon, <1>0, <1>2, <1>3, <1>4 DEF Parses, At, Part, Places
<1>6. Matches(r, row) <=> Matches(q, row)
  BY Zenon, <1>2, <1>3 DEF Matches, Conditions
<1> QED
  BY Zenon, <1>0, <1>1, <1>5, <1>6 DEF Means, r

(* What a list asks of a row: what its filter says, but of a list of ids or *)
(* names what PostgreSQL reads of the array.                                *)
Asks(f, r) ==
  /\ f.id = {} \/ r.id \in f.id
  /\ In(f.id__in, r.id)
  /\ In(f.username__in, r.username)
  /\ f.username = {} \/ r.username \in f.username
  /\ f.email = {} \/ r.email \in f.email

Sends(f) == UNION {f.id, Arrayed(f.id__in), Arrayed(f.username__in), f.username, f.email,
                   f.limit, f.offset}

(* UsersRepository::getList, for any filter and any row: the statement      *)
(* parses and asks for all that its filter says, whichever parts of it are  *)
(* there, each of its parameters at its own placeholder, in order of id,    *)
(* with the filter's limit and offset; and what it asks is what the filter  *)
(* says, as far as the texts of its lists are plain in an array's literal   *)
(* (SQLBuilder::arrayToPg quotes none). It is refused only for a value that *)
(* does not read.                                                           *)
THEOREM ListsMeanTheirFilter ==
  ASSUME NEW f, NEW row
  PROVE  /\ WellFormed(GetList(f))
         /\ Matches(GetList(f), row) <=> Asks(f, row)
         /\ {f.id__in, f.username__in} \subseteq Option(BoundedSeq(Plain, MaxListed)) =>
              (Matches(GetList(f), row) <=> Wanted(f, row))
         /\ Bound(GetList(f), "LIMIT", "none") = f.limit
         /\ Bound(GetList(f), "OFFSET", "none") = f.offset
         /\ Ordered(GetList(f))
         /\ Malformed \notin Sends(f) => ~Refused(GetList(f))
<1> DEFINE ids == Arrayed(f.id__in)
           names == Arrayed(f.username__in)
           V == Sends(f)
           Is(column, value) == value = {} \/ row[column] \in value
<1>1. /\ f.id \in SUBSET V /\ ids \in SUBSET V /\ names \in SUBSET V
      /\ f.username \in SUBSET V /\ f.email \in SUBSET V
      /\ f.limit \in SUBSET V /\ f.offset \in SUBSET V
      /\ {"id", "username", "email"} \subseteq ClauseColumns
  BY Zenon DEF Columns, ClauseColumns, Sends
<1> HIDE DEF V
<1> DEFINE w1 == Is("id", f.id)
           w2 == w1 /\ In(f.id__in, row["id"])
           w3 == w2 /\ In(f.username__in, row["username"])
           w4 == w3 /\ Is("username", f.username)
           w5 == w4 /\ Is("email", f.email)
           q1 == Where(Select(Builder), "id", f.id)
           q2 == WhereAny(q1, "id", f.id__in)
           q3 == WhereAny(q2, "username", f.username__in)
           q4 == Where(q3, "username", f.username)
           q5 == Where(q4, "email", f.email)
           q6 == OrderBy(q5, "id")
           q7 == Limit(q6, f.limit)
           q8 == Offset(q7, f.offset)
<1>2. Means(q1, V, row, w1, 2)
  BY Zenon, <1>1, FirstCondition
<1> HIDE DEF q1
<1>3. Means(q2, V, row, w2, 2)
  BY Zenon, <1>1, <1>2, NextListing
<1> HIDE DEF q2
<1>4. Means(q3, V, row, w3, 2)
  BY Zenon, <1>1, <1>3, NextListing
<1> HIDE DEF q3
<1>5. Means(q4, V, row, w4, 2)
  BY Zenon, <1>1, <1>4, NextCondition
<1> HIDE DEF q4
<1>6. Means(q5, V, row, w5, 2)
  BY Zenon, <1>1, <1>5, NextCondition
<1> HIDE DEF q5
<1> HIDE DEF w1, w2, w3, w4, w5
<1>7. w5 \in BOOLEAN
  BY Zenon DEF w5
<1>8. Means(q6, V, row, w5, 3) /\ Ordered(q6)
  BY Zenon, <1>6, <1>7, OrderNarrowsNothing
<1> HIDE DEF q6
<1>9. /\ Means(q7, V, row, w5, 4) /\ Ordered(q7)
      /\ Bound(q7, "LIMIT", "none") = f.limit
  BY <1>1, <1>7, <1>8, LimitBinds
<1> HIDE DEF q7
<1>10. /\ Means(q8, V, row, w5, 5) /\ Ordered(q8)
       /\ Bound(q8, "OFFSET", "none") = f.offset
       /\ Bound(q8, "LIMIT", "none") = f.limit
  BY <1>1, <1>7, <1>9, OffsetBinds
<1>11. GetList(f) = q8
  BY Zenon DEF GetList, q1, q2, q3, q4, q5, q6, q7, q8
<1>12. w5 <=> Asks(f, row)
  BY Zenon DEF w1, w2, w3, w4, w5, Asks
<1>13. ASSUME {f.id__in, f.username__in} \subseteq Option(BoundedSeq(Plain, MaxListed))
       PROVE  Asks(f, row) <=> Wanted(f, row)
  <2>1. \A list \in {f.id__in, f.username__in} :
          \A v : In(list, v) <=> Listed(list) = {} \/ v \in Listed(list)
    BY Zenon, <1>13, PlainArrays DEF In
  <2> QED
    BY Zenon, <2>1 DEF Asks, Wanted
<1>14. Malformed \notin V => ~Refused(q8)
  BY Zenon, <1>10, NotRefused DEF Means
<1> QED
  BY Zenon, <1>10, <1>11, <1>12, <1>13, <1>14, ParsedIsWellFormed DEF Means, V

(* Whether an email or an id is taken is asked of the rows that have every  *)
(* one of the values given (UsersRepository::exists): with none given,      *)
(* of all. No page is taken of them.                                        *)
THEOREM ExistenceMeansItsValues ==
  ASSUME NEW id, NEW email, NEW row
  PROVE  /\ WellFormed(ExistsOne(id, email))
         /\ Matches(ExistsOne(id, email), row) <=>
              (id = {} \/ row.id \in id) /\ (email = {} \/ row.email \in email)
         /\ Bound(ExistsOne(id, email), "LIMIT", "none") = {}
         /\ Bound(ExistsOne(id, email), "OFFSET", "none") = {}
         /\ Malformed \notin id \cup email => ~Refused(ExistsOne(id, email))
<1> DEFINE V == UNION {id, email}
           w1 == id = {} \/ row["id"] \in id
           w2 == w1 /\ (email = {} \/ row["email"] \in email)
           q1 == Where(Select(Builder), "id", id)
           q2 == Where(q1, "email", email)
           q3 == SelectExists(q2)
<1>0. id \in SUBSET V /\ email \in SUBSET V /\ {"id", "email"} \subseteq ClauseColumns
  BY Zenon DEF Columns, ClauseColumns
<1>8. V = id \cup email
  OBVIOUS
<1> HIDE DEF V
<1>1. Means(q1, V, row, w1, 2)
  BY Zenon, <1>0, FirstCondition
<1> HIDE DEF q1
<1>2. Means(q2, V, row, w2, 2)
  BY Zenon, <1>0, <1>1, NextCondition
<1> HIDE DEF q2, w1, w2
<1>3. w2 \in BOOLEAN
  BY Zenon DEF w2
<1>4. Means(q3, V, row, w2, 2)
  BY Zenon, <1>2, <1>3, ExistenceNarrowsNothing
<1>5. ExistsOne(id, email) = q3
  BY Zenon DEF ExistsOne, q1, q2
<1> HIDE DEF q3
<1>6. Bound(q3, "LIMIT", "none") = {} /\ Bound(q3, "OFFSET", "none") = {}
  <2>1. {"LIMIT", "OFFSET"} \subseteq ClauseParts /\ 2 \in Nat
        /\ 2 < Place["LIMIT"] /\ 2 < Place["OFFSET"]
    BY PlaceValues DEF ClauseParts
  <2>2. q3 \in Builders(V) /\ Parses(q3, 2)
    BY <1>4 DEF Means
  <2> QED
    BY <2>1, <2>2, NothingBound
<1>7. Malformed \notin id \cup email => ~Refused(q3)
  BY Zenon, <1>8, <1>4, NotRefused DEF Means
<1> QED
  BY Zenon, <1>4, <1>5, <1>6, <1>7, ParsedIsWellFormed DEF Means, w1, w2

(* A deletion is of the rows of its id and of no other                      *)
(* (UsersRepository::remove); a log-in reads one row of its email           *)
(* (getOne).                                                                *)
THEOREM OneRowStatements ==
  ASSUME NEW id, NEW email, NEW row, id # {}, email # {}
  PROVE  /\ WellFormed(RemoveOne(id)) /\ WellFormed(GetOne(email))
         /\ Matches(RemoveOne(id), row) <=> row.id \in id
         /\ Matches(GetOne(email), row) <=> row.email \in email
         /\ Bound(GetOne(email), "LIMIT", "none") = {1}
         /\ Bound(GetOne(email), "OFFSET", "none") = {}
         /\ Malformed \notin email => ~Refused(GetOne(email))
<1> DEFINE V == email \cup {1}
           d == Where(Delete(Builder), "id", id)
           q == Where(Select(Builder), "email", email)
           l == Limit(q, {1})
           w == row["email"] \in email
<1>1. /\ id \in SUBSET id /\ email \in SUBSET V /\ {1} \in SUBSET V
      /\ {"id", "email"} \subseteq ClauseColumns
  BY Zenon DEF Columns, ClauseColumns
<1>10. Malformed \notin email => Malformed \notin V
  BY LiteralAssumption
<1> HIDE DEF V
<1>2. Means(d, id, row, id = {} \/ row["id"] \in id, 2)
  BY Zenon, <1>1, FirstCondition
<1>3. Means(q, V, row, email = {} \/ row["email"] \in email, 2)
  BY Zenon, <1>1, FirstCondition
<1> HIDE DEF d, q
<1>4. Means(d, id, row, row["id"] \in id, 2)
  BY Zenon, <1>2 DEF Means
<1>5. Means(q, V, row, w, 3)
  <2>1. q \in Builders(V) /\ Parses(q, 2) /\ (Matches(q, row) <=> w)
    BY Zenon, <1>3 DEF Means
  <2>2. Parses(q, 3)
    BY <2>1, ParsesBehind
  <2> QED
    BY <2>1, <2>2 DEF Means
<1>6. w \in BOOLEAN
  OBVIOUS
<1>7. RemoveOne(id) = d /\ GetOne(email) = l
  BY Zenon DEF RemoveOne, GetOne, d, q
<1> HIDE DEF w
<1>8. Means(l, V, row, w, 4) /\ Bound(l, "LIMIT", "none") = {1}
  BY <1>1, <1>5, <1>6, LimitBinds
<1> HIDE DEF l
<1>9. Bound(l, "OFFSET", "none") = {}
  <2>1. "OFFSET" \in ClauseParts /\ 4 \in Nat /\ 4 < Place["OFFSET"]
    BY PlaceValues DEF ClauseParts
  <2>2. l \in Builders(V) /\ Parses(l, 4)
    BY <1>8 DEF Means
  <2> QED
    BY <2>1, <2>2, NothingBound
<1>11. Malformed \notin email => ~Refused(l)
  BY Zenon, <1>8, <1>10, NotRefused DEF Means
<1> QED
  BY Zenon, <1>4, <1>7, <1>8, <1>9, <1>11, ParsedIsWellFormed DEF Means, w
-----------------------------------------------------------------------------
(* What they find in the table.                                             *)

(* The places of a table's rows.                                            *)
LEMMA PlacesOfRows ==
  /\ DOMAIN Rows \subseteq Nat /\ IsFiniteSet(DOMAIN Rows)
  /\ \A S \in SUBSET DOMAIN Rows : S \subseteq Nat /\ IsFiniteSet(S)
<1>1. DOMAIN Rows = 1..Len(Rows) /\ Len(Rows) \in Nat
  BY TableAssumption
<1>2. IsFiniteSet(1..Len(Rows))
  <2>1. 1 \in Int /\ Len(Rows) \in Int
    BY <1>1
  <2> QED
    BY <2>1, FS_Interval
<1>3. IsFiniteSet(DOMAIN Rows)
  BY <1>1, <1>2
<1>4. \A S \in SUBSET DOMAIN Rows : S \subseteq Nat
  BY <1>1
<1> QED
  BY <1>1, <1>3, <1>4, FS_Subset

(* Without a limit or an offset a page is everything found.                 *)
LEMMA PageOfAll ==
  ASSUME NEW found
  PROVE  Page(found, {}, {}) = found
  BY DEF Page

(* A page of one has a row if any was found: the first.                     *)
LEMMA PageOfOne ==
  ASSUME NEW found \in SUBSET DOMAIN Rows
  PROVE  /\ Page(found, {1}, {}) \subseteq found
         /\ found # {} => Page(found, {1}, {}) # {}
<1>1. Page(found, {1}, {}) = {i \in found : Cardinality({j \in found : j < i}) < 1 + 0}
  BY DEF Page
<1>2. ASSUME found # {}
      PROVE  \E i \in found : Cardinality({j \in found : j < i}) < 1 + 0
  <2>0. found \subseteq Nat
    BY PlacesOfRows
  <2>1. PICK i \in found : \A j \in found : i <= j
    BY <1>2, <2>0, LeastNumber
  <2>2. {j \in found : j < i} = {}
    BY <2>0, <2>1
  <2>3. Cardinality({}) = 0
    BY FS_EmptySet
  <2> QED
    BY <2>2, <2>3
<1> QED
  BY <1>1, <1>2

(* The ids, names and emails of a filter are values, its numbers numbers.   *)
LEMMA FilterValues ==
  /\ Column("id") \subseteq Plain
  /\ \A c \in Columns : Malformed \notin Column(c)
<1>1. \A i \in DOMAIN Rows : \A c \in Columns : Rows[i][c] \in Values
  BY TableAssumption
<1> QED
  BY <1>1, TableAssumption DEF Column

(* A list of texts of one set is one of any set that has them.              *)
LEMMA ListsWithin ==
  ASSUME NEW S, NEW T, NEW list \in Option(BoundedSeq(S, MaxListed)), Listed(list) \subseteq T
  PROVE  list \in Option(BoundedSeq(T, MaxListed))
<1>1. ASSUME NEW s \in BoundedSeq(S, MaxListed), list = {s}
      PROVE  s \in BoundedSeq(T, MaxListed)
  <2>1. PICK n \in 0..MaxListed : s \in [1..n -> S]
    BY <1>1 DEF BoundedSeq, SeqOf
  <2>2. Range(s) \subseteq T
    BY <1>1 DEF Listed
  <2>3. s \in [1..n -> T]
    BY <2>1, <2>2 DEF Range
  <2> QED
    BY <2>3 DEF BoundedSeq, SeqOf
<1> QED
  BY <1>1 DEF Option

LEMMA ListedWithin ==
  ASSUME NEW S, NEW list \in Option(BoundedSeq(S, MaxListed))
  PROVE  Listed(list) \subseteq S
<1>1. ASSUME NEW s \in BoundedSeq(S, MaxListed)
      PROVE  Range(s) \subseteq S
  BY <1>1 DEF BoundedSeq, SeqOf, Range
<1> QED
  BY <1>1 DEF Option, Listed

(* A list with plain names reads its filter's page of the rows the filter   *)
(* describes; with other names, none that the rest of the filter rules out. *)
LEMMA ListsReadTheirPage ==
  ASSUME NEW f \in Filters
  PROVE  LET all == {i \in DOMAIN Rows : Wanted(f, Rows[i])}
             others == {i \in DOMAIN Rows : Wanted([f EXCEPT !.username__in = {}], Rows[i])}
         IN  /\ Listed(f.username__in) \subseteq Plain =>
                  Selected(GetList(f), Rows) = {Page(all, f.limit, f.offset)}
             /\ \A S \in Selected(GetList(f), Rows) : S \subseteq others
<1> DEFINE q == GetList(f)
           all == {i \in DOMAIN Rows : Wanted(f, Rows[i])}
           others == {i \in DOMAIN Rows : Wanted([f EXCEPT !.username__in = {}], Rows[i])}
           found == {i \in DOMAIN Rows : Matches(q, Rows[i])}
           page == Page(found, f.limit, f.offset)
<1>1. /\ \A row : Matches(q, row) <=> Asks(f, row)
      /\ Bound(q, "LIMIT", "none") = f.limit /\ Bound(q, "OFFSET", "none") = f.offset
      /\ Ordered(q)
      /\ Malformed \notin Sends(f) => ~Refused(q)
  BY Zenon, ListsMeanTheirFilter
<1>2. f.id__in \in Option(BoundedSeq(Plain, MaxListed))
  <2>1. f.id__in \in Option(BoundedSeq(Column("id"), MaxListed))
    BY DEF Filters
  <2>2. Listed(f.id__in) \subseteq Plain
    BY <2>1, ListedWithin, FilterValues
  <2> QED
    BY <2>1, <2>2, ListsWithin
<1>3. Selected(q, Rows) \subseteq {page}
  BY Zenon, <1>1 DEF Selected, Ordered
<1>4. found \subseteq others
  <2> DEFINE rest == [f EXCEPT !.username__in = {}]
  <2>1. /\ rest.id = f.id /\ rest.id__in = f.id__in /\ rest.username = f.username
        /\ rest.email = f.email /\ rest.username__in = {}
    BY DEF Filters
  <2> HIDE DEF rest
  <2>2. Listed(rest.username__in) = {}
    BY <2>1 DEF Listed
  <2>3. ASSUME NEW row, Asks(f, row)
        PROVE  Wanted(rest, row)
    <3>1. Listed(f.id__in) = {} \/ row.id \in Listed(f.id__in)
      BY Zenon, <1>2, <2>3, PlainArrays DEF Asks, In
    <3> QED
      BY Zenon, <2>1, <2>2, <2>3, <3>1 DEF Asks, Wanted
  <2> QED
    BY Zenon, <1>1, <2>3 DEF rest
<1>5. page \subseteq found
  BY DEF Page
<1>6. ASSUME Listed(f.username__in) \subseteq Plain
      PROVE  Selected(q, Rows) = {Page(all, f.limit, f.offset)}
  <2>1. f.username__in \in Option(BoundedSeq(Plain, MaxListed))
    <3>1. f.username__in \in Option(BoundedSeq(Names, MaxListed))
      BY DEF Filters
    <3> QED
      BY <1>6, <3>1, ListsWithin
  <2>2. Malformed \notin Sends(f)
    <3>1. /\ Arrayed(f.id__in) \subseteq Plain /\ Arrayed(f.username__in) \subseteq Plain
      BY Zenon, <1>2, <2>1, PlainArrays
    <3>2. /\ f.id \subseteq Column("id") /\ f.username \subseteq Column("username")
          /\ f.email \subseteq Column("email") /\ {"id", "username", "email"} \subseteq Columns
      BY DEF Filters, Option, Columns
    <3>3. f.limit \subseteq Nat /\ f.offset \subseteq Nat
      <4>1. Len(Rows) \in Nat
        BY TableAssumption
      <4>2. \A n \in 1..Len(Rows) : n \in Nat /\ n - 1 \in Nat
        BY <4>1
      <4>3. \E n \in 1..Len(Rows) : f.limit = {n}
        BY DEF Filters
      <4>4. f.offset \in Option({n - 1 : n \in 1..Len(Rows)})
        BY DEF Filters
      <4> QED
        BY <4>2, <4>3, <4>4 DEF Option
    <3>4. Malformed \notin Plain /\ Malformed \notin Nat
      BY LiteralAssumption
    <3>5. \A c \in Columns : Malformed \notin Column(c)
      BY Zenon, FilterValues
    <3> QED
      BY Zenon, <3>1, <3>2, <3>3, <3>4, <3>5 DEF Sends
  <2>3. Selected(q, Rows) = {page}
    BY Zenon, <1>1, <2>2 DEF Selected, Ordered
  <2>4. {f.id__in, f.username__in} \subseteq Option(BoundedSeq(Plain, MaxListed))
    BY <1>2, <2>1
  <2>5. \A row : Matches(q, row) <=> Wanted(f, row)
    BY Zenon, <2>4, ListsMeanTheirFilter
  <2>6. found = all
    BY Zenon, <2>5
  <2> QED
    BY Zenon, <2>3, <2>6
<1>7. \A S \in Selected(q, Rows) : S \subseteq others
  BY Zenon, <1>3, <1>4, <1>5
<1> QED
  BY Zenon, <1>6, <1>7

(* An existence check answers with all its rows.                            *)
LEMMA ExistenceReadsAll ==
  ASSUME NEW id, NEW email, Malformed \notin id \cup email
  PROVE  UNION Selected(ExistsOne(id, email), Rows) =
           {i \in DOMAIN Rows : /\ id = {} \/ Rows[i].id \in id
                                /\ email = {} \/ Rows[i].email \in email}
<1> DEFINE q == ExistsOne(id, email)
           all == {i \in DOMAIN Rows : /\ id = {} \/ Rows[i].id \in id
                                       /\ email = {} \/ Rows[i].email \in email}
           found == {i \in DOMAIN Rows : Matches(q, Rows[i])}
           page == Page(found, Bound(q, "LIMIT", "none"), Bound(q, "OFFSET", "none"))
<1>1. found = all
  BY ExistenceMeansItsValues
<1>2. Bound(q, "LIMIT", "none") = {} /\ Bound(q, "OFFSET", "none") = {} /\ ~Refused(q)
  BY ExistenceMeansItsValues
<1>3. page = found
  BY Zenon, <1>2, PageOfAll
<1> HIDE DEF q
<1>4. \/ Selected(q, Rows) = {page}
      \/ Selected(q, Rows) = {S \in SUBSET found : Cardinality(S) = Cardinality(page)}
  BY Zenon, <1>2 DEF Selected
<1> HIDE DEF found, page
<1>5. found \in Selected(q, Rows) /\ \A S \in Selected(q, Rows) : S \subseteq found
  BY <1>3, <1>4
<1>6. UNION Selected(q, Rows) = found
  BY <1>5
<1> QED
  BY Zenon, <1>1, <1>6 DEF q

(* A log-in reads a row of its email if there is one.                       *)
LEMMA LoginsReadOne ==
  ASSUME NEW email, email # {}, Malformed \notin email, NEW S \in Selected(GetOne(email), Rows)
  PROVE  LET of == {i \in DOMAIN Rows : Rows[i].email \in email}
         IN  S \subseteq of /\ (S = {} <=> of = {})
<1> DEFINE q == GetOne(email)
           all == {i \in DOMAIN Rows : Rows[i].email \in email}
           found == {i \in DOMAIN Rows : Matches(q, Rows[i])}
           page == Page(found, Bound(q, "LIMIT", "none"), Bound(q, "OFFSET", "none"))
<1>0. S \in Selected(q, Rows)
  OBVIOUS
<1>1. /\ \A row : Matches(q, row) <=> row.email \in email
      /\ Bound(q, "LIMIT", "none") = {1} /\ Bound(q, "OFFSET", "none") = {}
      /\ ~Refused(q)
  <2>1. {0} # {}
    OBVIOUS
  <2> QED
    BY Zenon, <2>1, OneRowStatements
<1>2. found = all
  BY Zenon, <1>1
<1>3. page = Page(found, {1}, {})
  BY Zenon, <1>1
<1> HIDE DEF q, all
<1>4. S = page \/ (S \subseteq found /\ Cardinality(S) = Cardinality(page))
  BY Zenon, <1>0, <1>1 DEF Selected
<1>5. found \in SUBSET DOMAIN Rows
  BY Zenon
<1> HIDE DEF found, page
<1>6. page \subseteq found /\ (found # {} => page # {})
  BY <1>3, <1>5, PageOfOne
<1>7. S \subseteq found
  BY <1>4, <1>6
<1>8. IsFiniteSet(S) /\ IsFiniteSet(page)
  BY <1>5, <1>6, <1>7, PlacesOfRows
<1>9. (Cardinality(S) = 0 <=> S = {}) /\ (Cardinality(page) = 0 <=> page = {})
  BY Zenon, <1>8, FS_EmptySet
<1>10. S = {} <=> found = {}
  BY <1>4, <1>6, <1>7, <1>9
<1> QED
  BY Zenon, <1>2, <1>7, <1>10 DEF all

(* So it is for every list, lookup, deletion and log-in.                    *)
AskedFor ==
  /\ kind = "list" => input \in Filters
  /\ kind = "fetch" => /\ input.id \in Option(Column("id"))
                       /\ input.email \in Option(Column("email"))

LEMMA ReadsDoMeanFilters ==
  ASSUME AskedFor
  PROVE  ReadsMeanFilters
<1> DEFINE of(column) ==
             {i \in DOMAIN Rows : input[column] = {} \/ Rows[i][column] \in input[column]}
<1>1. ASSUME kind = "list"
      PROVE  LET all == {i \in DOMAIN Rows : Wanted(input, Rows[i])}
                 others == {i \in DOMAIN Rows : Wanted([input EXCEPT !.username__in = {}], Rows[i])}
             IN  /\ WellFormed(GetList(input))
                 /\ Listed(input.username__in) \subseteq Plain =>
                      Selected(GetList(input), Rows) = {Page(all, input.limit, input.offset)}
                 /\ \A S \in Selected(GetList(input), Rows) : S \subseteq others
  <2>1. WellFormed(GetList(input))
    BY Zenon, ListsMeanTheirFilter
  <2>2. input \in Filters
    BY <1>1 DEF AskedFor
  <2> QED
    BY Zenon, <2>1, <2>2, ListsReadTheirPage
<1>2. ASSUME kind = "fetch"
      PROVE  Malformed \notin input.id \cup input.email
  <2>1. Malformed \notin Column("id") /\ Malformed \notin Column("email")
    BY FilterValues DEF Columns
  <2> QED
    BY <1>2, <2>1 DEF AskedFor, Option
<1>3. WellFormed(ExistsOne(input.id, input.email))
  BY ExistenceMeansItsValues
<1>4. ASSUME kind = "fetch"
      PROVE  UNION Selected(ExistsOne(input.id, input.email), Rows) = of("id") \cap of("email")
  <2>1. of("id") \cap of("email") =
          {i \in DOMAIN Rows : /\ input.id = {} \/ Rows[i].id \in input.id
                               /\ input.email = {} \/ Rows[i].email \in input.email}
    OBVIOUS
  <2> QED
    BY Zenon, <1>2, <1>4, <2>1, ExistenceReadsAll
<1>5. ASSUME kind = "fetch", input.email # {}
      PROVE  /\ WellFormed(GetOne(input.email))
             /\ \A S \in Selected(GetOne(input.email), Rows) :
                  S \subseteq of("email") /\ (S = {} <=> of("email") = {})
  <2>0. Malformed \notin input.email
    BY <1>2, <1>5
  <2>1. of("email") = {i \in DOMAIN Rows : Rows[i].email \in input.email}
    BY <1>5
  <2>2. {0} # {}
    OBVIOUS
  <2>3. WellFormed(GetOne(input.email))
    BY Zenon, <1>5, <2>2, OneRowStatements
  <2> HIDE DEF of
  <2>4. ASSUME NEW S \in Selected(GetOne(input.email), Rows)
        PROVE  S \subseteq of("email") /\ (S = {} <=> of("email") = {})
    BY Zenon, <1>5, <2>0, <2>1, LoginsReadOne
  <2> QED
    BY Zenon, <2>3, <2>4
<1>6. ASSUME input.id # {}
      PROVE  /\ WellFormed(RemoveOne(input.id))
             /\ Remaining(RemoveOne(input.id), Rows) = DOMAIN Rows \ of("id")
  <2>1. {0} # {}
    OBVIOUS
  <2>2. /\ WellFormed(RemoveOne(input.id))
        /\ \A row : Matches(RemoveOne(input.id), row) <=> row.id \in input.id
    BY Zenon, <1>6, <2>1, OneRowStatements
  <2>3. Remaining(RemoveOne(input.id), Rows) = {i \in DOMAIN Rows : ~(Rows[i].id \in input.id)}
    BY <2>2 DEF Remaining
  <2> QED
    BY <1>6, <2>2, <2>3
<1> QED
  BY Zenon, <1>1, <1>2, <1>3, <1>4, <1>5, <1>6 DEF ReadsMeanFilters
-----------------------------------------------------------------------------
(* What an INSERT or an UPDATE sets.                                        *)

(* Of n fields the i-th is set to the i-th parameter.                       *)
Says(fields, params, column, v) ==
  \E i \in 1..Len(fields) : fields[i] = column /\ v \in params[i]

(* The clauses of a statement of some fields, one each.                     *)
Settings(fields) == [i \in DOMAIN fields |-> Clause("SET", fields[i], i)]

LEMMA SettingsByIndex ==
  ASSUME NEW fields \in Seq(Columns)
  PROVE  /\ Settings(fields) \in Seq(Clauses) /\ Len(Settings(fields)) = Len(fields)
         /\ \A i \in 1..Len(fields) : /\ Settings(fields)[i].part = "SET"
                                      /\ Settings(fields)[i].column = fields[i]
                                      /\ Settings(fields)[i].at = i
<1> DEFINE cl == Settings(fields)
<1>1. PICK n \in Nat : n = Len(fields) /\ DOMAIN fields = 1..n
  OBVIOUS
<1>2. \A i \in 1..n : fields[i] \in Columns
  BY <1>1
<1>3. \A i \in 1..n : Clause("SET", fields[i], i) \in Clauses
  BY <1>2 DEF Clause, Clauses, ClauseParts, ClauseColumns
<1>4. cl = [i \in 1..n |-> Clause("SET", fields[i], i)]
  BY Zenon, <1>1 DEF Settings
<1> HIDE DEF cl
<1>5. cl \in Seq(Clauses) /\ Len(cl) = n
  BY <1>3, <1>4
<1>6. \A i \in 1..n : cl[i].part = "SET" /\ cl[i].column = fields[i] /\ cl[i].at = i
  BY <1>4 DEF Clause
<1> QED
  BY <1>1, <1>5, <1>6 DEF cl

(* A builder of fields has their clauses; the parameters are still to come. *)
LEMMA FieldsNumbered ==
  ASSUME NEW V, NEW verb \in {"INSERT", "UPDATE"}, NEW fields \in Seq(Columns)
  PROVE  LET f == Fields(Builder, verb, fields) IN
         /\ f \in Builders(V) /\ f.clauses = Settings(fields) /\ f.index = Len(fields)
         /\ f.hasWhere = FALSE
<1> DEFINE f == Fields(Builder, verb, fields)
           cl == Settings(fields)
           n == Len(fields)
<1>1. cl \in Seq(Clauses) /\ n \in Nat /\ verb \in Verbs
  BY SettingsByIndex DEF Verbs
<1>2. /\ Builder \in Builders(V)
      /\ Builder.clauses = <<>> /\ Builder.index = 0 /\ Builder.hasWhere = FALSE
  <2>1. <<>> \in Seq(Clauses) /\ <<>> \in Seq(SUBSET V) /\ 0 \in Nat
    OBVIOUS
  <2> QED
    BY <2>1 DEF Builder, Builders, Verbs
<1>3. Builder.index + n = n
  BY <1>1, <1>2
<1>4. Builder.clauses \o [i \in DOMAIN fields |-> Clause("SET", fields[i], Builder.index + i)] = cl
  <2>1. \A i \in DOMAIN fields : Builder.index + i = i
    BY <1>2
  <2>2. [i \in DOMAIN fields |-> Clause("SET", fields[i], Builder.index + i)] = cl
    BY Zenon, <2>1 DEF Settings
  <2>3. <<>> \o cl = cl
    BY <1>1
  <2> QED
    BY Zenon, <1>2, <2>2, <2>3
<1>5. f = [Builder EXCEPT !.verb = verb, !.index = n, !.clauses = cl]
  BY Zenon, <1>2, <1>3, <1>4 DEF Fields, Builders
<1> HIDE DEF cl, n, f
<1>6. f \in Builders(V)
  BY Zenon, <1>1, <1>2, <1>5 DEF Builders
<1>7. f.clauses = cl
  BY Zenon, <1>2, <1>5 DEF Builders
<1>8. f.index = n
  BY Zenon, <1>2, <1>5 DEF Builders
<1>9. f.hasWhere = FALSE
  BY Zenon, <1>2, <1>5 DEF Builders
<1> QED
  BY Zenon, <1>6, <1>7, <1>8, <1>9 DEF f, cl, n

(* With a parameter for each it parses, is of every row and sets each field *)
(* to its own parameter.                                                    *)
LEMMA FieldsAreSet ==
  ASSUME NEW V, NEW fields \in Seq(Columns),
         NEW params \in Seq(SUBSET V), Len(params) = Len(fields), NEW row,
         NEW r \in Builders(V), r.clauses = Settings(fields), r.params = params,
         r.index = Len(fields), r.hasWhere = FALSE
  PROVE  /\ Means(r, V, row, TRUE, 1)
         /\ \A column, v : v \in Bound(r, "SET", column) <=> Says(fields, params, column, v)
<1> DEFINE cl == Settings(fields)
<1>1. PICK n \in Nat : n = Len(fields)
  OBVIOUS
<1>2. cl \in Seq(Clauses) /\ Len(cl) = n
  BY <1>1, SettingsByIndex
<1>3. \A i \in 1..n : cl[i].part = "SET" /\ cl[i].column = fields[i] /\ cl[i].at = i
  BY <1>1, SettingsByIndex
<1>4. r.clauses = cl /\ r.params = params /\ r.index = n /\ r.hasWhere = FALSE
  BY <1>1
<1> HIDE DEF cl
<1>5. Parses(r, 1)
  <2>1. /\ At(r) = [i \in 1..n |-> cl[i].at]
        /\ Part(r) = [i \in 1..n |-> cl[i].part]
        /\ Places(r) = [i \in 1..n |-> Place[cl[i].part]]
    BY <1>2, <1>4 DEF At, Part, Places
  <2>2. \A i \in 1..n : At(r)[i] = i /\ Part(r)[i] = "SET" /\ Places(r)[i] = 1
    <3>1. ASSUME NEW i \in 1..n
          PROVE  At(r)[i] = i /\ Part(r)[i] = "SET" /\ Places(r)[i] = Place[cl[i].part]
      BY <1>3, <2>1
    <3>2. \A i \in 1..n : Place[cl[i].part] = 1
      BY Zenon, <1>3, PlaceValues
    <3> QED
      BY <3>1, <3>2
  <2>3. InOrder(n, n, At(r), Part(r), FALSE)
    BY <2>2 DEF InOrder
  <2>4. Placed(n, Places(r), 1)
    BY <2>2 DEF Placed
  <2> QED
    BY <1>1, <1>2, <1>4, <2>3, <2>4 DEF Parses
<1>6. Matches(r, row)
  BY <1>2, <1>3, <1>4, MatchesByIndex DEF Conditional
<1>7. ASSUME NEW column, NEW v
       PROVE  v \in Bound(r, "SET", column) <=> Says(fields, params, column, v)
  <2>1. v \in Bound(r, "SET", column) <=> \E i \in 1..n : Binds(r, i, "SET", column, v)
    BY <1>2, <1>4, BoundByIndex
  <2>2. \A i \in 1..n : Binds(r, i, "SET", column, v) <=> fields[i] = column /\ v \in params[i]
    BY <1>3, <1>4 DEF Binds
  <2> QED
    BY <1>1, <2>1, <2>2 DEF Says
<1> QED
  BY <1>5, <1>6, <1>7 DEF Means

(* A new row has what the entity says, in three fields, each with its own   *)
(* parameter (UsersRepository::create).                                     *)
LEMMA CreateSets ==
  ASSUME NEW user
  PROVE  /\ WellFormed(Create(user))
         /\ \A column : Bound(Create(user), "SET", column) =
              IF column \in {"username", "email", "password"} THEN user[column] ELSE {}
<1> DEFINE fields == <<"username", "email", "password">>
           params == <<user["username"], user["email"], user["password"]>>
           V == UNION {user["username"], user["email"], user["password"]}
           r == Create(user)
<1>1. fields \in Seq(Columns) /\ Len(fields) = 3
  BY DEF Columns
<1>2. fields[1] = "username" /\ fields[2] = "email" /\ fields[3] = "password"
  OBVIOUS
<1>3. /\ params[1] = user["username"] /\ params[2] = user["email"]
      /\ params[3] = user["password"]
  OBVIOUS
<1>4. params \in Seq(SUBSET V) /\ Len(params) = 3
  <2>1. /\ user["username"] \in SUBSET V /\ user["email"] \in SUBSET V
        /\ user["password"] \in SUBSET V
    OBVIOUS
  <2> HIDE DEF V
  <2> QED
    BY <2>1
<1> DEFINE f == Fields(Builder, "INSERT", fields)
<1>5. r = [f EXCEPT !.params = params]
  BY Zenon DEF Create
<1>6. /\ f \in Builders(V) /\ f.clauses = Settings(fields) /\ f.index = Len(fields)
      /\ f.hasWhere = FALSE
  BY <1>1, FieldsNumbered
<1> HIDE DEF fields, params, V, r, f
<1>7. r \in Builders(V)
  BY Zenon, <1>4, <1>5, <1>6 DEF Builders
<1>8. r.clauses = f.clauses
  BY Zenon, <1>5, <1>6 DEF Builders
<1>9. r.params = params
  BY Zenon, <1>5, <1>6 DEF Builders
<1>10. r.index = f.index
  BY Zenon, <1>5, <1>6 DEF Builders
<1>11. r.hasWhere = f.hasWhere
  BY Zenon, <1>5, <1>6 DEF Builders
<1>12. /\ Means(r, V, 0, TRUE, 1)
       /\ \A column, v : v \in Bound(r, "SET", column) <=> Says(fields, params, column, v)
  BY <1>1, <1>4, <1>6, <1>7, <1>8, <1>9, <1>10, <1>11, FieldsAreSet
<1>13. WellFormed(r)
  BY Zenon, <1>12, ParsedIsWellFormed DEF Means
<1>14. ASSUME NEW column
      PROVE  Bound(r, "SET", column) =
               IF column \in {"username", "email", "password"} THEN user[column] ELSE {}
  <2>1. ASSUME NEW v
        PROVE  Says(fields, params, column, v) <=>
                 \/ column = "username" /\ v \in user["username"]
                 \/ column = "email" /\ v \in user["email"]
                 \/ column = "password" /\ v \in user["password"]
    <3>1. 1..Len(fields) = {1, 2, 3}
      BY <1>1
    <3> QED
      BY <1>2, <1>3, <3>1 DEF Says
  <2>2. \A v : v \in Bound(r, "SET", column) <=>
                 v \in IF column \in {"username", "email", "password"} THEN user[column] ELSE {}
    BY <1>12, <2>1
  <2> QED
    BY <2>2
<1> QED
  BY <1>13, <1>14 DEF r

(* The fields to set, each with its value.                                  *)
Sent(V) == [fields : Seq(Columns), params : Seq(SUBSET V)]
Tells(sent, column, v) == Says(sent.fields, sent.params, column, v)

(* One more field, unless it has no value or an empty one.                  *)
LEMMA EmplacedTells ==
  ASSUME NEW V, NEW sent \in Sent(V), Len(sent.params) = Len(sent.fields),
         NEW field \in Columns, NEW value \in SUBSET V
  PROVE  LET r == Emplaced(sent, field, value) IN
         /\ r \in Sent(V) /\ Len(r.params) = Len(r.fields)
         /\ \A column, v : Tells(r, column, v) <=>
              \/ Tells(sent, column, v)
              \/ column = field /\ v \in value /\ ~(value \subseteq {"empty"})
<1> DEFINE r == Emplaced(sent, field, value)
<1>1. CASE value \subseteq {"empty"}
  <2>1. r = sent
    BY <1>1 DEF Emplaced
  <2> QED
    BY <1>1, <2>1
<1>2. CASE ~(value \subseteq {"empty"})
  <2> DEFINE fs == Append(sent.fields, field)
             ps == Append(sent.params, value)
  <2>1. r = [fields |-> fs, params |-> ps]
    BY <1>2 DEF Emplaced
  <2>2. sent.fields \in Seq(Columns) /\ sent.params \in Seq(SUBSET V)
    BY DEF Sent
  <2>3. PICK n \in Nat : n = Len(sent.fields) /\ n = Len(sent.params)
    BY <2>2
  <2>4. /\ fs \in Seq(Columns) /\ ps \in Seq(SUBSET V) /\ Len(fs) = n + 1 /\ Len(ps) = n + 1
        /\ fs[n + 1] = field /\ ps[n + 1] = value
    BY <2>2, <2>3
  <2>5. \A i \in 1..n : fs[i] = sent.fields[i] /\ ps[i] = sent.params[i]
    BY <2>2, <2>3, AppendKeeps
  <2> HIDE DEF fs, ps
  <2>6. r.fields = fs /\ r.params = ps /\ r \in Sent(V)
    BY <2>1, <2>4 DEF Sent
  <2>7. /\ \A i \in 1..n : i \in 1..(n + 1)
        /\ \A i \in 1..(n + 1) : i \in 1..n \/ i = n + 1
        /\ n + 1 \in 1..(n + 1)
    OBVIOUS
  <2>8. ASSUME NEW column, NEW v
        PROVE  Tells(r, column, v) <=> Tells(sent, column, v) \/ (column = field /\ v \in value)
    <3>1. Tells(r, column, v) <=> \E i \in 1..(n + 1) : fs[i] = column /\ v \in ps[i]
      BY <2>4, <2>6 DEF Tells, Says
    <3>2. Tells(sent, column, v) <=>
            \E i \in 1..n : sent.fields[i] = column /\ v \in sent.params[i]
      BY <2>3 DEF Tells, Says
    <3> QED
      BY <2>4, <2>5, <2>7, <3>1, <3>2
  <2> HIDE DEF r
  <2> QED
    BY <1>2, <2>4, <2>6, <2>8 DEF r
<1> QED
  BY <1>1, <1>2

(* An update's fields are those of its values that are there and not empty. *)
LEMMA ChangesTell ==
  ASSUME NEW V, NEW user, user.email \in SUBSET V, user.username \in SUBSET V,
         user.password \in SUBSET V, user.picture \in SUBSET V
  PROVE  /\ Changes(user) \in Sent(V)
         /\ Len(Changes(user).params) = Len(Changes(user).fields)
         /\ \A column, v : Tells(Changes(user), column, v) <=>
              /\ column \in {"email", "username", "password", "picture"}
              /\ v \in user[column] /\ ~(user[column] \subseteq {"empty"})
<1> DEFINE s0 == [fields |-> <<>>, params |-> <<>>]
           s1 == Emplaced(s0, "email", user.email)
           s2 == Emplaced(s1, "username", user.username)
           s3 == Emplaced(s2, "password", user.password)
           s4 == Emplaced(s3, "picture", user.picture)
           Given(c, column, v) == column = c /\ v \in user[c] /\ ~(user[c] \subseteq {"empty"})
<1>0. {"email", "username", "password", "picture"} \subseteq Columns
  BY DEF Columns
<1>1. s0 \in Sent(V) /\ Len(s0.params) = Len(s0.fields) /\ \A column, v : ~Tells(s0, column, v)
  BY DEF Sent, Tells, Says
<1>2. Changes(user) = s4
  BY DEF Changes
<1> HIDE DEF s0
<1>3. /\ s1 \in Sent(V) /\ Len(s1.params) = Len(s1.fields)
      /\ \A column, v : Tells(s1, column, v) <=> Given("email", column, v)
  BY <1>0, <1>1, EmplacedTells
<1> HIDE DEF s1
<1>4. /\ s2 \in Sent(V) /\ Len(s2.params) = Len(s2.fields)
      /\ \A column, v : Tells(s2, column, v) <=>
           Tells(s1, column, v) \/ Given("username", column, v)
  BY <1>0, <1>3, EmplacedTells
<1> HIDE DEF s2
<1>5. /\ s3 \in Sent(V) /\ Len(s3.params) = Len(s3.fields)
      /\ \A column, v : Tells(s3, column, v) <=>
           Tells(s2, column, v) \/ Given("password", column, v)
  BY <1>0, <1>4, EmplacedTells
<1> HIDE DEF s3
<1>6. /\ s4 \in Sent(V) /\ Len(s4.params) = Len(s4.fields)
      /\ \A column, v : Tells(s4, column, v) <=>
           Tells(s3, column, v) \/ Given("picture", column, v)
  BY <1>0, <1>5, EmplacedTells
<1> HIDE DEF s4
<1>7. ASSUME NEW column, NEW v
      PROVE  Tells(s4, column, v) <=>
               /\ column \in {"email", "username", "password", "picture"}
               /\ v \in user[column] /\ ~(user[column] \subseteq {"empty"})
  <2>1. Tells(s4, column, v) <=>
          \E c \in {"email", "username", "password", "picture"} : Given(c, column, v)
    BY <1>3, <1>4, <1>5, <1>6
  <2> QED
    BY Zenon, <2>1
<1> QED
  BY <1>2, <1>6, <1>7

(* An update is of the rows of its id and sets what its values say          *)
(* (UsersRepository::update): the id's parameter is the last one.           *)
LEMMA UpdateSets ==
  ASSUME NEW user, user.id # {}, NEW row
  PROVE  /\ WellFormed(Update(user))
         /\ Matches(Update(user), row) <=> row["id"] \in user.id
         /\ \A column : Bound(Update(user), "SET", column) =
              IF /\ column \in {"email", "username", "password", "picture"}
                 /\ ~(user[column] \subseteq {"empty"})
              THEN user[column] ELSE {}
<1> DEFINE V == UNION {user.id, user.email, user.username, user.password, user.picture}
           fields == Changes(user).fields
           params == Changes(user).params
           f == Fields(Builder, "UPDATE", fields)
           r == [f EXCEPT !.params = params]
           b == Bind(f, "WHERE", "id", user.id)
           w == [b EXCEPT !.hasWhere = TRUE]
           ps == Append(params, user.id)
           u == [w EXCEPT !.params = ps]
           c == Clause("WHERE", "id", f.index + 1)
<1>0. /\ user.id \in SUBSET V /\ user.email \in SUBSET V /\ user.username \in SUBSET V
      /\ user.password \in SUBSET V /\ user.picture \in SUBSET V
  BY Zenon
<1> HIDE DEF V
<1>1. /\ fields \in Seq(Columns) /\ params \in Seq(SUBSET V) /\ Len(params) = Len(fields)
      /\ Len(fields) \in Nat
  <2>1. Changes(user) \in Sent(V) /\ Len(params) = Len(fields)
    BY <1>0, ChangesTell
  <2>2. fields \in Seq(Columns) /\ params \in Seq(SUBSET V)
    BY <2>1 DEF Sent
  <2> HIDE DEF fields, params
  <2>3. Len(fields) \in Nat
    BY <2>2
  <2> QED
    BY <2>1, <2>2, <2>3
<1>2. \A column, v : Says(fields, params, column, v) <=>
        /\ column \in {"email", "username", "password", "picture"}
        /\ v \in user[column] /\ ~(user[column] \subseteq {"empty"})
  BY Zenon, <1>0, ChangesTell DEF Tells
<1> HIDE DEF fields, params
<1>3. /\ f \in Builders(V) /\ f.clauses = Settings(fields) /\ f.index = Len(fields)
      /\ f.hasWhere = FALSE
  BY <1>1, FieldsNumbered
<1>4. Update(user) = u
  <2>1. Where(f, "id", user.id) = w
    BY Zenon, <1>3 DEF Where, Condition
  <2> QED
    BY Zenon, <2>1 DEF Update, fields, params
<1> HIDE DEF f
<1>5. "WHERE" \in ClauseParts /\ "id" \in ClauseColumns /\ "WHERE" \in Conditional
  BY DEF ClauseParts, ClauseColumns, Columns, Conditional
<1>6. /\ b \in Builders(V) /\ b.index = f.index + 1 /\ b.clauses = Append(f.clauses, c)
  BY <1>0, <1>3, <1>5, BindAppends
<1>7. /\ c \in Clauses /\ c.part = "WHERE" /\ c.column = "id" /\ c.at = f.index + 1
  BY <1>1, <1>3, <1>5 DEF Clause, Clauses
<1>8. ps \in Seq(SUBSET V)
  BY <1>0, <1>1
<1> HIDE DEF b, c, ps
<1>9. w \in Builders(V)
  BY Zenon, <1>6 DEF Builders
<1>10. w.clauses = b.clauses /\ w.index = b.index
  BY Zenon, <1>6 DEF Builders
<1>11. w.hasWhere = TRUE
  BY Zenon, <1>6 DEF Builders
<1> HIDE DEF w
<1>12. u \in Builders(V)
  BY Zenon, <1>8, <1>9 DEF Builders
<1>13. u.clauses = w.clauses /\ u.index = w.index
  BY Zenon, <1>9 DEF Builders
<1>14. u.hasWhere = w.hasWhere
  BY Zenon, <1>9 DEF Builders
<1>15. u.params = ps
  BY Zenon, <1>9 DEF Builders
<1> HIDE DEF u
<1>16. r \in Builders(V)
  BY Zenon, <1>1, <1>3 DEF Builders
<1>17. r.clauses = f.clauses /\ r.index = f.index
  BY Zenon, <1>3 DEF Builders
<1>18. r.hasWhere = f.hasWhere
  BY Zenon, <1>3 DEF Builders
<1>19. r.params = params
  BY Zenon, <1>3 DEF Builders
<1> HIDE DEF r
<1>20. /\ Means(r, V, row, TRUE, 1)
       /\ \A column, v : v \in Bound(r, "SET", column) <=> Says(fields, params, column, v)
  BY <1>1, <1>3, <1>16, <1>17, <1>18, <1>19, FieldsAreSet
<1>21. OneMore(V, r, u, c, user.id)
  <2>1. u.params = Append(r.params, user.id)
    BY Zenon, <1>15, <1>19 DEF ps
  <2>2. u.clauses = Append(r.clauses, c)
    BY Zenon, <1>6, <1>10, <1>13, <1>17
  <2>3. u.index = r.index + 1 /\ c.at = r.index + 1
    BY Zenon, <1>6, <1>7, <1>10, <1>13, <1>17
  <2>4. r.hasWhere = FALSE /\ u.hasWhere = TRUE
    BY Zenon, <1>3, <1>11, <1>14, <1>18
  <2> QED
    BY <1>0, <1>7, <1>12, <1>16, <2>1, <2>2, <2>3, <2>4 DEF OneMore
<1>22. Parses(r, 1) /\ Matches(r, row)
  BY Zenon, <1>20 DEF Means
<1>23. WellFormed(u)
  <2>1. 1 \in Nat /\ 1 <= Place[c.part]
    BY <1>7, PlaceValues
  <2>2. Parses(u, Place[c.part])
    BY <1>21, <1>22, <2>1, OneMoreParses
  <2> QED
    BY Zenon, <1>12, <2>2, ParsedIsWellFormed
<1>24. /\ Matches(u, row) <=> row["id"] \in user.id
       /\ \A column : Bound(u, "SET", column) = Bound(r, "SET", column)
  <2>1. /\ Matches(u, row) <=>
             Matches(r, row) /\ (c.part \in Conditional => row[c.column] \in user.id)
        /\ \A part, column :
             part # "ORDER" /\ ~(part = c.part /\ column = c.column) =>
               Bound(u, part, column) = Bound(r, part, column)
    BY <1>21, <1>22, OneMoreClause
  <2>2. "SET" # "ORDER" /\ "SET" # c.part
    BY <1>7
  <2> QED
    BY Zenon, <1>5, <1>7, <1>22, <2>1, <2>2
<1>25. ASSUME NEW column
       PROVE  Bound(u, "SET", column) =
                IF /\ column \in {"email", "username", "password", "picture"}
                   /\ ~(user[column] \subseteq {"empty"})
                THEN user[column] ELSE {}
  <2> DEFINE given == /\ column \in {"email", "username", "password", "picture"}
                      /\ ~(user[column] \subseteq {"empty"})
  <2>1. \A v : v \in Bound(u, "SET", column) <=> given /\ v \in user[column]
    BY Zenon, <1>2, <1>20, <1>24
  <2> HIDE DEF given
  <2>2. Bound(u, "SET", column) = IF given THEN user[column] ELSE {}
    BY <2>1
  <2> QED
    BY <2>2 DEF given
<1> QED
  BY Zenon, <1>4, <1>23, <1>24, <1>25

(* What the last part of a name says is what the form keeps of it.          *)
LEMMA LastIsSaid ==
  ASSUME NEW parts \in Seq(Parts), NEW name, NEW file
  PROVE  /\ LastSaid(parts, name, file) = Optional(LastPart(parts, name, file))
         /\ LastPart(parts, name, file) \in {"absent"} \cup Data
<1> DEFINE said == {i \in DOMAIN parts : parts[i].name = name /\ parts[i].file = file}
           last == {k \in said : \A j \in said : j <= k}
<1>1. /\ said = {} => LastPart(parts, name, file) = "absent"
      /\ said # {} => \E i \in said : /\ \A j \in said : j <= i
                                      /\ LastPart(parts, name, file) = parts[i].data
  BY LastPartsAreKept
<1>2. \A i \in said : i \in Nat /\ parts[i].data \in Data
  <2>1. \A i \in DOMAIN parts : i \in Nat /\ parts[i] \in Parts
    OBVIOUS
  <2> QED
    BY <2>1 DEF Parts
<1>3. LastSaid(parts, name, file) = {parts[i].data : i \in last}
  BY Zenon DEF LastSaid
<1>4. "absent" \notin Data
  BY DEF Data
<1> HIDE DEF said
<1>5. CASE said = {}
  BY <1>1, <1>3, <1>5 DEF Optional
<1>6. CASE said # {}
  <2>1. PICK i \in said : (\A j \in said : j <= i) /\ LastPart(parts, name, file) = parts[i].data
    BY <1>1, <1>6
  <2>2. last = {i}
    BY <1>2, <2>1
  <2>3. LastSaid(parts, name, file) = {parts[i].data}
    BY <1>3, <2>2
  <2> QED
    BY <1>2, <1>4, <2>1, <2>3 DEF Optional
<1> QED
  BY <1>5, <1>6

(* A body becomes the row it says, with its password hashed.                *)
Inserted(body) ==
  LET q == Create(Created(body)) IN
  /\ WellFormed(q)
  /\ \A c \in {"username", "email"} : Bound(q, "SET", c) = {body[c]}
  /\ Bound(q, "SET", "password") = {"hash"}
  /\ \A c \in {"id", "picture"} : Bound(q, "SET", c) = {}

LEMMA BodiesAreWritten ==
  ASSUME NEW body
  PROVE  Inserted(body)
<1> DEFINE user == Created(body)
           q == Create(user)
<1>1. /\ user["username"] = {body["username"]} /\ user["email"] = {body["email"]}
      /\ user["password"] = {"hash"}
  BY DEF Created
<1> HIDE DEF user
<1>2. /\ WellFormed(q)
      /\ \A column : Bound(q, "SET", column) =
           IF column \in {"username", "email", "password"} THEN user[column] ELSE {}
  BY CreateSets
<1> HIDE DEF q
<1>3. /\ Bound(q, "SET", "username") = user["username"]
      /\ Bound(q, "SET", "email") = user["email"]
      /\ Bound(q, "SET", "password") = user["password"]
      /\ Bound(q, "SET", "id") = {} /\ Bound(q, "SET", "picture") = {}
  BY <1>2
<1>4. /\ \A c \in {"username", "email"} : Bound(q, "SET", c) = {body[c]}
      /\ \A c \in {"id", "picture"} : Bound(q, "SET", c) = {}
  BY <1>1, <1>3
<1> QED
  BY Zenon, <1>1, <1>2, <1>3, <1>4 DEF Inserted, q, user

(* What an accepted form sets: the texts it has, the password's hash and a  *)
(* name for the picture, each if the form has it, and none of them empty.   *)
LEMMA AcceptedIsSet ==
  ASSUME NEW parts \in Seq(Parts), NEW id,
         UserUpdateSerializer(UpdateBody(parts)) = "ok"
  PROVE  LET user == Entity({id}, UpdateBody(parts))
             said(column) == LastSaid(parts, column, column = "picture")
         IN  /\ user.id = {id}
             /\ \A c \in {"username", "email"} : user[c] = said(c)
             /\ user["password"] = IF said("password") = {} THEN {} ELSE {"hash"}
             /\ said("picture") = {} => user["picture"] = {}
             /\ said("picture") # {} => user["picture"] \in {{"stored"}, {"client's"}}
             /\ \A c \in {"email", "username", "password", "picture"} :
                  user[c] = {} \/ \E v : user[c] = {v} /\ v # "empty"
<1> DEFINE b == UpdateBody(parts)
           user == Entity({id}, b)
           said(column) == LastSaid(parts, column, column = "picture")
           Kept == {"absent"} \cup Data
<1>1. /\ b.username = LastPart(parts, "username", FALSE)
      /\ b.password = LastPart(parts, "password", FALSE)
      /\ b.email = LastPart(parts, "email", FALSE)
      /\ b.picture = LastPart(parts, "picture", TRUE)
  BY DEF UpdateBody
<1> HIDE DEF b
<1>2. /\ b.username \in Kept /\ b.password \in Kept /\ b.email \in Kept /\ b.picture \in Kept
      /\ said("username") = Optional(b.username) /\ said("email") = Optional(b.email)
      /\ said("password") = Optional(b.password) /\ said("picture") = Optional(b.picture)
  <2>1. /\ ("username" = "picture") = FALSE /\ ("email" = "picture") = FALSE
        /\ ("password" = "picture") = FALSE /\ ("picture" = "picture") = TRUE
    OBVIOUS
  <2>2. /\ said("username") = LastSaid(parts, "username", FALSE)
        /\ said("email") = LastSaid(parts, "email", FALSE)
        /\ said("password") = LastSaid(parts, "password", FALSE)
        /\ said("picture") = LastSaid(parts, "picture", TRUE)
    BY Zenon, <2>1
  <2> HIDE DEF said
  <2> QED
    BY <1>1, <2>2, LastIsSaid
<1>3. Kept \subseteq JsonValues
  BY DEF Data, JsonValues
<1>4. /\ b.username \in {"absent", "bad", "good"} /\ b.email \in {"absent", "good"}
      /\ b.password \in {"absent", "good"}
  <2>1. b.username \in JsonValues /\ b.email \in JsonValues /\ b.password \in JsonValues
    BY <1>2, <1>3
  <2>2. UserUpdateSerializer(b) = "ok"
    BY DEF b
  <2> QED
    BY <2>1, <2>2, FormsAsk
<1>5. /\ user.id = {id} /\ user.username = Optional(b.username)
      /\ user.email = Optional(b.email)
      /\ user.password = IF b.password = "absent" THEN {} ELSE {"hash"}
      /\ user.picture = IF b.picture = "absent" THEN {}
                        ELSE IF b.picture = "empty" THEN {"client's"} ELSE {"stored"}
  BY DEF Entity
<1> HIDE DEF user, said
<1>6. /\ user["username"] = said("username") /\ user["email"] = said("email")
      /\ user["password"] = IF said("password") = {} THEN {} ELSE {"hash"}
      /\ said("picture") = {} => user["picture"] = {}
      /\ said("picture") # {} => user["picture"] \in {{"stored"}, {"client's"}}
  BY <1>2, <1>5 DEF Optional
<1>7. ASSUME NEW c \in {"email", "username", "password", "picture"}
      PROVE  user[c] = {} \/ \E v : user[c] = {v} /\ v # "empty"
  <2>1. CASE c = "email"
    BY <1>4, <1>5, <2>1 DEF Optional
  <2>2. CASE c = "username"
    BY <1>4, <1>5, <2>2 DEF Optional
  <2>3. CASE c = "password"
    BY <1>5, <2>3
  <2>4. CASE c = "picture"
    BY <1>5, <2>4
  <2> QED
    BY Zenon, <2>1, <2>2, <2>3, <2>4
<1> QED
  BY Zenon, <1>5, <1>6, <1>7 DEF b, user, said

(* A form that is accepted changes the row of its id as it says, and no     *)
(* other.                                                                   *)
Changed(id, parts) ==
  LET q == Update(Entity({id}, UpdateBody(parts)))
      said(column) == LastSaid(parts, column, column = "picture")
  IN  /\ WellFormed(q)
      /\ \A i \in DOMAIN Rows : LET row == Rows[i]
                                 new == Updated(q, Rows)[i] IN
           /\ row.id # id => new = row
           /\ DOMAIN new = Columns /\ new.id = row.id
           /\ row.id = id =>
                /\ \A c \in Columns : said(c) = {} => new[c] = row[c]
                /\ \A c \in {"username", "email"} : said(c) # {} => said(c) = {new[c]}
                /\ said("password") # {} => new.password = "hash"
                /\ said("picture") # {} => new.picture \in {"stored", "client's"}

LEMMA FormsAreWritten ==
  ASSUME NEW parts \in Seq(Parts), NEW id,
         UserUpdateSerializer(UpdateBody(parts)) = "ok"
  PROVE  Changed(id, parts)
<1> DEFINE user == Entity({id}, UpdateBody(parts))
           q == Update(user)
           said(column) == LastSaid(parts, column, column = "picture")
           Named == {"email", "username", "password", "picture"}
<1>1. /\ user.id = {id}
      /\ \A c \in {"username", "email"} : user[c] = said(c)
      /\ user["password"] = IF said("password") = {} THEN {} ELSE {"hash"}
      /\ said("picture") = {} => user["picture"] = {}
      /\ said("picture") # {} => user["picture"] \in {{"stored"}, {"client's"}}
      /\ \A c \in Named : user[c] = {} \/ \E v : user[c] = {v} /\ v # "empty"
  BY Zenon, AcceptedIsSet
<1> HIDE DEF user, said
<1>2. user.id # {}
  BY <1>1
<1>3. /\ WellFormed(q)
      /\ \A row : Matches(q, row) <=> row["id"] \in user.id
      /\ \A column : Bound(q, "SET", column) =
           IF column \in Named /\ ~(user[column] \subseteq {"empty"}) THEN user[column] ELSE {}
  BY Zenon, <1>2, UpdateSets
<1> HIDE DEF q
<1>4. \A c \in Named : Bound(q, "SET", c) = user[c]
  BY <1>1, <1>3
<1>5. Bound(q, "SET", "id") = {}
  BY <1>3
<1>6. Columns = {"id"} \cup Named
  BY DEF Columns
<1>7. ASSUME NEW i \in DOMAIN Rows
      PROVE  LET row == Rows[i]
                 new == Updated(q, Rows)[i] IN
             /\ row.id # id => new = row
             /\ DOMAIN new = Columns /\ new.id = row.id
             /\ row.id = id =>
                  /\ \A c \in Columns : said(c) = {} => new[c] = row[c]
                  /\ \A c \in {"username", "email"} : said(c) # {} => said(c) = {new[c]}
                  /\ said("password") # {} => new.password = "hash"
                  /\ said("picture") # {} => new.picture \in {"stored", "client's"}
  <2> DEFINE row == Rows[i]
             new == Updated(q, Rows)[i]
  <2>1. DOMAIN row = Columns
    BY TableAssumption
  <2>2. Matches(q, row) <=> row["id"] = id
    BY <1>1, <1>3
  <2>3. ~Matches(q, row) => new = row
    BY DEF Updated
  <2>4. Matches(q, row) =>
          new = [c \in DOMAIN row |-> IF Bound(q, "SET", c) = {} THEN row[c]
                                      ELSE CHOOSE v \in Bound(q, "SET", c) : TRUE]
    BY DEF Updated
  <2> HIDE DEF row, new
  <2>5. row["id"] # id => new = row /\ DOMAIN new = Columns
    BY <2>1, <2>2, <2>3
  <2>6. ASSUME row["id"] = id
        PROVE  /\ DOMAIN new = Columns /\ new["id"] = row["id"]
               /\ \A c \in Columns : said(c) = {} => new[c] = row[c]
               /\ \A c \in {"username", "email"} : said(c) # {} => said(c) = {new[c]}
               /\ said("password") # {} => new["password"] = "hash"
               /\ said("picture") # {} => new["picture"] \in {"stored", "client's"}
    <3>1. DOMAIN new = Columns
      BY <2>1, <2>2, <2>4, <2>6
    <3>2. \A c \in Columns :
            new[c] = IF Bound(q, "SET", c) = {} THEN row[c]
                     ELSE CHOOSE v \in Bound(q, "SET", c) : TRUE
      BY <2>1, <2>2, <2>4, <2>6
    <3>3. \A c \in Named : user[c] = {} => new[c] = row[c]
      BY Zenon, <1>4, <1>6, <3>2
    <3>4. ASSUME NEW c \in Named, NEW v, user[c] = {v}
          PROVE  new[c] = v
      <4>1. new[c] = CHOOSE x \in {v} : TRUE
        <5>1. {v} # {}
          OBVIOUS
        <5>2. c \in Columns /\ Bound(q, "SET", c) = {v}
          BY Zenon, <1>4, <1>6, <3>4
        <5> QED
          BY Zenon, <3>2, <5>1, <5>2
      <4> QED
        BY <4>1
    <3>5. new["id"] = row["id"]
      BY <1>5, <1>6, <3>2
    <3>6. \A c \in Columns : said(c) = {} => new[c] = row[c]
      <4>1. \A c \in Named : said(c) = {} => user[c] = {}
        BY <1>1
      <4> QED
        BY Zenon, <1>6, <3>3, <3>5, <4>1
    <3>7. \A c \in {"username", "email"} : said(c) # {} => said(c) = {new[c]}
      BY <1>1, <3>4
    <3>8. said("password") # {} => new["password"] = "hash"
      BY <1>1, <3>4
    <3>9. said("picture") # {} => new["picture"] \in {"stored", "client's"}
      BY <1>1, <3>4
    <3> QED
      BY Zenon, <3>1, <3>5, <3>6, <3>7, <3>8, <3>9
  <2> QED
    BY Zenon, <2>5, <2>6 DEF row, new
<1> QED
  BY Zenon, <1>3, <1>7 DEF Changed, q, user, said
-----------------------------------------------------------------------------
(* A filter's values are of the table's columns; a form is a sequence of    *)
(* parts.                                                                   *)
InputInv ==
  /\ AskedFor
  /\ kind = "patch" => \E id : \E parts \in Seq(Parts) : input = [id |-> id, parts |-> parts]

LEMMA InputInvInductive ==
  /\ Init => InputInv
  /\ InputInv /\ [Next]_vars => InputInv'
<1>1. Init => InputInv
  BY DEF Init, InputInv, AskedFor
<1>2. ASSUME InputInv, [Next]_vars
      PROVE  InputInv'
  <2>1. CASE List
    BY <2>1 DEF List, Take, InputInv, AskedFor
  <2>5. CASE Fetch
    BY <2>5 DEF Fetch, Take, InputInv, AskedFor
  <2>2. CASE Patch
    <3>1. PICK id \in Column("id"), n \in 0..MaxParts : \E parts \in [1..n -> Parts] :
            Take("patch", [id |-> id, parts |-> parts])
      BY Zenon, <2>2 DEF Patch
    <3>2. PICK parts \in [1..n -> Parts] : Take("patch", [id |-> id, parts |-> parts])
      BY <3>1
    <3>3. n \in Nat
      OBVIOUS
    <3>4. parts \in Seq(Parts)
      BY <3>3
    <3> QED
      BY <3>2, <3>4 DEF Take, InputInv, AskedFor
  <2>3. CASE Body \/ NumberText \/ Timestamp \/ Done
    <3>1. kind' \notin {"list", "fetch", "patch"}
      BY <2>3 DEF Body, NumberText, Timestamp, Done, Take
    <3> QED
      BY <3>1 DEF InputInv, AskedFor
  <2>4. CASE UNCHANGED vars
    BY <1>2, <2>4 DEF vars, InputInv, AskedFor
  <2> QED
    BY <1>2, <2>1, <2>2, <2>3, <2>4, <2>5 DEF Next
<1> QED
  BY <1>1, <1>2

(* What a statement does to the table is what its request said, whichever   *)
(* parts a filter has, however many parts a form has and whatever the table *)
(* holds; of a list of names, as far as they are plain in an array.         *)
THEOREM StatementsDoMeanRequests == Spec => []StatementsMeanRequests
<1>1. ASSUME InputInv
      PROVE  WritesMeanForms
  <2>1. Inserted(input)
    BY Zenon, BodiesAreWritten
  <2>2. ASSUME kind = "patch", UserUpdateSerializer(UpdateBody(input.parts)) = "ok"
        PROVE  Changed(input.id, input.parts)
    <3>1. input.parts \in Seq(Parts)
      <4>1. PICK id, parts : parts \in Seq(Parts) /\ input = [id |-> id, parts |-> parts]
        BY <1>1, <2>2 DEF InputInv
      <4> QED
        BY <4>1
    <3> QED
      BY Zenon, <2>2, <3>1, FormsAreWritten
  <2> QED
    BY Zenon, <2>1, <2>2 DEF WritesMeanForms, Inserted, Changed
<1>2. InputInv => StatementsMeanRequests
  BY <1>1, ReadsDoMeanFilters DEF StatementsMeanRequests, InputInv
<1> QED
  BY <1>2, InputInvInductive, PTL DEF Spec
-----------------------------------------------------------------------------
(* The numbers. That 2^(n + 1) is twice 2^n is what Naturals defines ^ to   *)
(* be, but the provers do not know it: it is the hypothesis of what follows.*)
Doubling == \A n \in Nat : 2^(n + 1) = 2 * 2^n

(* The powers of two are positive, and grow with their exponent: neither    *)
(* has a least exception.                                                   *)
LEMMA PowersGrow ==
  ASSUME Doubling
  PROVE  /\ \A n \in Nat : 2^n \in Nat \ {0}
         /\ \A m, n \in Nat : m <= n => 2^m <= 2^n
<1> DEFINE p == [n \in Nat |-> 2^n]
<1>1. p[0] = 1 /\ \A n \in Nat : p[n + 1] = 2 * p[n] /\ p[n] = 2^n
  BY DEF Doubling
<1> HIDE DEF p
<1>2. \A n \in Nat : p[n] \in Nat \ {0}
  <2> DEFINE T == {n \in Nat : p[n] \notin Nat \ {0}}
  <2>1. SUFFICES ASSUME T # {} PROVE FALSE
    OBVIOUS
  <2>2. PICK x \in T : \A y \in T : x <= y
    <3>1. T \subseteq Nat
      OBVIOUS
    <3> HIDE DEF T
    <3> QED
      BY <2>1, <3>1, LeastNumber
  <2>3. x # 0
    BY <1>1
  <2>4. x - 1 \in Nat /\ x - 1 \notin T
    BY <2>2, <2>3
  <2> QED
    BY <1>1, <2>4
<1>3. ASSUME NEW m \in Nat
      PROVE  \A n \in Nat : m <= n => p[m] <= p[n]
  <2> DEFINE T == {n \in Nat : m <= n /\ ~(p[m] <= p[n])}
  <2>1. SUFFICES ASSUME T # {} PROVE FALSE
    OBVIOUS
  <2>2. PICK x \in T : \A y \in T : x <= y
    <3>1. T \subseteq Nat
      OBVIOUS
    <3> HIDE DEF T
    <3> QED
      BY <2>1, <3>1, LeastNumber
  <2>3. x # m
    BY <1>2
  <2>4. x - 1 \in Nat /\ m <= x - 1 /\ x - 1 \notin T
    BY <2>2, <2>3
  <2>5. p[m] <= p[x - 1] /\ p[x] = 2 * p[x - 1]
    BY <1>1, <2>4
  <2> QED
    BY <1>2, <2>4, <2>5
<1> QED
  BY <1>1, <1>2, <1>3

(* What the widths are to each other.                                       *)
LEMMA WordSizes ==
  ASSUME Doubling
  PROVE  /\ {2^LongBits, 2^(LongBits - 1), 2^(IntBits - 1), 2^PortBits} \subseteq Nat \ {0}
         /\ 2^LongBits = 2 * 2^(LongBits - 1)
         /\ 2^PortBits <= 2^(IntBits - 1) /\ 2^PortBits <= 2^LongBits
<1>1. /\ LongBits \in Nat /\ LongBits - 1 \in Nat /\ IntBits - 1 \in Nat /\ PortBits \in Nat
      /\ PortBits <= IntBits - 1 /\ PortBits <= LongBits /\ (LongBits - 1) + 1 = LongBits
  BY ConversionsAssumption
<1>2. 2^LongBits = 2 * 2^(LongBits - 1)
  BY <1>1 DEF Doubling
<1> QED
  BY <1>1, <1>2, PowersGrow

(* The remainder of a number by the size of a word, and of the signed       *)
(* number that has the same bits.                                           *)
LEMMA Remainders ==
  ASSUME NEW h \in Nat \ {0}, NEW n \in Nat, n = 2 * h, NEW x \in Int
  PROVE  /\ x % n \in 0..(n - 1)
         /\ \A y \in 0..(n - 1) : y % n = y /\ (y - n) % n = y
         /\ -h <= x /\ x < 0 => x % n = x + n
<1>1. n \in Nat \ {0}
  OBVIOUS
<1>2. x % n \in 0..(n - 1)
  BY <1>1
<1>3. ASSUME NEW y \in 0..(n - 1)
      PROVE  y % n = y /\ (y - n) % n = y
  BY <1>1
<1>4. -h <= x /\ x < 0 => x % n = x + n
  BY <1>1
<1> QED
  BY <1>2, <1>3, <1>4

(* What the conversions make of one text.                                   *)
LEMMA TextSurvives ==
  ASSUME Doubling, NEW t \in Texts
  PROVE  /\ \A n \in ParseId(t) : n % 2^LongBits = Said(t) % 2^LongBits
         /\ t.digits /\ Said(t) \in -(2^(LongBits - 1))..(2^(LongBits - 1) - 1)
              => ParseId(t) = {Said(t)}
         /\ ListLimit({t}) \cup ListLimit({}) \subseteq 1..MaxLimit
         /\ t.digits /\ Said(t) \in 1..MaxLimit => ListLimit({t}) = {Said(t)}
         /\ t.digits /\ Said(t) \in 0..(2^PortBits - 1)
              => Uint16(t) = {Said(t)} /\ Uint64(t) = {Said(t)}
<1> DEFINE w == 2^LongBits
           h == 2^(LongBits - 1)
           j == 2^(IntBits - 1)
           q == 2^PortBits
           x == Said(t)
           v == t.value
<1>1. /\ w \in Nat \ {0} /\ h \in Nat \ {0} /\ j \in Nat \ {0} /\ q \in Nat \ {0}
      /\ w = 2 * h /\ q <= j /\ q <= w
  BY WordSizes
<1>2. /\ v \in 0..(w + 1) /\ x = (IF t.negative THEN -v ELSE v)
      /\ stoull(t) = (IF ~t.digits \/ v >= w THEN {} ELSE {x % w})
      /\ stoi(t) = {n \in {x} : t.digits /\ n \in -j..(j - 1)}
  BY DEF Texts, Said, stoull, stoi
<1>3. /\ MaxLimit \in Nat \ {0} /\ DefaultLimit \in Nat \ {0} /\ DefaultLimit <= MaxLimit
      /\ MaxLimit < w
  BY ConversionsAssumption
<1>4. \A n : Signed(n) = IF n < h THEN n ELSE n - w
  BY DEF Signed
<1>5. /\ Uint16(t) = {n % q : n \in stoi(t)}
      /\ Uint64(t) = {n % w : n \in stoi(t)}
  BY DEF Uint16, Uint64
<1> HIDE DEF w, h, j, q, x, v
<1>6. x \in Int
  BY <1>1, <1>2
<1>7. /\ x % w \in 0..(w - 1)
      /\ \A y \in 0..(w - 1) : y % w = y /\ (y - w) % w = y
      /\ -h <= x /\ x < 0 => x % w = x + w
  BY <1>1, <1>6, Remainders
<1>8. \A n \in ParseId(t) : n % w = x % w
  <2>1. \A n \in ParseId(t) : n = Signed(x % w)
    BY <1>2 DEF ParseId
  <2>2. Signed(x % w) = x % w \/ Signed(x % w) = (x % w) - w
    BY <1>4
  <2> QED
    BY <1>7, <2>1, <2>2
<1>9. ASSUME t.digits, x \in -h..(h - 1)
      PROVE  ParseId(t) = {x}
  <2>1. v < w
    BY <1>1, <1>2, <1>9
  <2>2. Signed(x % w) = x
    <3>1. CASE x < 0
      BY <1>1, <1>4, <1>6, <1>7, <1>9, <3>1
    <3>2. CASE x >= 0
      BY <1>1, <1>4, <1>6, <1>7, <1>9, <3>2
    <3> QED
      BY <1>6, <3>1, <3>2
  <2>3. stoull(t) = {x % w}
    BY <1>1, <1>2, <1>9, <2>1
  <2> QED
    BY <2>2, <2>3 DEF ParseId
<1>10. ListLimit({t}) \cup ListLimit({}) \subseteq 1..MaxLimit
  <2>1. \A n \in Int : Clamp(n) \in 1..MaxLimit
    BY <1>3 DEF Clamp
  <2>2. \A n \in stoull(t) : n \in Int
    BY <1>1, <1>2, <1>7
  <2>3. ListLimit({t}) = {Clamp(n) : n \in stoull(t)}
    BY DEF ListLimit
  <2>4. ListLimit({}) = {Clamp(DefaultLimit)}
    BY DEF ListLimit
  <2> QED
    BY <1>3, <2>1, <2>2, <2>3, <2>4
<1>11. ASSUME t.digits, x \in 1..MaxLimit
       PROVE  ListLimit({t}) = {x}
  <2>1. v < w
    BY <1>1, <1>2, <1>3, <1>11
  <2>2. x % w = x
    BY <1>1, <1>3, <1>7, <1>11
  <2>3. stoull(t) = {x}
    BY <1>1, <1>2, <1>11, <2>1, <2>2
  <2>4. Clamp(x) = x
    BY <1>3, <1>11 DEF Clamp
  <2> QED
    BY <2>3, <2>4 DEF ListLimit
<1>12. ASSUME t.digits, x \in 0..(q - 1)
       PROVE  Uint16(t) = {x} /\ Uint64(t) = {x}
  <2>1. stoi(t) = {x}
    BY <1>1, <1>2, <1>6, <1>12
  <2>2. x % q = x /\ x % w = x
    BY <1>1, <1>7, <1>12
  <2> QED
    BY <1>5, <2>1, <2>2
<1> QED
  BY <1>8, <1>9, <1>10, <1>11, <1>12 DEF w, h, j, q, x

(* Whatever the widths of the words and the limits, a number that fits      *)
(* arrives as itself, and another only modulo its word (BaseFilter.cpp,     *)
(* EnvConfig.cpp).                                                          *)
THEOREM NumbersKeepTheirValue ==
  ASSUME Doubling
  PROVE  Spec => []NumbersSurvive
<1> DEFINE Pairs == kind = "number" => \E t, u \in Texts : input = <<t, u>>
<1>1. Init => Pairs
  BY DEF Init
<1>2. Pairs /\ [Next]_vars => Pairs'
  BY DEF Next, vars, List, Fetch, Body, Patch, NumberText, Timestamp, Done, Take
<1>3. Pairs => NumbersSurvive
  <2> SUFFICES ASSUME NEW t1 \in Texts, NEW t2 \in Texts, input = <<t1, t2>>,
                      NEW t \in Range(input)
               PROVE  /\ \A n \in ParseId(t) : n % 2^LongBits = Said(t) % 2^LongBits
                      /\ t.digits /\ Said(t) \in -(2^(LongBits - 1))..(2^(LongBits - 1) - 1)
                           => ParseId(t) = {Said(t)}
                      /\ ParseId(t) \subseteq ParseIds(input)
                      /\ ListLimit({t}) \cup ListLimit({}) \subseteq 1..MaxLimit
                      /\ t.digits /\ Said(t) \in 1..MaxLimit => ListLimit({t}) = {Said(t)}
                      /\ t.digits /\ Said(t) \in 0..(2^PortBits - 1)
                           => Uint16(t) = {Said(t)} /\ Uint64(t) = {Said(t)}
    BY Zenon DEF NumbersSurvive
  <2>1. t \in Texts
    <3>1. DOMAIN input = {1, 2} /\ input[1] = t1 /\ input[2] = t2
      OBVIOUS
    <3> QED
      BY Zenon, <3>1 DEF Range
  <2>2. ParseId(t) \subseteq ParseIds(input)
    BY Zenon DEF ParseId, ParseIds
  <2> QED
    BY Zenon, <2>1, <2>2, TextSurvives
<1> QED
  BY <1>1, <1>2, <1>3, PTL DEF Spec
-----------------------------------------------------------------------------
(* The timestamps, with the same hypothesis on the powers of the base of    *)
(* their digits.                                                            *)
Shifting == Base^0 = 1 /\ \A n \in Nat : Base^(n + 1) = Base * Base^n

(* The powers of the base are positive.                                     *)
LEMMA PowersOfBase ==
  ASSUME Shifting
  PROVE  \A n \in Nat : Base^n \in Nat \ {0}
<1> DEFINE p == [n \in Nat |-> Base^n]
           T == {n \in Nat : p[n] \notin Nat \ {0}}
<1>1. p[0] = 1 /\ \A n \in Nat : p[n + 1] = Base * p[n] /\ p[n] = Base^n
  BY DEF Shifting
<1>2. Base \in Nat \ {0}
  BY ConversionsAssumption
<1> HIDE DEF p
<1>3. SUFFICES ASSUME T # {} PROVE FALSE
  BY <1>1
<1>4. PICK x \in T : \A y \in T : x <= y
  <2>1. T \subseteq Nat
    OBVIOUS
  <2> HIDE DEF T
  <2> QED
    BY <1>3, <2>1, LeastNumber
<1>5. x # 0
  BY <1>1
<1>6. x - 1 \in Nat /\ x - 1 \notin T
  BY <1>4, <1>5
<1>7. p[x - 1] \in Nat \ {0} /\ p[(x - 1) + 1] = Base * p[x - 1] /\ (x - 1) + 1 = x
  BY <1>1, <1>6
<1>8. Base * p[x - 1] \in Nat \ {0}
  BY <1>2, <1>7
<1> QED
  BY <1>7, <1>8

(* Products.                                                                *)
LEMMA ProductOfNaturals ==
  ASSUME NEW x \in Nat, NEW y \in Nat
  PROVE  x * y \in Nat /\ x * y = y * x
  OBVIOUS

LEMMA OneMoreTime ==
  ASSUME NEW a \in Nat, NEW b \in Nat, NEW w \in Nat, a < b
  PROVE  a * w + w <= b * w
<1>1. (b - a - 1) * w \in Nat
  <2>1. b - a - 1 \in Nat
    OBVIOUS
  <2> QED
    BY <2>1, ProductOfNaturals
<1>2. (b - a - 1) * w = b * w - a * w - w
  OBVIOUS
<1>3. a * w \in Int /\ b * w \in Int
  OBVIOUS
<1> QED
  BY <1>1, <1>2, <1>3

(* A number of some digits with one more at its end: the digits in front    *)
(* stay in front, one place further.                                        *)
LEMMA OneMoreDigit ==
  ASSUME NEW b \in Nat, NEW r \in Nat, NEW w \in Nat, NEW rest \in Nat, rest < w,
         NEW d \in Nat, d < b
  PROVE  /\ b * (r * w + rest) + d = r * (b * w) + (b * rest + d)
         /\ b * rest + d < b * w /\ b * rest + d \in Nat
<1>1. b * (r * w + rest) + d = r * (b * w) + (b * rest + d)
  OBVIOUS
<1>2. rest * b + b <= w * b
  BY OneMoreTime
<1>3. /\ rest * b = b * rest /\ w * b = b * w
      /\ b * rest \in Nat /\ b * w \in Nat
  BY ProductOfNaturals
<1> QED
  BY <1>1, <1>2, <1>3

(* A quotient and a remainder are the only ones.                            *)
LEMMA Division ==
  ASSUME NEW w \in Nat \ {0}, NEW r \in Nat, NEW rest \in Nat, rest < w
  PROVE  (r * w + rest) \div w = r /\ (r * w + rest) % w = rest
<1>1. PICK x \in Nat : x = r * w + rest
  BY ProductOfNaturals
<1>2. x \div w \in Nat /\ x % w \in Nat /\ x % w < w /\ x = w * (x \div w) + (x % w)
  BY <1>1
<1>3. PICK q \in Nat, m \in Nat : q = x \div w /\ m = x % w /\ m < w /\ x = w * q + m
  BY <1>2
<1>4. r * w \in Nat /\ q * w = w * q /\ w * q \in Nat
  BY ProductOfNaturals
<1>5. ~(r < q)
  <2>1. r < q => r * w + w <= q * w
    BY OneMoreTime
  <2> QED
    BY <1>1, <1>3, <1>4, <2>1
<1>6. ~(q < r)
  <2>1. q < r => q * w + w <= r * w
    BY OneMoreTime
  <2> QED
    BY <1>1, <1>3, <1>4, <2>1
<1>7. r = q
  BY <1>5, <1>6
<1>8. m = rest
  BY <1>1, <1>3, <1>4, <1>7
<1> QED
  BY <1>1, <1>3, <1>7, <1>8

(* What is read of a fraction digit by digit, up to the n-th.               *)
Reading(fraction, n, f) ==
  f = [i \in 0..n |-> IF i = 0 THEN 0 ELSE Base * f[i - 1] + Digit(fraction, i)]

(* There is such a reading, however long: the first length without one      *)
(* could be read by one digit more than the length before.                  *)
LEMMA EveryLengthReads ==
  ASSUME NEW fraction
  PROVE  \A n \in Nat : \E f : Reading(fraction, n, f)
<1> DEFINE T == {n \in Nat : ~\E f : Reading(fraction, n, f)}
<1>1. SUFFICES ASSUME T # {} PROVE FALSE
  OBVIOUS
<1>2. PICK x \in T : \A y \in T : x <= y
  <2>1. T \subseteq Nat
    OBVIOUS
  <2> HIDE DEF T
  <2> QED
    BY <1>1, <2>1, LeastNumber
<1>3. x # 0
  <2>1. 0..0 = {0}
    OBVIOUS
  <2> DEFINE f == [i \in {0} |-> 0]
  <2>2. f = [i \in {0} |-> IF i = 0 THEN 0 ELSE Base * f[i - 1] + Digit(fraction, i)]
    OBVIOUS
  <2> HIDE DEF f
  <2>3. Reading(fraction, 0, f)
    BY Zenon, <2>1, <2>2 DEF Reading
  <2> QED
    BY <2>3
<1>4. x - 1 \in Nat /\ x - 1 \notin T
  BY <1>2, <1>3
<1>5. PICK f : Reading(fraction, x - 1, f)
  BY <1>4
<1> DEFINE g == [i \in 0..x |-> IF i = x THEN Base * f[x - 1] + Digit(fraction, x) ELSE f[i]]
           h == [i \in 0..x |-> IF i = 0 THEN 0 ELSE Base * g[i - 1] + Digit(fraction, i)]
<1>6. ASSUME NEW i \in 0..x
      PROVE  g[i] = h[i]
  <2>1. g[i] = IF i = x THEN Base * f[x - 1] + Digit(fraction, x) ELSE f[i]
    OBVIOUS
  <2>2. h[i] = IF i = 0 THEN 0 ELSE Base * g[i - 1] + Digit(fraction, i)
    OBVIOUS
  <2>3. i # 0 => g[i - 1] = f[i - 1]
    BY <1>3, <1>4
  <2>4. i # x => f[i] = IF i = 0 THEN 0 ELSE Base * f[i - 1] + Digit(fraction, i)
    <3>1. i # x => i \in 0..(x - 1)
      BY <1>4
    <3> QED
      BY <1>5, <3>1 DEF Reading
  <2> HIDE DEF g, h
  <2>5. CASE i = x
    BY <1>3, <2>1, <2>2, <2>3, <2>5
  <2>6. CASE i # x
    BY <2>1, <2>2, <2>3, <2>4, <2>6
  <2> QED
    BY <2>5, <2>6
<1>7. g = h
  BY <1>6
<1>8. Reading(fraction, x, g)
  <2> HIDE DEF g
  <2> QED
    BY <1>7 DEF Reading
<1> HIDE DEF g
<1> QED
  BY <1>8

(* So Micros is the last number of a reading.                               *)
LEMMA MicrosReads ==
  ASSUME NEW fraction
  PROVE  \E f : Reading(fraction, Precision, f) /\ Micros(fraction) = f[Precision]
<1>1. \E f : Reading(fraction, Precision, f)
  BY EveryLengthReads, ConversionsAssumption
<1> QED
  BY Zenon, <1>1 DEF Micros, Reading

(* In a reading the first i of k digits are what is left of the k by k - i  *)
(* places.                                                                  *)
LEMMA DigitsInFront ==
  ASSUME Shifting, NEW fraction, NEW f, Reading(fraction, Precision, f),
         \A i \in 1..Precision : Digit(fraction, i) \in 0..(Base - 1)
  PROVE  /\ f[0] = 0
         /\ \A i \in 1..Precision : f[i] = Base * f[i - 1] + Digit(fraction, i)
         /\ \A i \in 0..Precision : f[i] \in Nat
         /\ \A i, k \in 0..Precision : i <= k =>
              \E rest \in Nat : rest < Base^(k - i) /\ f[k] = f[i] * Base^(k - i) + rest
<1>1. Precision \in Nat /\ Base \in Nat /\ Base > 0
  BY ConversionsAssumption
<1>2. \A i \in 0..Precision : f[i] = IF i = 0 THEN 0 ELSE Base * f[i - 1] + Digit(fraction, i)
  BY DEF Reading
<1>3. f[0] = 0 /\ \A i \in 1..Precision : f[i] = Base * f[i - 1] + Digit(fraction, i)
  BY <1>1, <1>2
<1>4. \A i \in 0..Precision : f[i] \in Nat
  <2> DEFINE T == {i \in 0..Precision : f[i] \notin Nat}
  <2>1. SUFFICES ASSUME T # {} PROVE FALSE
    OBVIOUS
  <2>2. PICK x \in T : \A y \in T : x <= y
    <3>1. T \subseteq Nat
      OBVIOUS
    <3> HIDE DEF T
    <3> QED
      BY <2>1, <3>1, LeastNumber
  <2>3. x # 0
    BY <1>3
  <2>4. x \in 1..Precision /\ x - 1 \in 0..Precision /\ x - 1 \notin T
    BY <1>1, <2>2, <2>3
  <2>5. PICK y \in Nat, d \in Nat : y = f[x - 1] /\ d = Digit(fraction, x)
    BY <1>1, <2>4
  <2>6. Base * y \in Nat
    BY <1>1, ProductOfNaturals
  <2>7. f[x] = Base * y + d
    BY <1>3, <2>4, <2>5
  <2> QED
    BY <2>6, <2>7
<1>5. ASSUME NEW i \in 0..Precision, NEW k \in 0..Precision, i <= k
      PROVE  \E rest \in Nat : rest < Base^(k - i) /\ f[k] = f[i] * Base^(k - i) + rest
  <2> DEFINE Left(n, rest) == rest < Base^(n - i) /\ f[n] = f[i] * Base^(n - i) + rest
             T == {n \in i..Precision : ~\E rest \in Nat : Left(n, rest)}
  <2>1. SUFFICES ASSUME T # {} PROVE FALSE
    BY <1>1, <1>5
  <2>2. PICK x \in T : \A y \in T : x <= y
    <3>1. T \subseteq Nat
      OBVIOUS
    <3> HIDE DEF T
    <3> QED
      BY <2>1, <3>1, LeastNumber
  <2>3. x # i
    <3>1. i - i = 0 /\ Base^0 = 1 /\ f[i] \in Nat
      BY <1>4 DEF Shifting
    <3>2. f[i] = f[i] * 1 + 0 /\ 0 < 1 /\ 0 \in Nat
      BY <3>1
    <3>3. Left(i, 0)
      BY Zenon, <3>1, <3>2
    <3> QED
      BY <3>2, <3>3
  <2>4. /\ x \in 1..Precision /\ x - 1 \in i..Precision /\ x - 1 \notin T
        /\ x - 1 \in 0..Precision
    <3>1. x \in i..Precision /\ x \in Nat /\ i \in Nat
      OBVIOUS
    <3>2. x - 1 \in i..Precision /\ x \in 1..Precision /\ x - 1 \in 0..Precision
      BY <1>1, <2>3, <3>1
    <3>3. x - 1 \notin T
      <4>1. ~(x <= x - 1)
        BY <3>1
      <4> HIDE DEF T
      <4> QED
        BY <2>2, <4>1
    <3> QED
      BY Zenon, <3>2, <3>3
  <2>5. PICK rest \in Nat : Left(x - 1, rest)
    BY <2>4
  <2>6. PICK n \in Nat, w \in Nat, r \in Nat, d \in Nat :
          /\ n = (x - 1) - i /\ w = Base^n /\ r = f[i] /\ d = Digit(fraction, x) /\ d < Base
    <3>1. (x - 1) - i \in Nat
      BY <2>4
    <3>2. Base^((x - 1) - i) \in Nat
      BY <3>1, PowersOfBase
    <3>3. Digit(fraction, x) \in Nat /\ Digit(fraction, x) < Base
      BY <1>1, <2>4
    <3>4. f[i] \in Nat
      BY <1>4
    <3> QED
      BY <3>1, <3>2, <3>3, <3>4
  <2>7. rest < w /\ f[x - 1] = r * w + rest
    BY <2>5, <2>6
  <2>8. f[x] = r * (Base * w) + (Base * rest + d) /\ Base * rest + d < Base * w
        /\ Base * rest + d \in Nat
    <3>1. f[x] = Base * (r * w + rest) + d
      BY <1>3, <2>4, <2>6, <2>7
    <3>2. /\ Base * (r * w + rest) + d = r * (Base * w) + (Base * rest + d)
          /\ Base * rest + d < Base * w /\ Base * rest + d \in Nat
      <4>1. PICK b \in Nat : b = Base /\ rest < w /\ d < b
        BY <1>1, <2>6, <2>7
      <4>2. /\ b * (r * w + rest) + d = r * (b * w) + (b * rest + d)
            /\ b * rest + d < b * w /\ b * rest + d \in Nat
        BY <4>1, OneMoreDigit
      <4> QED
        BY Zenon, <4>1, <4>2
    <3> QED
      BY Zenon, <3>1, <3>2
  <2>9. Base^(x - i) = Base * w
    <3>1. x - i = n + 1
      BY <2>6
    <3> QED
      BY <2>6, <3>1 DEF Shifting
  <2>10. Left(x, Base * rest + d)
    BY Zenon, <2>6, <2>8, <2>9
  <2> QED
    BY <2>8, <2>10
<1> QED
  BY <1>3, <1>4, <1>5

(* A timestamp keeps its second and its digits up to the precision, however *)
(* many digits it has (PgHelpers).                                          *)
LEMMA TimestampSurvives ==
  ASSUME Shifting, NEW text, text.second \in Nat, text.fraction \in Fractions
  PROVE  LET iso == ToIsoString(ParsePgTimestamp(text)) IN
         /\ iso.second = text.second
         /\ \A i \in 1..Precision : Digit(iso.fraction, i) = Digit(text.fraction, i)
<1>0. PICK second \in Nat, fraction \in Fractions :
        second = text.second /\ fraction = text.fraction
  OBVIOUS
<1>1. Precision \in Nat /\ Base \in Nat \ {0}
  BY ConversionsAssumption
<1>2. \A i \in 1..Precision : Digit(fraction, i) \in 0..(Base - 1)
  <2>1. PICK n \in 0..(Precision + 1) : fraction \in [1..n -> 0..(Base - 1)]
    BY DEF Fractions
  <2> QED
    BY <1>1, <2>1 DEF Digit
<1>3. PICK f : Reading(fraction, Precision, f) /\ Micros(fraction) = f[Precision]
  BY MicrosReads
<1>4. /\ f[0] = 0
      /\ \A i \in 1..Precision : f[i] = Base * f[i - 1] + Digit(fraction, i)
      /\ \A i \in 0..Precision : f[i] \in Nat
      /\ \A i, k \in 0..Precision : i <= k =>
           \E rest \in Nat : rest < Base^(k - i) /\ f[k] = f[i] * Base^(k - i) + rest
  BY <1>2, <1>3, DigitsInFront
<1>5. PICK u \in Nat \ {0}, m \in Nat : u = Unit /\ m = Micros(fraction)
  <2>1. Unit \in Nat \ {0}
    BY <1>1, PowersOfBase DEF Unit
  <2>2. Micros(fraction) \in Nat
    BY <1>1, <1>3, <1>4
  <2> QED
    BY <2>1, <2>2
<1>6. m < u
  <2>1. PICK rest \in Nat : /\ rest < Base^(Precision - 0)
                            /\ f[Precision] = f[0] * Base^(Precision - 0) + rest
    <3>1. 0 \in 0..Precision /\ Precision \in 0..Precision /\ 0 <= Precision
      BY <1>1
    <3> QED
      BY Zenon, <1>4, <3>1
  <2>2. Precision - 0 = Precision /\ f[0] = 0
    BY <1>1, <1>4
  <2>3. f[0] * Base^(Precision - 0) = 0
    BY <1>5, <2>2 DEF Unit
  <2> QED
    BY <1>3, <1>5, <2>1, <2>2, <2>3 DEF Unit
<1> DEFINE tp == ParsePgTimestamp(text)
           iso == ToIsoString(tp)
<1>7. tp = second * u + m /\ tp \in Nat /\ tp \div u = second /\ tp - second * u = m
  <2>1. tp = second * u + m
    BY <1>0, <1>5 DEF ParsePgTimestamp
  <2> HIDE DEF tp
  <2>2. second * u \in Nat
    BY ProductOfNaturals
  <2>3. (second * u + m) \div u = second
    BY <1>6, Division
  <2> QED
    BY <2>1, <2>2, <2>3
<1>8. /\ iso.second = second
      /\ iso.fraction = IF m > 0 THEN [i \in 1..Precision |-> (m \div Base^(Precision - i)) % Base]
                        ELSE <<>>
  <2> HIDE DEF tp
  <2>1. tp >= 0
    BY <1>7
  <2> QED
    BY <1>5, <1>7, <2>1 DEF ToIsoString
<1>9. ASSUME NEW i \in 1..Precision
      PROVE  Digit(iso.fraction, i) = Digit(fraction, i)
  <2>1. PICK w \in Nat \ {0}, rest \in Nat, r \in Nat, s \in Nat, d \in Nat :
          /\ w = Base^(Precision - i) /\ r = f[i] /\ s = f[i - 1] /\ d = Digit(fraction, i)
          /\ rest < w /\ m = r * w + rest /\ r = Base * s + d /\ d < Base
    <3>1. i \in 0..Precision /\ i - 1 \in 0..Precision /\ Precision - i \in Nat
          /\ Precision \in 0..Precision /\ i <= Precision
      BY <1>1
    <3>2. Base^(Precision - i) \in Nat \ {0}
      BY <3>1, PowersOfBase
    <3>3. \E rest \in Nat : /\ rest < Base^(Precision - i)
                            /\ f[Precision] = f[i] * Base^(Precision - i) + rest
      BY <1>4, <3>1
    <3>4. Digit(fraction, i) \in Nat /\ Digit(fraction, i) < Base
      BY <1>1, <1>2
    <3>5. f[i] \in Nat /\ f[i - 1] \in Nat /\ f[i] = Base * f[i - 1] + Digit(fraction, i)
      BY <1>4, <3>1
    <3> QED
      BY <1>3, <1>5, <3>2, <3>3, <3>4, <3>5
  <2>2. m \div w = r
    BY <2>1, Division
  <2>3. r % Base = d
    <3>1. s * Base = Base * s
      BY <1>1, ProductOfNaturals
    <3>2. (s * Base + d) % Base = d
      BY <1>1, <2>1, Division
    <3> QED
      BY <2>1, <3>1, <3>2
  <2>4. CASE m > 0
    <3>1. iso.fraction[i] = (m \div w) % Base /\ i \in DOMAIN iso.fraction
      BY <1>8, <2>1, <2>4
    <3> QED
      BY <2>1, <2>2, <2>3, <3>1 DEF Digit
  <2>5. CASE ~(m > 0)
    <3>1. Digit(iso.fraction, i) = 0
      BY <1>8, <2>5 DEF Digit
    <3>2. r = 0
      <4>1. ~(0 < r)
        <5>1. 0 < r => 0 * w + w <= r * w
          BY <2>1, OneMoreTime
        <5>2. r * w \in Nat
          BY <2>1, ProductOfNaturals
        <5> QED
          BY <2>1, <2>5, <5>1, <5>2
      <4> QED
        BY <2>1, <4>1
    <3>3. Base * s \in Nat
      BY <1>1, <2>1, ProductOfNaturals
    <3>4. d = 0
      BY <2>1, <3>2, <3>3
    <3> QED
      BY <2>1, <3>1, <3>4
  <2> QED
    BY <2>4, <2>5
<1> QED
  BY Zenon, <1>0, <1>8, <1>9

(* What a text says arrives, as far as the types are wide: numbers and      *)
(* times, for every width, base and precision.                              *)
THEOREM ValuesDoSurvive ==
  ASSUME Doubling, Shifting
  PROVE  Spec => []ValuesSurvive
<1> DEFINE Moment == kind = "time" => input.second \in Nat /\ input.fraction \in Fractions
<1>1. Init => Moment
  BY DEF Init
<1>2. Moment /\ [Next]_vars => Moment'
  BY DEF Next, vars, List, Fetch, Body, Patch, NumberText, Timestamp, Done, Take
<1>3. Moment => TimesSurvive
  BY Zenon, TimestampSurvives DEF TimesSurvive
<1>4. Spec => []NumbersSurvive
  BY NumbersKeepTheirValue
<1>5. NumbersSurvive /\ TimesSurvive => ValuesSurvive
  BY DEF ValuesSurvive
<1> QED
  BY <1>1, <1>2, <1>3, <1>4, <1>5, PTL DEF Spec
=============================================================================
