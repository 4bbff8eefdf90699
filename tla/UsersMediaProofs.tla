-------------------------- MODULE UsersMediaProofs --------------------------
(* Theorems about UsersMedia for every number of requests, users and names. *)
EXTENDS UsersMedia, TLAPS

(* What a request's step says of its kind, user and name: only an update    *)
(* with a picture stores, and from the opening of its file on it has a      *)
(* generated name, which no other request has.                              *)
Storing == {"store", "open", "write", "rename"}

StepsAgree ==
  \A r \in Requests :
    /\ pc[r] \in Storing => op[r] = "picture"
    /\ pc[r] = "ready" => op[r] \in {"picture", "remove"}
    /\ pc[r] # "idle" /\ op[r] # "create" => user[r] \in Users
    /\ pc[r] \in {"write", "rename"} => name[r] \in Names
    /\ pc[r] = "sql" /\ op[r] = "picture" => name[r] \in Names
    /\ pc[r] = "sql" /\ op[r] = "empty" => name[r] = ClientName
    /\ r \in alone => pc[r] # "idle" /\ op[r] \in MediaOps

Shape == TypeOK /\ StepsAgree

(* What writing and renaming make of a file.                                *)
LEMMA FileSteps ==
  \A f \in Files :
    /\ Written(f) \in Files /\ Written(f).name = f.name
    /\ Written(f).temp = f.temp /\ Written(f).whole
    /\ Renamed(f) \in Files /\ Renamed(f).name = f.name
    /\ ~Renamed(f).temp /\ Renamed(f).whole = f.whole
  BY DEF Files, Written, Renamed

(* The file a store opens has a fresh name and is temporary and unfinished. *)
LEMMA OpenedFile ==
  ASSUME NEW r \in Requests, OpenTemp(r)
  PROVE  \E n \in Names, f \in Files :
           /\ Fresh(n)
           /\ f.name = n /\ f.temp /\ ~f.whole
           /\ name' = [name EXCEPT ![r] = n]
           /\ files' = [files EXCEPT ![user[r]] = @ \cup {f}]
           /\ user[r] \in dirs /\ UNCHANGED dirs
<1>1. PICK n \in Names :
        /\ Fresh(n)
        /\ name' = [name EXCEPT ![r] = n]
        /\ files' = [files EXCEPT ![user[r]] =
                       @ \cup {[name |-> n, temp |-> TRUE, whole |-> FALSE]}]
  BY DEF OpenTemp, Put
<1> DEFINE f == [name |-> n, temp |-> TRUE, whole |-> FALSE]
<1>2. f \in Files /\ f.name = n /\ f.temp /\ ~f.whole
  BY DEF Files
<1> HIDE DEF f
<1> QED
  BY <1>1, <1>2 DEF f, OpenTemp

(* A request that goes on to another step, with another name or the same.   *)
LEMMA GotoShape ==
  ASSUME Shape, NEW r \in Requests, NEW step \in Steps \ {"idle"}, NEW n \in Pictures,
         pc[r] # "idle", Goto(r, step), UNCHANGED alone, name' = [name EXCEPT ![r] = n],
         step \in Storing => op[r] = "picture",
         step # "ready",
         step \in {"write", "rename"} => n \in Names,
         step = "sql" /\ op[r] = "picture" => n \in Names,
         step = "sql" => op[r] \in {"picture", "remove"}
  PROVE  /\ StepsAgree'
         /\ pc' \in [Requests -> Steps] /\ op' \in [Requests -> Ops]
         /\ user' \in [Requests -> Users \cup {Nobody}]
         /\ name' \in [Requests -> Pictures]
  BY DEF Shape, TypeOK, StepsAgree, Goto, Storing, Steps, Ops, MediaOps

(* A request that ends.                                                     *)
Ends(r) == \E outcome \in Outcomes : End(r, outcome)

LEMMA EndShape ==
  ASSUME Shape, NEW r \in Requests, Ends(r)
  PROVE  /\ StepsAgree'
         /\ pc' \in [Requests -> Steps] /\ op' \in [Requests -> Ops]
         /\ user' \in [Requests -> Users \cup {Nobody}]
         /\ name' \in [Requests -> Pictures]
         /\ alone' \subseteq Requests /\ settled' \in [Users -> Outcomes]
  BY DEF Shape, TypeOK, StepsAgree, Ends, End, Storing, Steps, Ops, Pictures, MediaOps

(* The steps by which requests end, one way or the other.                   *)
LEMMA StepsThatEnd ==
  ASSUME NEW r \in Requests
  PROVE  /\ ClearFails(r) \/ Reject(r) \/ OpenFails(r) \/ StoreFails(r) \/ CleanUpFails(r)
               => Ends(r) /\ UNCHANGED <<row, limbo, dirs>>
         /\ SqlOk(r) \/ SqlRefused(r) \/ SqlUncertain(r)
               => Ends(r) /\ UNCHANGED <<media, littered>> /\ pc[r] = "sql"
  BY DEF ClearFails, Reject, OpenFails, StoreFails, CleanUpFails, SqlOk, SqlRefused,
     SqlUncertain, Fail, Ends, Outcomes, Success, Failure, media

(* Every step keeps the types and what steps say of requests.               *)
LEMMA ShapeStep ==
  ASSUME Shape, [Next]_vars
  PROVE  Shape'
<1> USE DEF Shape, media, request, history
<1>1. ASSUME NEW r \in Requests, NEW o \in Ops, NEW u \in Users \cup {Nobody},
             NEW step \in {"ready", "sql"}, Begin(r, o, u, step),
             step = "ready" => o \in {"picture", "remove"}, o # "create" => u \in Users,
             step = "sql" => o # "picture",
             alone' \subseteq alone \cup {r}, r \in alone' => o \in MediaOps \/ r \in alone,
             settled' \in [Users -> Outcomes]
      PROVE  Shape'
  BY <1>1 DEF Begin, TypeOK, StepsAgree, Storing, Steps, Ops, Pictures, MediaOps
<1>2. ASSUME NEW r \in Requests, StartCreate(r)
      PROVE  Shape'
  BY <1>1, <1>2 DEF StartCreate, TypeOK, Ops
<1>3. ASSUME NEW u \in Users, NEW r \in Requests, Overlap(r, u)
      PROVE  alone' \subseteq alone \cup {r} /\ settled' \in [Users -> Outcomes]
  BY <1>3 DEF Overlap, TypeOK, Outcomes
<1>4. ASSUME NEW r \in Requests, NEW o \in Ops, NEW u \in Users, StartUpdate(r, o, u)
      PROVE  Shape'
  BY <1>1, <1>3, <1>4 DEF StartUpdate, TypeOK, MediaOps
<1>5. ASSUME NEW r \in Requests, NEW u \in Users, StartRemove(r, u)
      PROVE  Shape'
  BY <1>1, <1>3, <1>5 DEF StartRemove, Ops, MediaOps
<1>6. ASSUME NEW r \in Requests,
             \/ ClearFails(r) \/ Reject(r) \/ OpenFails(r)
             \/ StoreFails(r) \/ CleanUpFails(r)
      PROVE  Shape'
  <2>1. Ends(r) /\ UNCHANGED <<row, limbo, dirs>>
    BY <1>6, StepsThatEnd
  <2>2. files' \in [Users -> SUBSET Files]
    BY <1>6 DEF ClearFails, Reject, OpenFails, StoreFails, CleanUpFails, RemoveTemp, TypeOK
  <2>3. \A u \in Users : files'[u] # {} => files[u] # {}
    BY <1>6 DEF ClearFails, Reject, OpenFails, StoreFails, CleanUpFails, RemoveTemp, TypeOK
  <2>4. littered' \in BOOLEAN
    BY <1>6 DEF ClearFails, Reject, OpenFails, StoreFails, CleanUpFails, TypeOK
  <2> QED
    BY <2>1, <2>2, <2>3, <2>4, EndShape DEF TypeOK
<1>7. ASSUME NEW r \in Requests, ClearSkipped(r)
      PROVE  Shape'
  <2> USE DEF TypeOK
  <2>1. TypeOK'
    BY <1>7 DEF ClearSkipped, Goto, Steps
  <2>2. StepsAgree'
    BY <1>7 DEF ClearSkipped, Goto, StepsAgree, Storing, MediaOps
  <2> QED
    BY <2>1, <2>2
<1>8. ASSUME NEW r \in Requests, Clear(r)
      PROVE  Shape'
  <2>1. PICK step \in {"store", "sql"} :
          Goto(r, step) /\ (step = "store" <=> op[r] = "picture")
    BY <1>8 DEF Clear
  <2>2. name' = [name EXCEPT ![r] = name[r]] /\ name[r] \in Pictures
    BY <1>8 DEF Clear, TypeOK
  <2>3. /\ StepsAgree'
        /\ pc' \in [Requests -> Steps] /\ op' \in [Requests -> Ops]
        /\ user' \in [Requests -> Users \cup {Nobody}]
        /\ name' \in [Requests -> Pictures]
    BY <1>8, <2>1, <2>2, GotoShape DEF Clear, Storing, Steps, StepsAgree
  <2>4. /\ dirs' \subseteq Users /\ files' \in [Users -> SUBSET Files]
        /\ \A u \in Users : files'[u] # {} => u \in dirs'
    BY <1>8 DEF Clear, TypeOK
  <2> QED
    BY <1>8, <2>3, <2>4 DEF Clear, TypeOK
<1>9. ASSUME NEW r \in Requests, MakeDir(r) \/ OpenTemp(r) \/ Write(r) \/ Rename(r)
      PROVE  Shape'
  <2>1. user[r] \in Users /\ op[r] = "picture" /\ pc[r] # "idle"
    BY <1>9 DEF MakeDir, OpenTemp, Write, Rename, StepsAgree, Storing
  <2>2. PICK step \in {"open", "write", "rename", "sql"}, n \in Pictures :
          /\ Goto(r, step) /\ name' = [name EXCEPT ![r] = n]
          /\ step # "open" => n \in Names
    <3>1. CASE MakeDir(r)
      <4>1. name' = [name EXCEPT ![r] = name[r]] /\ name[r] \in Pictures
        BY <3>1 DEF MakeDir, TypeOK
      <4> QED
        BY <3>1, <4>1 DEF MakeDir
    <3>2. CASE OpenTemp(r)
      BY <3>2 DEF OpenTemp, Pictures
    <3>3. CASE Write(r) \/ Rename(r)
      <4>1. name' = [name EXCEPT ![r] = name[r]] /\ name[r] \in Names
        BY <3>3 DEF Write, Rename, TypeOK, StepsAgree
      <4> QED
        BY <3>3, <4>1 DEF Write, Rename, Pictures
    <3> QED
      BY <1>9, <3>1, <3>2, <3>3
  <2>3. /\ StepsAgree'
        /\ pc' \in [Requests -> Steps] /\ op' \in [Requests -> Ops]
        /\ user' \in [Requests -> Users \cup {Nobody}]
        /\ name' \in [Requests -> Pictures]
    BY <1>9, <2>1, <2>2, GotoShape DEF Storing, Steps, MakeDir, OpenTemp, Write, Rename
  <2>4. dirs' \subseteq Users /\ files' \in [Users -> SUBSET Files]
    <3>1. CASE MakeDir(r)
      BY <2>1, <3>1 DEF MakeDir, TypeOK
    <3>2. CASE OpenTemp(r)
      BY <2>1, <3>2, OpenedFile DEF TypeOK
    <3>3. CASE Write(r) \/ Rename(r)
      BY <2>1, <3>3, FileSteps DEF Write, Rename, TempOf, TypeOK
    <3> QED
      BY <1>9, <3>1, <3>2, <3>3
  <2>5. \A u \in Users : files'[u] # {} => u \in dirs'
    <3>1. CASE MakeDir(r)
      BY <2>1, <3>1 DEF MakeDir, TypeOK
    <3>2. CASE OpenTemp(r)
      BY <2>1, <3>2, OpenedFile DEF TypeOK
    <3>3. CASE Write(r) \/ Rename(r)
      BY <2>1, <3>3, FileSteps DEF Write, Rename, TempOf, TypeOK
    <3> QED
      BY <1>9, <3>1, <3>2, <3>3
  <2> QED
    BY <1>9, <2>3, <2>4, <2>5 DEF MakeDir, OpenTemp, Write, Rename, TypeOK
<1>10. ASSUME NEW r \in Requests, SqlOk(r) \/ SqlUncertain(r) \/ SqlRefused(r)
       PROVE  Shape'
  <2>1. Ends(r) /\ UNCHANGED <<media, littered>> /\ pc[r] = "sql"
    BY <1>10, StepsThatEnd
  <2>2. row' \in [Users -> {"unborn", "gone"} \cup Pictures]
    <3>1. UNCHANGED row \/ Execute(r)
      BY <1>10 DEF SqlOk, SqlUncertain, SqlRefused
    <3>2. name[r] \in Pictures
      BY DEF TypeOK
    <3> QED
      BY <3>1, <3>2 DEF Execute, Insert, Update, Delete, SetRow, TypeOK, Pictures
  <2>3. limbo' \subseteq Users \X (Names \cup {ClientName, "gone"})
    BY <1>10 DEF SqlOk, SqlUncertain, SqlRefused, Statement, MediaOps, TypeOK, StepsAgree
  <2> QED
    BY <2>1, <2>2, <2>3, EndShape DEF TypeOK
<1>11. CASE SqlLate
  <2>1. PICK l \in limbo : /\ limbo' = limbo \ {l}
                           /\ SetRow(l[1], l[2])
                           /\ settled' = [settled EXCEPT ![l[1]] = "disturbed"]
                           /\ alone' = alone \ Pending(l[1])
    BY <1>11 DEF SqlLate
  <2>2. l[2] \in Pictures \cup {"gone"}
    BY DEF TypeOK, Pictures
  <2>3. row' \in [Users -> {"unborn", "gone"} \cup Pictures]
    BY <2>1, <2>2 DEF SetRow, TypeOK
  <2>4. settled' \in [Users -> Outcomes]
    BY <2>1 DEF TypeOK, Outcomes
  <2> QED
    BY <1>11, <2>1, <2>3, <2>4 DEF SqlLate, TypeOK, StepsAgree
<1>12. CASE Kill
  <2>1. limbo' \subseteq Users \X (Names \cup {ClientName, "gone"})
    BY <1>12 DEF Kill, Statement, MediaOps, TypeOK, StepsAgree
  <2> QED
    BY <1>12, <2>1 DEF Kill, TypeOK, StepsAgree, Storing, Steps, Ops, Pictures
<1>13. CASE UNCHANGED vars
  BY <1>13 DEF vars, TypeOK, StepsAgree
<1> QED
  BY <1>2, <1>4, <1>5, <1>6, <1>7, <1>8, <1>9, <1>10, <1>11, <1>12, <1>13 DEF Next

(* Types, and what a request's step says of its kind, user and name, hold   *)
(* throughout.                                                              *)
LEMMA ShapeInvariant == Spec => []Shape
<1>1. Init => Shape
  <2> SUFFICES ASSUME Init PROVE TypeOK /\ StepsAgree
    BY DEF Shape
  <2>1. TypeOK
    BY DEF Init, TypeOK, Steps, Ops, Pictures, Outcomes
  <2>2. StepsAgree
    BY DEF Init, StepsAgree, Storing
  <2> QED
    BY <2>1, <2>2
<1>2. Shape /\ [Next]_vars => Shape'
  BY ShapeStep
<1> QED
  BY <1>1, <1>2, PTL DEF Spec
-----------------------------------------------------------------------------
(* A generated name is of one request only, from the opening of the file on;*)
(* until the statement no row has it, nor will one get it.                  *)
NamesUnique ==
  /\ \A r \in Requests : name[r] \in Names => pc[r] \in {"write", "rename", "sql"}
  /\ \A r, q \in Requests : r # q /\ name[r] \in Names => name[q] # name[r]

Unnamed ==
  \A r \in Requests : pc[r] \in {"write", "rename"} =>
    \A u \in Users : row[u] # name[r] /\ <<u, name[r]>> \notin limbo

WrittenBeforeRenamed ==
  \A r \in Requests : pc[r] = "rename" => \A f \in TempOf(r) : f.whole

(* A lone request is the only one under way on its user's picture, and on   *)
(* one whose last change has settled there is none. So what a lone request  *)
(* has done to the directory is all that was done.                          *)
Undisturbed ==
  /\ \A r \in alone : Pending(user[r]) = {r}
  /\ \A u \in Users : settled[u] # "disturbed" => Pending(u) = {}

FileOf(r) == [name |-> name[r], temp |-> pc[r] # "sql", whole |-> pc[r] # "write"]

LoneFiles(r) ==
  /\ pc[r] \in {"store", "open"} => files[user[r]] = {}
  /\ pc[r] \in {"write", "rename", "sql"} /\ op[r] = "picture" =>
       files[user[r]] = {FileOf(r)}
  /\ pc[r] = "sql" /\ op[r] = "remove" => files[user[r]] = {}

LoneDirectory == \A r \in alone : LoneFiles(r)
-----------------------------------------------------------------------------
(* Names: OpenTemp takes one that nothing refers to.                        *)
LEMMA NamesStep ==
  ASSUME Shape, NamesUnique, [Next]_vars
  PROVE  NamesUnique'
<1> USE MediaAssumption DEF Shape, NamesUnique
<1>1. ASSUME NEW r \in Requests, NEW o \in Ops, NEW u \in Users \cup {Nobody},
             NEW step \in Steps, Begin(r, o, u, step)
      PROVE  NamesUnique'
  BY <1>1 DEF Begin, TypeOK
<1>2. ASSUME NEW r \in Requests,
             \/ StartCreate(r)
             \/ \E o \in Ops, u \in Users : StartUpdate(r, o, u)
             \/ \E u \in Users : StartRemove(r, u)
      PROVE  NamesUnique'
  BY <1>1, <1>2 DEF StartCreate, StartUpdate, StartRemove, Steps, Ops
<1>3. ASSUME NEW r \in Requests,
             Clear(r) \/ ClearSkipped(r) \/ MakeDir(r) \/ Write(r) \/ Rename(r)
      PROVE  NamesUnique'
  BY <1>3 DEF Clear, ClearSkipped, MakeDir, Write, Rename, Goto, TypeOK
<1>4. ASSUME NEW r \in Requests, OpenTemp(r)
      PROVE  NamesUnique'
  BY <1>4 DEF OpenTemp, Goto, Fresh, TypeOK
<1>5. ASSUME NEW r \in Requests, Ends(r)
      PROVE  NamesUnique'
  BY <1>5 DEF Ends, End, TypeOK
<1>6. ASSUME SqlLate \/ UNCHANGED vars
      PROVE  NamesUnique'
  BY <1>6 DEF SqlLate, vars, request
<1>7. CASE Kill
  BY <1>7 DEF Kill
<1> QED
  BY <1>2, <1>3, <1>4, <1>5, <1>6, <1>7, StepsThatEnd DEF Next

(* A name is written to a row by its own request, or by a statement of a    *)
(* request that is long gone.                                               *)
LEMMA UnnamedStep ==
  ASSUME Shape, NamesUnique, Unnamed, [Next]_vars
  PROVE  Unnamed'
<1> USE MediaAssumption DEF Shape, Unnamed
<1>1. ASSUME NEW r \in Requests, NEW o \in Ops, NEW u \in Users \cup {Nobody},
             NEW step \in {"ready", "sql"}, Begin(r, o, u, step)
      PROVE  Unnamed'
  BY <1>1 DEF Begin, TypeOK
<1>2. ASSUME NEW r \in Requests,
             \/ StartCreate(r)
             \/ \E o \in Ops, u \in Users : StartUpdate(r, o, u)
             \/ \E u \in Users : StartRemove(r, u)
      PROVE  Unnamed'
  BY <1>1, <1>2 DEF StartCreate, StartUpdate, StartRemove, Ops
<1>3. ASSUME NEW r \in Requests,
             Clear(r) \/ ClearSkipped(r) \/ MakeDir(r) \/ Write(r) \/ Rename(r)
      PROVE  Unnamed'
  BY <1>3 DEF Clear, ClearSkipped, MakeDir, Write, Rename, Goto, TypeOK
<1>4. ASSUME NEW r \in Requests, OpenTemp(r)
      PROVE  Unnamed'
  BY <1>4 DEF OpenTemp, Goto, Fresh, TypeOK
<1>5. ASSUME NEW r \in Requests, Ends(r), UNCHANGED <<row, limbo>>
      PROVE  Unnamed'
  BY <1>5 DEF Ends, End, TypeOK
<1>6. ASSUME NEW r \in Requests, SqlOk(r) \/ SqlRefused(r) \/ SqlUncertain(r)
      PROVE  Unnamed'
  <2>1. \A q \in Requests : pc'[q] \in {"write", "rename"} =>
          /\ pc[q] \in {"write", "rename"} /\ q # r
          /\ name'[q] = name[q] /\ name[q] \in Names /\ name[r] # name[q]
    BY <1>6, StepsThatEnd DEF Ends, End, TypeOK, StepsAgree, NamesUnique
  <2>2. \A u \in Users :
          row'[u] \in {row[u], NoPicture, "gone", name[r]}
    BY <1>6 DEF SqlOk, SqlRefused, SqlUncertain, Execute, Insert, Update, Delete, SetRow,
       TypeOK
  <2>3. \A l \in limbo' : l \in limbo \/ l = Statement(r)
    BY <1>6 DEF SqlOk, SqlRefused, SqlUncertain
  <2>4. Statement(r)[2] \in {name[r], "gone"}
    BY DEF Statement
  <2> QED
    BY <2>1, <2>2, <2>3, <2>4
<1>7. CASE SqlLate
  <2>1. PICK l \in limbo : limbo' = limbo \ {l} /\ SetRow(l[1], l[2])
    BY <1>7 DEF SqlLate
  <2>2. l = <<l[1], l[2]>> /\ l[1] \in Users
    BY DEF TypeOK
  <2>3. \A u \in Users : row'[u] = row[u] \/ (row'[u] = l[2] /\ u = l[1])
    BY <2>1, <2>2 DEF SetRow, TypeOK
  <2>4. UNCHANGED <<pc, name>>
    BY <1>7 DEF SqlLate, request
  <2> QED
    BY <2>1, <2>2, <2>3, <2>4
<1>8. CASE Kill
  BY <1>8 DEF Kill
<1>9. CASE UNCHANGED vars
  BY <1>9 DEF vars, request
<1> QED
  BY <1>2, <1>3, <1>4, <1>5, <1>6, <1>7, <1>8, <1>9, StepsThatEnd DEF Next
-----------------------------------------------------------------------------
(* Files: how each step changes the directories.                            *)

Failing(r) ==
  ClearFails(r) \/ Reject(r) \/ OpenFails(r) \/ StoreFails(r) \/ CleanUpFails(r)
Removing(r) == Clear(r) \/ ClearSkipped(r) \/ Failing(r)
Starting(r) ==
  \/ StartCreate(r)
  \/ \E o \in Ops, u \in Users : StartUpdate(r, o, u)
  \/ \E u \in Users : StartRemove(r, u)
Querying(r) == SqlOk(r) \/ SqlRefused(r) \/ SqlUncertain(r)

(* Of the steps of a request, opening, writing and renaming touch the files *)
(* of its own name, some only remove files of its user, and the rest leave  *)
(* all as they are.                                                         *)
LEMMA FilesStep ==
  ASSUME Shape, NEW r \in Requests
  PROVE  /\ Removing(r) => /\ \A u \in Users : files'[u] \subseteq files[u]
                           /\ \A u \in Users \ {user[r]} : files'[u] = files[u]
         /\ Starting(r) \/ MakeDir(r) \/ Querying(r) => UNCHANGED files
         /\ Write(r) => files' = [files EXCEPT ![user[r]] =
                          (@ \ TempOf(r)) \cup {Written(f) : f \in TempOf(r)}]
         /\ Rename(r) => files' = [files EXCEPT ![user[r]] =
                           (@ \ TempOf(r)) \cup {Renamed(f) : f \in TempOf(r)}]
         /\ SqlLate \/ Kill \/ UNCHANGED vars => UNCHANGED files
<1>1. ASSUME Removing(r)
      PROVE  /\ \A u \in Users : files'[u] \subseteq files[u]
             /\ \A u \in Users \ {user[r]} : files'[u] = files[u]
  BY <1>1 DEF Removing, Failing, Clear, ClearSkipped, ClearFails, OpenFails, StoreFails,
     CleanUpFails, Reject, RemoveTemp, media, Shape, TypeOK
<1>2. Starting(r) \/ MakeDir(r) \/ Querying(r) => UNCHANGED files
  BY DEF Starting, StartCreate, StartUpdate, StartRemove, Begin, MakeDir, Querying,
     SqlOk, SqlRefused, SqlUncertain, media
<1> QED
  BY <1>1, <1>2 DEF Write, Rename, SqlLate, Kill, vars, media

(* The steps of a request.                                                  *)
StepOf(r) ==
  \/ Removing(r) \/ Starting(r) \/ Querying(r)
  \/ MakeDir(r) \/ OpenTemp(r) \/ Write(r) \/ Rename(r)

(* A step is one request's, a late statement or the end of the process.     *)
LEMMA NextSteps == Next <=> (\E r \in Requests : StepOf(r)) \/ SqlLate \/ Kill
  BY DEF Next, StepOf, Removing, Failing, Starting, Querying

(* A file that was not there before is of the request that made the step,   *)
(* and as finished as the request's step says.                              *)
LEMMA FilesAppear ==
  ASSUME Shape, NEW r \in Requests, StepOf(r),
         NEW u \in Users, NEW f \in files'[u], f \notin files[u]
  PROVE  /\ u = user[r] /\ user'[r] = u /\ f.name = name'[r]
         /\ \/ OpenTemp(r) /\ f.temp /\ pc'[r] = "write"
            \/ Write(r) /\ f.temp /\ f.whole /\ pc'[r] = "rename"
            \/ Rename(r) /\ ~f.temp /\ \E g \in TempOf(r) : f.whole = g.whole
<1> USE DEF Shape, TypeOK
<1>1. ~(Removing(r) \/ Starting(r) \/ MakeDir(r) \/ Querying(r))
  BY FilesStep
<1>2. user[r] \in Users
  BY <1>1 DEF StepOf, OpenTemp, Write, Rename, StepsAgree, Storing
<1>3. CASE OpenTemp(r)
  <2>1. pc'[r] = "write" /\ user'[r] = user[r]
    BY <1>3 DEF OpenTemp, Goto
  <2> QED
    BY <1>2, <1>3, <2>1, OpenedFile
<1>4. \A g \in TempOf(r) : g \in Files /\ g.name = name[r] /\ g.temp
  BY <1>2 DEF TempOf
<1>5. CASE Write(r)
  BY <1>2, <1>4, <1>5, FileSteps DEF Write, Goto
<1>6. CASE Rename(r)
  BY <1>2, <1>4, <1>6, FileSteps DEF Rename, Goto
<1> QED
  BY <1>1, <1>3, <1>5, <1>6 DEF StepOf

(* What a step does to the requests that do not make it: nothing.           *)
LEMMA OthersKeep ==
  ASSUME Shape, NEW r \in Requests, StepOf(r), NEW q \in Requests, q # r
  PROVE  UNCHANGED <<pc[q], op[q], user[q], name[q]>>
<1> USE DEF Shape, TypeOK
<1>1. CASE Starting(r)
  BY <1>1 DEF Starting, StartCreate, StartUpdate, StartRemove, Begin
<1>2. CASE Ends(r)
  BY <1>2 DEF Ends, End
<1>3. CASE Clear(r) \/ ClearSkipped(r) \/ MakeDir(r) \/ OpenTemp(r) \/ Write(r) \/ Rename(r)
  BY <1>3 DEF Clear, ClearSkipped, MakeDir, OpenTemp, Write, Rename, Goto
<1> QED
  BY <1>1, <1>2, <1>3, StepsThatEnd DEF StepOf, Removing, Failing, Querying

(* A file that a request is about to rename has been written: only it finds *)
(* files of its name.                                                       *)
LEMMA WrittenStep ==
  ASSUME Shape, NamesUnique, WrittenBeforeRenamed, [Next]_vars
  PROVE  WrittenBeforeRenamed'
<1> USE DEF Shape
<1>1. SUFFICES ASSUME NEW q \in Requests, pc'[q] = "rename",
                      NEW f \in files'[user'[q]], f.name = name'[q], f.temp
               PROVE  f.whole
  BY DEF WrittenBeforeRenamed, TempOf
<1>2. CASE SqlLate \/ UNCHANGED vars
  <2>1. UNCHANGED <<files, pc, user, name>>
    BY <1>2, FilesStep DEF SqlLate, vars, media, request
  <2> QED
    BY <1>1, <2>1 DEF WrittenBeforeRenamed, TempOf
<1>3. CASE Kill
  BY <1>1, <1>3 DEF Kill
<1>4. ASSUME NEW r \in Requests, StepOf(r)
      PROVE  f.whole
  <2>1. Shape'
    BY ShapeStep
  <2>2. user'[q] \in Users /\ name'[q] \in Names
    BY <1>1, <2>1 DEF StepsAgree, Storing
  <2>3. CASE q # r
    <3>1. UNCHANGED <<pc[q], op[q], user[q], name[q]>>
      BY <1>4, <2>3, OthersKeep
    <3>2. NamesUnique'
      BY NamesStep
    <3>3. f \in files[user[q]]
      BY <1>1, <1>4, <2>2, <2>3, <3>1, <3>2, FilesAppear DEF NamesUnique
    <3> QED
      BY <1>1, <3>1, <3>3 DEF WrittenBeforeRenamed, TempOf
  <2>4. CASE q = r
    <3>1. Write(r)
      BY <1>1, <1>4, <2>4, StepsThatEnd DEF StepOf, Removing, Failing, Starting, Querying,
         Write, StartCreate, StartUpdate, StartRemove, Begin, Clear, ClearSkipped, Ends, End,
         Goto, MakeDir, OpenTemp, Rename, TypeOK
    <3>2. UNCHANGED <<user, name>>
      BY <3>1 DEF Write, Goto
    <3>3. f \in Files /\ files' = [files EXCEPT ![user[q]] =
                          (@ \ TempOf(r)) \cup {Written(g) : g \in TempOf(r)}]
      BY <1>1, <2>1, <2>2, <2>4, <3>1, FilesStep DEF TypeOK
    <3>4. \A g \in TempOf(r) : g \in Files
      BY <2>2, <2>4, <3>2 DEF TypeOK, TempOf
    <3> QED
      BY <1>1, <2>2, <2>4, <3>2, <3>3, <3>4, FileSteps DEF TempOf, TypeOK
  <2> QED
    BY <2>3, <2>4
<1> QED
  BY <1>2, <1>3, <1>4, NextSteps

(* Only a rename makes a final file, and only of a temporary file that has  *)
(* been written.                                                            *)
LEMMA FinalStep ==
  ASSUME Shape, WrittenBeforeRenamed, FinalFilesWhole, [Next]_vars
  PROVE  FinalFilesWhole'
<1> SUFFICES ASSUME NEW u \in Users, NEW f \in files'[u]
             PROVE  f.temp \/ f.whole
  BY DEF FinalFilesWhole
<1>1. CASE f \in files[u]
  BY <1>1 DEF FinalFilesWhole
<1>2. ASSUME NEW r \in Requests, StepOf(r), f \notin files[u]
      PROVE  f.temp \/ f.whole
  BY <1>2, FilesAppear DEF Rename, WrittenBeforeRenamed
<1>3. CASE SqlLate \/ Kill \/ UNCHANGED vars
  BY <1>1, <1>3 DEF SqlLate, Kill, vars, media
<1> QED
  BY <1>1, <1>2, <1>3, NextSteps

(* A store that fails or renames takes its temporary file along.            *)
LEMMA OwnedStep ==
  ASSUME Shape, TempsOwned, [Next]_vars
  PROVE  TempsOwned'
<1> SUFFICES ASSUME ~littered', NEW u \in Users, NEW f \in files'[u], f.temp
             PROVE  \E r \in Requests : user'[r] = u /\ name'[r] = f.name
                                           /\ pc'[r] \in {"write", "rename"}
  BY DEF TempsOwned
<1>1. CASE SqlLate \/ UNCHANGED vars
  BY <1>1 DEF SqlLate, vars, media, request, history, TempsOwned
<1>2. CASE Kill
  BY <1>2 DEF Kill
<1>3. ASSUME NEW r \in Requests, StepOf(r)
      PROVE  \E q \in Requests : user'[q] = u /\ name'[q] = f.name
                                    /\ pc'[q] \in {"write", "rename"}
  <2>1. CASE f \notin files[u]
    BY <1>3, <2>1, FilesAppear
  <2>2. CASE f \in files[u]
    <3>1. ~littered /\ ~CleanUpFails(r)
      BY <1>3 DEF StepOf, Removing, Failing, Starting, Querying, Write, StartCreate,
         StartUpdate, StartRemove, Begin, Clear, ClearSkipped, ClearFails, Reject, OpenFails,
         StoreFails, CleanUpFails, SqlOk, SqlRefused, SqlUncertain, MakeDir, OpenTemp,
         Rename, history
    <3>2. PICK q \in Requests : /\ user[q] = u /\ name[q] = f.name
                                /\ pc[q] \in {"write", "rename"}
      BY <2>2, <3>1 DEF TempsOwned
    <3>3. CASE q # r
      BY <1>3, <3>2, <3>3, OthersKeep
    <3>4. CASE q = r
      <4>1. f \in TempOf(r)
        BY <2>2, <3>2, <3>4 DEF TempOf
      <4>2. Write(r) \/ StoreFails(r) \/ Rename(r)
        BY <1>3, <3>1, <3>2, <3>4 DEF StepOf, Removing, Failing, Starting, Querying,
           StartCreate, StartUpdate, StartRemove, Begin, Clear, ClearSkipped, ClearFails,
           Reject, OpenFails, SqlOk, SqlRefused, SqlUncertain, MakeDir, OpenTemp
      <4>3. ~StoreFails(r)
        BY <3>2, <3>4, <4>1 DEF StoreFails, RemoveTemp, Shape, TypeOK
      <4>4. ~Rename(r)
        <5>1. \A g \in TempOf(r) : g \in Files
          BY <3>2, <3>4 DEF TempOf, Shape, TypeOK
        <5> QED
          BY <3>2, <3>4, <4>1, <5>1, FilesStep, FileSteps DEF Shape, TypeOK
      <4> QED
        BY <3>2, <3>4, <4>2, <4>3, <4>4 DEF Write, Goto, Shape, TypeOK
    <3> QED
      BY <3>3, <3>4
  <2> QED
    BY <2>1, <2>2
<1> QED
  BY <1>1, <1>2, <1>3, NextSteps
-----------------------------------------------------------------------------
(* What steps do to the requests pending on a user's picture.               *)
LEMMA PendingStep ==
  ASSUME Shape, NEW r \in Requests, NEW u \in Users
  PROVE  /\ \A step \in Steps \ {"idle"} :
              Goto(r, step) /\ pc[r] # "idle" => Pending(u)' = Pending(u)
         /\ Ends(r) => Pending(u)' = Pending(u) \ {r}
         /\ \A o \in Ops, v \in Users \cup {Nobody}, step \in Steps \ {"idle"} :
              Begin(r, o, v, step) =>
                Pending(u)' = IF o \in MediaOps /\ v = u THEN Pending(u) \cup {r}
                                                         ELSE Pending(u)
<1> USE DEF Shape, TypeOK, Pending
<1>1. \A step \in Steps \ {"idle"} :
        Goto(r, step) /\ pc[r] # "idle" => Pending(u)' = Pending(u)
  BY DEF Goto
<1>2. Ends(r) => Pending(u)' = Pending(u) \ {r}
  BY DEF Ends, End
<1>3. ASSUME NEW o \in Ops, NEW v \in Users \cup {Nobody},
             NEW step \in Steps \ {"idle"}, Begin(r, o, v, step)
      PROVE  Pending(u)' = IF o \in MediaOps /\ v = u THEN Pending(u) \cup {r}
                                                      ELSE Pending(u)
  BY <1>3 DEF Begin
<1> QED
  BY <1>1, <1>2, <1>3

(* The overlap of two requests ends their loneliness, and what was settled. *)
LEMMA UndisturbedStep ==
  ASSUME Shape, Undisturbed, [Next]_vars
  PROVE  Undisturbed'
<1> USE MediaAssumption DEF Shape
<1>0. \A r \in alone : /\ r \in Requests /\ user[r] \in Users
                       /\ pc[r] # "idle" /\ op[r] \in MediaOps
  BY DEF TypeOK, StepsAgree, MediaOps
<1>1. ASSUME NEW r \in Requests, NEW o \in MediaOps, NEW u \in Users,
             NEW step \in {"ready", "sql"}, Begin(r, o, u, step), Overlap(r, u)
      PROVE  Undisturbed'
  <2>1. \A v \in Users : Pending(v)' = IF v = u THEN Pending(v) \cup {r} ELSE Pending(v)
    BY <1>1, PendingStep DEF Steps, Ops, MediaOps
  <2>2. \A q \in alone' : q # r => q \in alone /\ user[q] # u /\ user'[q] = user[q]
    <3>1. \A q \in alone' : q # r => q \in alone /\ q \notin Pending(u)
      BY <1>1 DEF Overlap
    <3>2. \A q \in alone : q \in Pending(user[q])
      BY DEF Undisturbed
    <3>3. \A q \in alone : q # r => user'[q] = user[q]
      BY <1>0, <1>1 DEF Begin, TypeOK
    <3> QED
      BY <3>1, <3>2, <3>3
  <2>3. r \in alone' => Pending(u) = {} \/ r \in alone
    BY <1>1 DEF Overlap
  <2>4. r \notin alone
    BY <1>0, <1>1 DEF Begin
  <2>5. user'[r] = u
    BY <1>1 DEF Begin, TypeOK
  <2>6. \A v \in Users : settled'[v] # "disturbed" => v # u /\ settled[v] # "disturbed"
    BY <1>1 DEF Overlap, TypeOK
  <2>7. \A v \in Users : settled'[v] # "disturbed" => Pending(v)' = {}
    BY <2>1, <2>6 DEF Undisturbed
  <2>8. \A q \in alone', v \in Users : user'[q] = v => Pending(v)' = {q}
    BY <1>0, <2>1, <2>2, <2>3, <2>4, <2>5 DEF Undisturbed
  <2>9. \A q \in alone' : user'[q] \in Users
    BY <1>0, <2>2, <2>5
  <2> QED
    BY <2>7, <2>8, <2>9 DEF Undisturbed
<1>2. ASSUME NEW r \in Requests, NEW o \in Ops \ MediaOps, NEW u \in Users \cup {Nobody},
             Begin(r, o, u, "sql"), UNCHANGED <<alone, settled>>
      PROVE  Undisturbed'
  <2>1. \A v \in Users : Pending(v)' = Pending(v)
    BY <1>2, PendingStep DEF Steps
  <2>2. \A q \in alone : user'[q] = user[q]
    BY <1>0, <1>2 DEF Begin, TypeOK
  <2> QED
    BY <1>0, <1>2, <2>1, <2>2 DEF Undisturbed, TypeOK
<1>3. ASSUME NEW r \in Requests, Starting(r)
      PROVE  Undisturbed'
  BY <1>1, <1>2, <1>3 DEF Starting, StartCreate, StartUpdate, StartRemove, Ops, MediaOps
<1>4. ASSUME NEW r \in Requests, NEW step \in Steps \ {"idle"}, Goto(r, step),
             pc[r] # "idle", alone' \subseteq alone, UNCHANGED settled
      PROVE  Undisturbed'
  <2>1. \A v \in Users : Pending(v)' = Pending(v)
    BY <1>4, PendingStep
  <2> QED
    BY <1>0, <1>4, <2>1 DEF Undisturbed, Goto, TypeOK
<1>5. ASSUME NEW r \in Requests,
             \/ Clear(r) \/ ClearSkipped(r) \/ MakeDir(r)
             \/ OpenTemp(r) \/ Write(r) \/ Rename(r)
      PROVE  Undisturbed'
  BY <1>4, <1>5 DEF Clear, ClearSkipped, MakeDir, OpenTemp, Write, Rename, Steps, history
<1>6. ASSUME NEW r \in Requests, Ends(r)
      PROVE  Undisturbed'
  <2>1. \A v \in Users : Pending(v)' = Pending(v) \ {r}
    BY <1>6, PendingStep
  <2>2. \A q \in alone' : q \in alone /\ q # r /\ user'[q] = user[q] /\ q \in Requests
    BY <1>0, <1>6 DEF Ends, End, TypeOK
  <2>3. \A q \in alone' : r \notin Pending(user[q])
    BY <2>2 DEF Undisturbed
  <2>4. \A v \in Users : settled'[v] # "disturbed" => Pending(v) \subseteq {r}
    <3>1. PICK outcome \in Outcomes : End(r, outcome)
      BY <1>6 DEF Ends
    <3>2. \A v \in Users : settled'[v] # settled[v] => r \in alone /\ v = user[r]
      BY <3>1 DEF End, TypeOK
    <3> QED
      BY <3>2 DEF Undisturbed
  <2> QED
    BY <1>0, <2>1, <2>2, <2>3, <2>4 DEF Undisturbed
<1>7. ASSUME NEW r \in Requests, Failing(r) \/ Querying(r)
      PROVE  Undisturbed'
  BY <1>6, <1>7, StepsThatEnd DEF Failing, Querying
<1>8. CASE SqlLate
  <2>1. /\ alone' \subseteq alone /\ UNCHANGED <<pc, op, user>>
        /\ \A v \in Users : settled'[v] # "disturbed" => settled[v] # "disturbed"
    BY <1>8 DEF SqlLate, request, TypeOK
  <2> QED
    BY <2>1 DEF Undisturbed, Pending
<1>9. CASE Kill
  BY <1>9 DEF Kill, Undisturbed, Pending
<1>10. CASE UNCHANGED vars
  BY <1>10 DEF vars, request, history, Undisturbed, Pending
<1> QED
  BY <1>3, <1>5, <1>7, <1>8, <1>9, <1>10, NextSteps DEF StepOf, Removing
-----------------------------------------------------------------------------
(* Whoever changes the files of a user is pending on that user's picture.   *)
LEMMA PendingTouch ==
  ASSUME Shape, NEW r \in Requests, StepOf(r), NEW u \in Users, files'[u] # files[u]
  PROVE  r \in Pending(u)
<1> USE DEF Shape
<1>1. CASE Removing(r)
  <2>1. u = user[r]
    BY <1>1, FilesStep
  <2>2. pc[r] \in {"ready"} \cup Storing
    BY <1>1 DEF Removing, Failing, Clear, ClearSkipped, ClearFails, Reject, OpenFails,
       StoreFails, CleanUpFails, Storing
  <2> QED
    BY <2>1, <2>2 DEF Pending, StepsAgree, MediaOps, Storing
<1>2. CASE OpenTemp(r)
  <2>1. pc[r] = "open" /\ u = user[r]
    BY <1>2, OpenedFile DEF OpenTemp, TypeOK
  <2> QED
    BY <2>1 DEF Pending, StepsAgree, MediaOps, Storing
<1>3. CASE Write(r) \/ Rename(r)
  <2>1. pc[r] \in {"write", "rename"} /\ u = user[r]
    BY <1>3, FilesStep DEF Write, Rename, TypeOK
  <2> QED
    BY <2>1 DEF Pending, StepsAgree, MediaOps, Storing
<1> QED
  BY <1>1, <1>2, <1>3, FilesStep DEF StepOf

(* The one file of a request is told by its name and how far it is.         *)
LEMMA FileIs ==
  ASSUME NEW r \in Requests, NEW f \in Files
  PROVE  /\ f = FileOf(r) <=> /\ f.name = name[r]
                              /\ f.temp = (pc[r] # "sql") /\ f.whole = (pc[r] # "write")
         /\ f = FileOf(r)' <=> /\ f.name = name'[r]
                               /\ f.temp = (pc'[r] # "sql") /\ f.whole = (pc'[r] # "write")
  BY DEF Files, FileOf

(* A lone request clears the directory, makes its file, writes and renames  *)
(* it, and nobody else touches the directory meanwhile.                     *)
LEMMA LoneStep ==
  ASSUME Shape, Undisturbed, LoneDirectory, [Next]_vars
  PROVE  LoneDirectory'
<1> USE DEF Shape
<1>0. Shape' /\ Undisturbed'
  BY ShapeStep, UndisturbedStep
<1> SUFFICES ASSUME NEW q \in alone'
             PROVE  LoneFiles(q)'
  BY DEF LoneDirectory
<1>1. q \in Requests /\ user'[q] \in Users /\ pc'[q] # "idle" /\ op'[q] \in MediaOps
  BY <1>0 DEF TypeOK, StepsAgree, MediaOps
<1>2. CASE UNCHANGED <<files, pc[q], op[q], user[q], name[q]>> /\ q \in alone
  BY <1>2 DEF LoneDirectory, LoneFiles, FileOf
<1>3. CASE SqlLate \/ UNCHANGED vars
  BY <1>2, <1>3 DEF SqlLate, vars, media, request, history
<1>4. CASE Kill
  BY <1>4 DEF Kill
<1>5. ASSUME NEW r \in Requests, StepOf(r), r # q
      PROVE  LoneFiles(q)'
  <2>1. UNCHANGED <<pc[q], op[q], user[q], name[q]>>
    BY <1>1, <1>5, OthersKeep
  <2>2. q \in alone
    BY <1>5, StepsThatEnd DEF StepOf, Removing, Failing, Starting, Querying, StartCreate,
       StartUpdate, StartRemove, Overlap, Clear, ClearSkipped, Ends, End, MakeDir, OpenTemp,
       Write, Rename, history
  <2>3. files'[user[q]] = files[user[q]]
    BY <1>1, <1>5, <2>1, <2>2, PendingTouch DEF Undisturbed
  <2> QED
    BY <2>1, <2>2, <2>3 DEF LoneDirectory, LoneFiles, FileOf
<1>6. CASE Starting(q)
  BY <1>1, <1>6 DEF Starting, StartCreate, StartUpdate, StartRemove, Begin, LoneFiles,
     MediaOps, TypeOK
<1>7. ASSUME Ends(q) \/ ClearSkipped(q)
      PROVE  LoneFiles(q)'
  BY <1>1, <1>7 DEF Ends, End, ClearSkipped, TypeOK
<1>8. ASSUME Clear(q) \/ MakeDir(q) \/ OpenTemp(q) \/ Write(q) \/ Rename(q)
      PROVE  LoneFiles(q)'
  <2>1. q \in alone /\ UNCHANGED <<op, user>> /\ user[q] \in Users /\ pc[q] # "idle"
    BY <1>1, <1>8 DEF Clear, MakeDir, OpenTemp, Write, Rename, Goto, history
  <2>2. CASE Clear(q)
    BY <2>1, <2>2 DEF Clear, Goto, LoneFiles, TypeOK
  <2>3. CASE MakeDir(q)
    BY <2>1, <2>3 DEF MakeDir, Goto, LoneFiles, LoneDirectory, TypeOK
  <2>4. CASE OpenTemp(q)
    <3>1. pc[q] = "open" /\ pc'[q] = "write"
      BY <1>1, <2>4 DEF OpenTemp, Goto, TypeOK
    <3>2. files[user[q]] = {}
      BY <2>1, <3>1 DEF LoneDirectory, LoneFiles
    <3>3. PICK f \in Files : /\ f.name = name'[q] /\ f.temp /\ ~f.whole
                            /\ files'[user[q]] = {f}
      BY <2>1, <2>4, <3>2, OpenedFile DEF TypeOK
    <3>4. f = FileOf(q)'
      BY <1>1, <3>1, <3>3, FileIs DEF Files
    <3> QED
      BY <2>1, <3>1, <3>3, <3>4 DEF LoneFiles
  <2>5. CASE Write(q) \/ Rename(q)
    <3>1. /\ \/ pc[q] = "write" /\ pc'[q] = "rename"
             \/ pc[q] = "rename" /\ pc'[q] = "sql"
          /\ op[q] = "picture" /\ name' = name /\ pc[q] # "sql" /\ pc'[q] # "write"
      BY <1>1, <2>5 DEF Write, Rename, Goto, TypeOK, StepsAgree, Storing
    <3>2. files[user[q]] = {FileOf(q)}
      BY <2>1, <3>1 DEF LoneDirectory, LoneFiles
    <3>3. PICK f \in Files : f = FileOf(q)
      BY <2>1, <3>2 DEF TypeOK
    <3>4. f.name = name[q] /\ f.temp /\ (f.whole <=> pc[q] # "write")
      BY <1>1, <3>1, <3>3 DEF FileOf
    <3>5. TempOf(q) = {f}
      BY <3>2, <3>3, <3>4 DEF TempOf
    <3>6. PICK g \in Files : /\ files'[user[q]] = {g} /\ g.name = name[q]
                            /\ g.whole /\ (g.temp <=> Write(q))
      <4>1. CASE Write(q)
        <5>1. files'[user[q]] = {Written(f)}
          BY <2>1, <3>2, <3>3, <3>5, <4>1, FilesStep DEF TypeOK
        <5> QED
          BY <3>4, <4>1, <5>1, FileSteps
      <4>2. CASE Rename(q)
        <5>1. files'[user[q]] = {Renamed(f)}
          BY <2>1, <3>2, <3>3, <3>5, <4>2, FilesStep DEF TypeOK
        <5>2. pc[q] = "rename"
          BY <4>2 DEF Rename
        <5>3. ~Write(q)
          BY <5>2 DEF Write
        <5> QED
          BY <3>4, <5>1, <5>2, <5>3, FileSteps
      <4> QED
        BY <2>5, <4>1, <4>2
    <3>7. Write(q) <=> pc'[q] # "sql"
      BY <2>5, <3>1 DEF Write, Rename
    <3>8. g = FileOf(q)'
      BY <1>1, <3>1, <3>6, <3>7, FileIs DEF Files
    <3> QED
      BY <2>1, <3>1, <3>6, <3>8 DEF LoneFiles
  <2> QED
    BY <1>8, <2>2, <2>3, <2>4, <2>5
<1>9. ASSUME StepOf(q)
      PROVE  LoneFiles(q)'
  <2>1. Failing(q) \/ Querying(q) => Ends(q)
    BY <1>1, StepsThatEnd DEF Failing, Querying
  <2> QED
    BY <1>6, <1>7, <1>8, <1>9, <2>1 DEF StepOf, Removing
<1> QED
  BY <1>1, <1>3, <1>4, <1>5, <1>9, NextSteps

(* What an outcome says of a row and a directory.                           *)
Whole(n) == [name |-> n, temp |-> FALSE, whole |-> TRUE]
Told(outcome, value, fs) ==
  /\ outcome = "stored" => value \in Names /\ fs = {Whole(value)}
  /\ outcome = "removed" => value \notin Names \cup {ClientName} /\ fs = {}
  /\ outcome = "orphaned" =>
       value \notin Names \cup {ClientName} /\ \E n \in Names : fs = {Whole(n)}
  /\ outcome = "misnamed" => value \notin Names
  /\ outcome = "failed" => fs = {} \/ \E n \in Names : fs = {Whole(n)}

LEMMA OutcomeIs == LoneChangeOutcome <=> \A u \in Users : Told(settled[u], row[u], files[u])
  BY DEF LoneChangeOutcome, OnlyFile, Told, Whole

LEMMA OutcomeIsNext ==
  LoneChangeOutcome' <=> \A u \in Users : Told(settled'[u], row'[u], files'[u])
  BY DEF LoneChangeOutcome, OnlyFile, Told, Whole

(* A lone request ends in a directory that only it has touched.             *)
LEMMA LoneEnd ==
  ASSUME Shape, LoneDirectory, NEW r \in alone, Failing(r) \/ Querying(r),
         settled'[user[r]] # "disturbed"
  PROVE  Told(settled'[user[r]], row'[user[r]], files'[user[r]])
<1> USE MediaAssumption DEF Shape
<1> DEFINE u == user[r]
<1>1. r \in Requests /\ u \in Users /\ op[r] \in MediaOps /\ LoneFiles(r)
  BY DEF TypeOK, StepsAgree, LoneDirectory, MediaOps
<1> HIDE DEF u
<1>2. ASSUME NEW outcome, End(r, outcome)
      PROVE  settled'[u] = outcome
  BY <1>1, <1>2 DEF End, TypeOK, u
<1>3. CASE Failing(r)
  <2>1. Fail(r) /\ (Reject(r) \/ OpenFails(r) \/ StoreFails(r))
    <3>1. ~ClearFails(r) /\ ~CleanUpFails(r)
      BY <1>1, <1>2 DEF ClearFails, CleanUpFails, u
    <3> QED
      BY <1>3, <3>1 DEF Failing, Reject, OpenFails, StoreFails
  <2>2. settled'[u] = "failed"
    BY <1>2, <2>1 DEF Fail
  <2>3. files'[u] = {}
    <3>1. CASE Reject(r) \/ OpenFails(r)
      BY <1>1, <3>1 DEF Reject, OpenFails, media, LoneFiles, u
    <3>2. CASE StoreFails(r)
      <4>1. pc[r] \in {"write", "rename"} /\ op[r] = "picture"
        BY <1>1, <3>2 DEF StoreFails, StepsAgree, Storing
      <4>2. files[u] = {FileOf(r)} /\ FileOf(r).name = name[r] /\ FileOf(r).temp
        BY <1>1, <4>1 DEF LoneFiles, FileOf, u
      <4>3. TempOf(r) = files[u]
        BY <4>2 DEF TempOf, u
      <4> QED
        BY <1>1, <3>2, <4>3 DEF StoreFails, RemoveTemp, TypeOK, u
    <3> QED
      BY <2>1, <3>1, <3>2
  <2> QED
    BY <2>2, <2>3 DEF Told, u
<1>4. CASE Querying(r)
  <2>1. files'[u] = files[u] /\ pc[r] = "sql"
    BY <1>1, <1>4, FilesStep, StepsThatEnd DEF Querying
  <2>2. op[r] = "picture" => files[u] = {Whole(name[r])} /\ name[r] \in Names
    BY <1>1, <2>1 DEF LoneFiles, FileOf, Whole, StepsAgree, u
  <2>3. op[r] = "remove" => files[u] = {}
    BY <1>1, <2>1 DEF LoneFiles, u
  <2>4. CASE SqlRefused(r) \/ SqlUncertain(r)
    <3>1. settled'[u] = Failure(r)
      BY <1>2, <2>4 DEF SqlRefused, SqlUncertain
    <3>2. Failure(r) = "failed" /\ op[r] \in {"picture", "remove"}
      BY <1>1, <3>1 DEF Failure, MediaOps, u
    <3> QED
      BY <2>1, <2>2, <2>3, <3>1, <3>2 DEF Told, u
  <2>5. CASE SqlOk(r)
    <3>1. settled'[u] = Success(r) /\ Execute(r)
      BY <1>2, <2>5 DEF SqlOk
    <3>2. row[u] \in {"unborn", "gone"} \cup Pictures
      BY <1>1 DEF TypeOK
    <3>3. CASE op[r] = "remove"
      <4>1. row'[u] \in {"unborn", "gone"}
        BY <1>1, <3>1, <3>2, <3>3 DEF Execute, Insert, Update, Delete, SetRow, Exists, TypeOK, u
      <4> QED
        BY <2>1, <2>3, <3>1, <3>3, <4>1 DEF Success, Told, u
    <3>4. CASE op[r] = "empty"
      <4>1. name[r] = ClientName
        BY <1>1, <2>1, <3>4 DEF StepsAgree
      <4>2. row'[u] \in {"unborn", "gone", ClientName}
        BY <1>1, <3>1, <3>2, <3>4, <4>1
        DEF Execute, Insert, Update, Delete, SetRow, Exists, TypeOK, u
      <4> QED
        BY <3>1, <3>4, <4>2 DEF Success, Told, u
    <3>5. CASE op[r] = "picture"
      <4>1. row'[u] = IF Exists(u) THEN name[r] ELSE row[u]
        BY <1>1, <3>1, <3>5 DEF Execute, Insert, Update, Delete, SetRow, TypeOK, u
      <4>2. ~Exists(u) => row[u] \in {"unborn", "gone"}
        BY <3>2 DEF Exists
      <4>3. settled'[u] = IF Exists(u) THEN "stored" ELSE "orphaned"
        BY <3>1, <3>5 DEF Success, u
      <4> QED
        BY <2>1, <2>2, <3>5, <4>1, <4>2, <4>3 DEF Told, u
    <3> QED
      BY <1>1, <3>3, <3>4, <3>5 DEF MediaOps
  <2> QED
    BY <1>4, <2>4, <2>5 DEF Querying
<1> QED
  BY <1>3, <1>4

(* What was told of a user stays true until its picture is touched: another *)
(* request's statement can only give the id its row.                        *)
LEMMA ToldStays ==
  ASSUME Shape, Undisturbed, NEW u \in Users, NEW r \in Requests, StepOf(r),
         settled[u] # "disturbed", Told(settled[u], row[u], files[u])
  PROVE  Told(settled[u], row'[u], files'[u])
<1> USE MediaAssumption DEF Shape
<1>1. r \notin Pending(u)
  BY DEF Undisturbed
<1>2. files'[u] = files[u]
  BY <1>1, PendingTouch
<1>3. row'[u] = row[u] \/ (row[u] = "unborn" /\ row'[u] = NoPicture)
  <2>1. CASE Querying(r)
    <3>1. UNCHANGED row \/ Execute(r)
      BY <2>1 DEF Querying, SqlOk, SqlRefused, SqlUncertain
    <3>2. Insert(r) => row'[u] = row[u] \/ (row[u] = "unborn" /\ row'[u] = NoPicture)
      BY DEF Insert, TypeOK
    <3>3. pc[r] = "sql"
      BY <2>1, StepsThatEnd DEF Querying
    <3>4. Update(r) \/ Delete(r) => row'[u] = row[u]
      BY <1>1, <3>3 DEF Update, Delete, SetRow, Pending, MediaOps, TypeOK
    <3> QED
      BY <3>1, <3>2, <3>4 DEF Execute
  <2>2. CASE ~Querying(r)
    BY <2>2, StepsThatEnd DEF StepOf, Removing, Failing, Starting, StartCreate, StartUpdate,
       StartRemove, Begin, Clear, ClearSkipped, MakeDir, OpenTemp, Write, Rename
  <2> QED
    BY <2>1, <2>2
<1> QED
  BY <1>2, <1>3 DEF Told

(* How a step changes what is told of a user.                               *)
LEMMA SettledStep ==
  ASSUME Shape, NEW u \in Users, NEW r \in Requests, StepOf(r),
         settled'[u] # "disturbed", settled'[u] # settled[u]
  PROVE  r \in alone /\ u = user[r] /\ (Failing(r) \/ Querying(r))
<1> USE DEF Shape
<1>1. CASE Failing(r) \/ Querying(r)
  <2>1. Ends(r)
    BY <1>1, StepsThatEnd DEF Failing, Querying
  <2> QED
    BY <1>1, <2>1 DEF Ends, End, TypeOK
<1>2. CASE ~(Failing(r) \/ Querying(r))
  BY <1>2 DEF StepOf, Removing, Starting, StartCreate, StartUpdate, StartRemove, Overlap,
     Clear, ClearSkipped, MakeDir, OpenTemp, Write, Rename, history, TypeOK
<1> QED
  BY <1>1, <1>2

(* Every step keeps what is told of every user.                             *)
LEMMA OutcomeStep ==
  ASSUME Shape, Undisturbed, LoneDirectory, LoneChangeOutcome, [Next]_vars
  PROVE  LoneChangeOutcome'
<1> USE DEF Shape
<1> SUFFICES ASSUME NEW u \in Users PROVE Told(settled'[u], row'[u], files'[u])
  BY OutcomeIsNext
<1>1. Told(settled[u], row[u], files[u])
  BY OutcomeIs
<1>2. CASE settled'[u] = "disturbed"
  BY <1>2 DEF Told
<1>3. CASE SqlLate /\ settled'[u] # "disturbed"
  <2>1. PICK l \in limbo :
          SetRow(l[1], l[2]) /\ settled' = [settled EXCEPT ![l[1]] = "disturbed"]
    BY <1>3 DEF SqlLate
  <2>2. settled'[u] = settled[u] /\ row'[u] = row[u]
    BY <1>3, <2>1 DEF SetRow, TypeOK
  <2>3. UNCHANGED files
    BY <1>3, FilesStep DEF SqlLate, media
  <2> QED
    BY <1>1, <2>2, <2>3
<1>4. CASE Kill \/ UNCHANGED vars
  BY <1>1, <1>4 DEF Kill, vars, media, history
<1>5. ASSUME NEW r \in Requests, StepOf(r), settled'[u] # "disturbed"
      PROVE  Told(settled'[u], row'[u], files'[u])
  <2>1. CASE settled'[u] = settled[u]
    BY <1>1, <1>5, <2>1, ToldStays
  <2>2. CASE settled'[u] # settled[u]
    BY <1>5, <2>2, SettledStep, LoneEnd
  <2> QED
    BY <2>1, <2>2
<1> QED
  BY <1>2, <1>3, <1>4, <1>5, NextSteps
-----------------------------------------------------------------------------
(* The variables of UsersMedia have their types: in particular no file is   *)
(* ever in a directory that does not exist, whatever was removed meanwhile. *)
THEOREM MediaTypeCorrect == Spec => []TypeOK
  BY ShapeInvariant, PTL DEF Shape

(* writeFileAtomic: under its final name there is only ever a whole file,   *)
(* also after a kill in the middle of any number of stores.                 *)
THEOREM FilesAreWhole == Spec => []FinalFilesWhole
<1> DEFINE Inv == NamesUnique /\ WrittenBeforeRenamed /\ FinalFilesWhole
<1>1. Init => Inv
  BY MediaAssumption DEF Init, NamesUnique, WrittenBeforeRenamed, FinalFilesWhole
<1>2. Shape /\ Inv /\ [Next]_vars => Inv'
  BY NamesStep, WrittenStep, FinalStep
<1> QED
  BY <1>1, <1>2, ShapeInvariant, PTL DEF Spec

(* Only a kill, or a removal whose error is ignored, leaves a temporary file*)
(* behind: every other failure of a store, also one that raced with the     *)
(* removal of the directory, takes its own.                                 *)
THEOREM TempsAreOwned == Spec => []TempsOwned
<1>1. Init => TempsOwned
  BY DEF Init, TempsOwned
<1>2. Shape /\ TempsOwned /\ [Next]_vars => TempsOwned'
  BY OwnedStep
<1> QED
  BY <1>1, <1>2, ShapeInvariant, PTL DEF Spec

(* UsersService::update stores before it updates: a row never has the name  *)
(* of a file that its request is still to write or rename.                  *)
THEOREM RowsNameStoredFiles == Spec => []NamedAfterStored
<1> DEFINE Inv == NamesUnique /\ Unnamed
<1>1. Init => Inv
  BY MediaAssumption DEF Init, NamesUnique, Unnamed
<1>2. Shape /\ Inv /\ [Next]_vars => Inv'
  BY NamesStep, UnnamedStep
<1>3. Inv => NamedAfterStored
  BY DEF NamesUnique, Unnamed, NamedAfterStored
<1> QED
  BY <1>1, <1>2, <1>3, ShapeInvariant, PTL DEF Spec

(* clear, store, UPDATE or DELETE: how any change of a picture that         *)
(* overlapped no other leaves its row and its directory, whatever failures, *)
(* kills and races left before, until the user is touched again. The two    *)
(* successes that leave row and directory apart are among the outcomes.     *)
THEOREM LoneChangesAccounted == Spec => []LoneChangeOutcome
<1> DEFINE Inv == Undisturbed /\ LoneDirectory /\ LoneChangeOutcome
<1>1. Init => Inv
  BY MediaAssumption DEF Init, Undisturbed, LoneDirectory, LoneChangeOutcome, OnlyFile, Pending
<1>2. Shape /\ Inv /\ [Next]_vars => Inv'
  BY UndisturbedStep, LoneStep, OutcomeStep
<1> QED
  BY <1>1, <1>2, ShapeInvariant, PTL DEF Spec
=============================================================================
