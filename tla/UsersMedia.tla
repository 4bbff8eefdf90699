----------------------------- MODULE UsersMedia -----------------------------
(* Users and their pictures: the rows of table users and the directories    *)
(* users/<id>/file of the media tree, under concurrent requests             *)
(* (services/users/UsersService.cpp, repositories/users/UsersRepository.cpp,*)
(* core/file_system/FileSystemService.cpp). The event loop's thread clears  *)
(* a directory; a worker stores the file, in steps that others interleave   *)
(* with; the database runs a statement while the coroutine is suspended,    *)
(* and may run it although its caller was told of an error. The process may *)
(* be killed at any point and started again; nothing is cleaned up then.    *)
(*                                                                          *)
(* File names are random and do not repeat while anything refers to them;   *)
(* their number is the bound on what failures and kills can leave behind.   *)
CONSTANTS
  Requests, Users, Names,
  NoPicture,   \* picture IS NULL
  ClientName,  \* the file name a client sends with its picture
  Nobody       \* the user of no request

(* What the controllers make of a request. "fields" is an update with no    *)
(* picture; "empty" one whose picture part has a file name and no bytes.    *)
Ops == {"create", "fields", "empty", "picture", "remove"}
MediaOps == {"empty", "picture", "remove"}

ASSUME MediaAssumption ==
  /\ Nobody \notin Users
  /\ {"unborn", "gone", NoPicture, ClientName} \cap Names = {}
  /\ ClientName \notin {"unborn", "gone", NoPicture}

VARIABLES
  row,      \* the row of each id: not yet, no longer, or its picture
  dirs,     \* the users whose directory exists
  files,    \* what each directory holds
  pc, op, user, name,  \* each request: its step, kind, user and file
  limbo,    \* what the database may yet write for a caller long gone
  littered, \* history: a kill, or a failed clean-up, may have left temporaries
  alone,    \* history: requests that overlapped no other on their user
  settled   \* history: how the last change of a picture ended, if alone

media == <<dirs, files>>
request == <<pc, op, user, name>>
history == <<littered, alone, settled>>
vars == <<row, media, request, limbo, history>>

Steps == {"idle", "ready", "store", "open", "write", "rename", "sql"}
Files == [name : Names, temp : BOOLEAN, whole : BOOLEAN]
Pictures == Names \cup {NoPicture, ClientName}

(* How a change of a user's picture ended that overlapped no other: with    *)
(* 204, the picture stored, the directory removed, a picture stored for an  *)
(* id that has no row, the client's file name written to the row; with an   *)
(* error. All else is "disturbed".                                          *)
Outcomes == {"disturbed", "stored", "removed", "orphaned", "misnamed", "failed"}

TypeOK ==
  /\ row \in [Users -> {"unborn", "gone"} \cup Pictures]
  /\ dirs \subseteq Users
  /\ files \in [Users -> SUBSET Files]
  /\ \A u \in Users : files[u] # {} => u \in dirs
  /\ pc \in [Requests -> Steps]
  /\ op \in [Requests -> Ops]
  /\ user \in [Requests -> Users \cup {Nobody}]
  /\ name \in [Requests -> Pictures]
  /\ limbo \subseteq Users \X (Names \cup {ClientName, "gone"})
  /\ littered \in BOOLEAN /\ alone \subseteq Requests
  /\ settled \in [Users -> Outcomes]

Init ==
  /\ row = [u \in Users |-> "unborn"]
  /\ dirs = {} /\ files = [u \in Users |-> {}]
  /\ pc = [r \in Requests |-> "idle"]
  /\ op = [r \in Requests |-> "fields"]
  /\ user = [r \in Requests |-> Nobody]
  /\ name = [r \in Requests |-> NoPicture]
  /\ limbo = {}
  /\ littered = FALSE /\ alone = {} /\ settled = [u \in Users |-> "removed"]

Pending(u) == {r \in Requests : pc[r] # "idle" /\ user[r] = u /\ op[r] \in MediaOps}

(* A name nothing refers to.                                                *)
Fresh(n) ==
  /\ \A r \in Requests : name[r] # n
  /\ \A u \in Users : row[u] # n /\ (\A f \in files[u] : f.name # n) /\ <<u, n>> \notin limbo

Goto(r, step) == pc' = [pc EXCEPT ![r] = step] /\ UNCHANGED <<op, user>>

(* A request ends, with this outcome for its user's picture if nothing      *)
(* disturbed it, and is forgotten.                                          *)
End(r, outcome) ==
  /\ pc' = [pc EXCEPT ![r] = "idle"]
  /\ op' = [op EXCEPT ![r] = "fields"]
  /\ user' = [user EXCEPT ![r] = Nobody]
  /\ name' = [name EXCEPT ![r] = NoPicture]
  /\ alone' = alone \ {r}
  /\ settled' = IF r \in alone THEN [settled EXCEPT ![user[r]] = outcome] ELSE settled

Fail(r) == End(r, "failed") /\ UNCHANGED <<row, limbo>>
-----------------------------------------------------------------------------
(* The coroutine, on the event loop's thread.                               *)

(* Hashing a password suspends a request before it has looked at anything:  *)
(* it is as if it came later.                                               *)
Begin(r, o, u, step) ==
  /\ pc[r] = "idle"
  /\ pc' = [pc EXCEPT ![r] = step]
  /\ op' = [op EXCEPT ![r] = o]
  /\ user' = [user EXCEPT ![r] = u]
  /\ name' = [name EXCEPT ![r] = IF o = "empty" THEN ClientName ELSE NoPicture]
  /\ UNCHANGED <<row, media, limbo, littered>>

(* A request that may touch the picture of u overlaps those that may, too.  *)
Overlap(r, u) ==
  /\ alone' = (alone \ Pending(u)) \cup
        {q \in {r} : Pending(u) = {} /\ \A l \in limbo : l[1] # u}
  /\ settled' = [settled EXCEPT ![u] = "disturbed"]

StartCreate(r) == Begin(r, "create", Nobody, "sql") /\ UNCHANGED <<alone, settled>>

StartUpdate(r, o, u) ==
  /\ o \in {"fields", "empty", "picture"}
  /\ Begin(r, o, u, IF o = "picture" THEN "ready" ELSE "sql")
  /\ IF o = "fields" THEN UNCHANGED <<alone, settled>> ELSE Overlap(r, u)

StartRemove(r, u) == Begin(r, "remove", u, "ready") /\ Overlap(r, u)

\* Faulty variant: the directory is left as it is.
ClearNothing(r) ==
  /\ pc[r] = "ready"
  /\ Goto(r, IF op[r] = "picture" THEN "store" ELSE "sql")
  /\ UNCHANGED <<row, media, name, limbo, history>>

(* exists(), and remove() of the whole directory.                           *)
Clear(r) ==
  /\ pc[r] = "ready"
  /\ dirs' = dirs \ {user[r]}
  /\ files' = [files EXCEPT ![user[r]] = {}]
  /\ Goto(r, IF op[r] = "picture" THEN "store" ELSE "sql")
  /\ UNCHANGED <<row, name, limbo, history>>

(* exists() answers false when it cannot tell: the request goes on beside   *)
(* what is there.                                                           *)
ClearSkipped(r) ==
  /\ pc[r] = "ready" /\ user[r] \in dirs
  /\ Goto(r, IF op[r] = "picture" THEN "store" ELSE "sql")
  /\ alone' = alone \ {r}
  /\ UNCHANGED <<row, media, name, limbo, littered, settled>>

(* remove_all stops half way, for instance because a worker has put a file  *)
(* into the directory meanwhile.                                            *)
ClearFails(r) ==
  /\ pc[r] = "ready" /\ user[r] \in dirs
  /\ \E left \in SUBSET files[user[r]] : files' = [files EXCEPT ![user[r]] = left]
  /\ End(r, "disturbed")
  /\ UNCHANGED <<row, dirs, limbo, littered>>
-----------------------------------------------------------------------------
(* FileSystemService::store on a worker.                                    *)

Put(u, f) == files' = [files EXCEPT ![u] = @ \cup {f}]
TempOf(r) == {f \in files[user[r]] : f.name = name[r] /\ f.temp}
RemoveTemp(r) == files' = [files EXCEPT ![user[r]] = @ \ TempOf(r)]

(* The file is empty, too large or of a type not allowed, or the directory  *)
(* cannot be made.                                                          *)
Reject(r) ==
  /\ pc[r] = "store"
  /\ Fail(r)
  /\ UNCHANGED <<media, littered>>

MakeDir(r) ==
  /\ pc[r] = "store"
  /\ dirs' = dirs \cup {user[r]}
  /\ Goto(r, "open")
  /\ UNCHANGED <<row, files, name, limbo, history>>

\* Faulty variant: the bytes go straight into the file of the final name.
OpenFinal(r) ==
  /\ pc[r] = "open" /\ user[r] \in dirs
  /\ \E n \in Names :
       /\ Fresh(n)
       /\ name' = [name EXCEPT ![r] = n]
       /\ Put(user[r], [name |-> n, temp |-> FALSE, whole |-> FALSE])
  /\ Goto(r, "write")
  /\ UNCHANGED <<row, dirs, limbo, history>>

\* Faulty variant: the generator is seeded alike and repeats its names.
OpenTempRepeating(r) ==
  /\ pc[r] = "open" /\ user[r] \in dirs
  /\ \E n \in Names :
       /\ name' = [name EXCEPT ![r] = n]
       /\ Put(user[r], [name |-> n, temp |-> TRUE, whole |-> FALSE])
  /\ Goto(r, "write")
  /\ UNCHANGED <<row, dirs, limbo, history>>

\* Faulty variant: a directory that is gone is not noticed.
OpenTempAnywhere(r) ==
  /\ pc[r] = "open"
  /\ \E n \in Names :
       /\ Fresh(n)
       /\ name' = [name EXCEPT ![r] = n]
       /\ Put(user[r], [name |-> n, temp |-> TRUE, whole |-> FALSE])
  /\ Goto(r, "write")
  /\ UNCHANGED <<row, dirs, limbo, history>>

OpenTemp(r) ==
  /\ pc[r] = "open" /\ user[r] \in dirs
  /\ \E n \in Names :
       /\ Fresh(n)
       /\ name' = [name EXCEPT ![r] = n]
       /\ Put(user[r], [name |-> n, temp |-> TRUE, whole |-> FALSE])
  /\ Goto(r, "write")
  /\ UNCHANGED <<row, dirs, limbo, history>>

(* The directory may be gone again.                                         *)
OpenFails(r) ==
  /\ pc[r] = "open"
  /\ Fail(r)
  /\ UNCHANGED <<media, littered>>

Written(f) == [f EXCEPT !.whole = TRUE]
Renamed(f) == [f EXCEPT !.temp = FALSE]

(* The stream stays open on a file that has been unlinked under it.         *)
Write(r) ==
  /\ pc[r] = "write"
  /\ files' = [files EXCEPT ![user[r]] =
                 (@ \ TempOf(r)) \cup {Written(f) : f \in TempOf(r)}]
  /\ Goto(r, "rename")
  /\ UNCHANGED <<row, dirs, name, limbo, history>>

\* Faulty variant: the temporary file of a failed store is left behind.
StoreFailsLeavingTemp(r) ==
  /\ pc[r] \in {"write", "rename"}
  /\ Fail(r)
  /\ UNCHANGED <<media, littered>>

(* write, flush or rename fails, and the temporary file is removed.         *)
StoreFails(r) ==
  /\ pc[r] \in {"write", "rename"}
  /\ RemoveTemp(r)
  /\ Fail(r)
  /\ UNCHANGED <<dirs, littered>>

(* So is an error of that removal, which nobody looks at: the file stays.   *)
CleanUpFails(r) ==
  /\ pc[r] \in {"write", "rename"} /\ TempOf(r) # {}
  /\ End(r, "disturbed")
  /\ littered' = TRUE
  /\ UNCHANGED <<row, media, limbo>>

Rename(r) ==
  /\ pc[r] = "rename" /\ TempOf(r) # {}
  /\ files' = [files EXCEPT ![user[r]] =
                 (@ \ TempOf(r)) \cup {Renamed(f) : f \in TempOf(r)}]
  /\ Goto(r, "sql")
  /\ UNCHANGED <<row, dirs, name, limbo, history>>
-----------------------------------------------------------------------------
(* The statement. An UPDATE or DELETE of an id without a row changes none,  *)
(* and an update without a picture leaves the picture as it is.             *)
Exists(u) == row[u] \in Pictures
SetRow(u, value) == row' = IF Exists(u) THEN [row EXCEPT ![u] = value] ELSE row

(* Identities are drawn from a sequence and not used again.                 *)
Insert(r) ==
  /\ op[r] = "create"
  /\ \E u \in Users : row[u] = "unborn" /\ row' = [row EXCEPT ![u] = NoPicture]

\* Faulty variant: the name the client sent is kept.
UpdateClientName(r) ==
  \/ op[r] = "fields" /\ UNCHANGED row
  \/ op[r] \in {"empty", "picture"} /\ SetRow(user[r], ClientName)

Update(r) ==
  \/ op[r] = "fields" /\ UNCHANGED row
  \/ op[r] \in {"empty", "picture"} /\ SetRow(user[r], name[r])

Delete(r) == op[r] = "remove" /\ SetRow(user[r], "gone")

Execute(r) == Insert(r) \/ Update(r) \/ Delete(r)

Success(r) ==
  CASE op[r] = "remove" -> "removed"
    [] op[r] = "empty" -> "misnamed"
    [] OTHER -> IF Exists(user[r]) THEN "stored" ELSE "orphaned"

(* An update without bytes has not touched the directory.                   *)
Failure(r) == IF op[r] = "empty" THEN "disturbed" ELSE "failed"

(* Answered 201 or 204.                                                     *)
SqlOk(r) ==
  /\ pc[r] = "sql"
  /\ Execute(r)
  /\ End(r, Success(r))
  /\ UNCHANGED <<media, limbo, littered>>

(* A DbError: 409 for a violated constraint, 500 for any other.             *)
SqlRefused(r) ==
  /\ pc[r] = "sql"
  /\ End(r, Failure(r))
  /\ UNCHANGED <<row, media, limbo, littered>>

(* What the statement of a request writes to its row.                       *)
Statement(r) == <<user[r], IF op[r] = "remove" THEN "gone" ELSE name[r]>>

(* An error of the connection, or its timeout, answered 500: the statement  *)
(* has been run (or never is, which is SqlRefused), or will be. A late      *)
(* INSERT is as if its request came later.                                  *)
SqlUncertain(r) ==
  /\ pc[r] = "sql"
  /\ \/ Execute(r) /\ UNCHANGED limbo
     \/ op[r] \in MediaOps /\ limbo' = limbo \cup {Statement(r)} /\ UNCHANGED row
  /\ End(r, Failure(r))
  /\ UNCHANGED <<media, littered>>

(* The database gets to it at last.                                         *)
SqlLate ==
  /\ \E l \in limbo :
       /\ limbo' = limbo \ {l}
       /\ SetRow(l[1], l[2])
       /\ settled' = [settled EXCEPT ![l[1]] = "disturbed"]
       /\ alone' = alone \ Pending(l[1])
  /\ UNCHANGED <<media, request, littered>>

(* The process is killed; statements on their way may still be run.         *)
Kill ==
  /\ pc # [r \in Requests |-> "idle"]
  /\ \E late \in SUBSET {r \in Requests : pc[r] = "sql" /\ op[r] \in MediaOps} :
       limbo' = limbo \cup {Statement(r) : r \in late}
  /\ pc' = [r \in Requests |-> "idle"]
  /\ op' = [r \in Requests |-> "fields"]
  /\ user' = [r \in Requests |-> Nobody]
  /\ name' = [r \in Requests |-> NoPicture]
  /\ littered' = TRUE /\ alone' = {}
  /\ UNCHANGED <<row, media, settled>>

Next ==
  \/ \E r \in Requests :
       \/ StartCreate(r)
       \/ \E o \in Ops, u \in Users : StartUpdate(r, o, u)
       \/ \E u \in Users : StartRemove(r, u)
       \/ Clear(r)
       \/ ClearSkipped(r)
       \/ ClearFails(r)
       \/ Reject(r)
       \/ MakeDir(r)
       \/ OpenTemp(r)
       \/ OpenFails(r)
       \/ Write(r)
       \/ StoreFails(r)
       \/ CleanUpFails(r)
       \/ Rename(r)
       \/ SqlOk(r)
       \/ SqlRefused(r)
       \/ SqlUncertain(r)
  \/ SqlLate
  \/ Kill

Spec == Init /\ [][Next]_vars
-----------------------------------------------------------------------------
(* A file under its final name is whole, whenever the process is killed:    *)
(* the bytes are written under another name first.                          *)
FinalFilesWhole == \A u \in Users : \A f \in files[u] : f.temp \/ f.whole

(* Until the process is killed, or the removal of a temporary file fails    *)
(* unnoticed, every temporary file belongs to a store under way: each       *)
(* failure removes its own, also one that raced with the removal of the     *)
(* directory.                                                               *)
TempsOwned ==
  ~littered => \A u \in Users : \A f \in files[u] :
    f.temp => \E r \in Requests : user[r] = u /\ name[r] = f.name
                                    /\ pc[r] \in {"write", "rename"}

OnlyFile(u, n) == files[u] = {[name |-> n, temp |-> FALSE, whole |-> TRUE]}

(* How a change of a user's picture that overlapped no other leaves row and *)
(* directory, whatever failures, kills and races left there before it, until*)
(* the user is touched again. An update answered 204 leaves exactly the file*)
(* the row names and a removal leaves nothing, with two exceptions among    *)
(* the successes: a picture part without bytes puts a name into the row that*)
(* is no stored file's, and a picture for an id without a row stays, whole, *)
(* and named by no row. A change that failed leaves one whole file at most. *)
(* The premise is that exists() and remove_all() did their work and that    *)
(* temporary files could be removed.                                        *)
LoneChangeOutcome ==
  \A u \in Users :
    /\ settled[u] = "stored" => row[u] \in Names /\ OnlyFile(u, row[u])
    /\ settled[u] = "removed" => row[u] \notin Names \cup {ClientName} /\ files[u] = {}
    /\ settled[u] = "orphaned" =>
         row[u] \notin Names \cup {ClientName} /\ \E n \in Names : OnlyFile(u, n)
    /\ settled[u] = "misnamed" => row[u] \notin Names
    /\ settled[u] = "failed" => files[u] = {} \/ \E n \in Names : OnlyFile(u, n)

(* The row gets a generated name only once that file is stored: no reader   *)
(* of the row can ask for a file still being written.                       *)
NamedAfterStored ==
  \A u \in Users, r \in Requests :
    row[u] = name[r] /\ name[r] \in Names => pc[r] = "sql"

(* "one file - one dir": no directory ever holds two pictures.              *)
OneFileOneDir ==
  \A u \in Users : \A f, g \in files[u] : ~f.temp /\ ~g.temp => f.name = g.name
=============================================================================
