------------------------------- MODULE Forms --------------------------------
(* What the bodies of requests become: the serializers of registration,     *)
(* login and users, and the multipart form of an update on its way to the   *)
(* row. A text is told by what the validations ask of it: "empty", "bad"    *)
(* (not empty; no email, too short for a password) or "good"; a JSON value  *)
(* may also be absent or of another type ("other"). For a value that is not *)
(* a string the line that logs it throws before any check is made.          *)
EXTENDS Naturals, Sequences, SequencesExt

JsonValues == {"absent", "other", "empty", "bad", "good"}
Data == {"empty", "bad", "good"}

(* Logged, then required to be a string, and not one of the refused.        *)
Logged(v, refused) ==
  IF v = "other" THEN "throws" ELSE IF v \in {"absent"} \cup refused THEN "invalid" ELSE "ok"

Password(v) == IF v = "good" THEN "ok" ELSE "invalid"

(* The first check that does not hold decides.                              *)
Verdict(checks) ==
  LET i == SelectInSeq(checks, LAMBDA c : c # "ok") IN IF i = 0 THEN "ok" ELSE checks[i]

RegisterSerializer(b) ==
  Verdict(<<Logged(b.username, {"empty"}), Logged(b.email, {"empty"}), Password(b.password)>>)

UserCreateSerializer(b) ==
  Verdict(<<Logged(b.username, {"empty"}), Logged(b.email, {"empty", "bad"}), Password(b.password)>>)

LoginSerializer(b) == Verdict(<<Logged(b.email, {"empty", "bad"}), Password(b.password)>>)

\* Faulty variant: an update takes what registration takes.
UserUpdateSerializerAnyEmail(b) ==
  Verdict(<<IF b.username = "absent" THEN "ok" ELSE Logged(b.username, {"empty"}),
            IF b.email = "absent" THEN "ok" ELSE Logged(b.email, {"empty"}),
            IF b.password = "absent" THEN "ok" ELSE Password(b.password)>>)

(* Every field may be absent.                                               *)
UserUpdateSerializer(b) ==
  Verdict(<<IF b.username = "absent" THEN "ok" ELSE Logged(b.username, {"empty"}),
            IF b.email = "absent" THEN "ok" ELSE Logged(b.email, {"empty", "bad"}),
            IF b.password = "absent" THEN "ok" ELSE Password(b.password)>>)

(* Both services of a new user hash the password before the row is made.    *)
Created(b) == [username |-> {b.username}, email |-> {b.email}, password |-> {"hash"}]
-----------------------------------------------------------------------------
(* A multipart body: its parts, each with its name, its data and, for a     *)
(* file, a file name.                                                       *)

Parts == [name : {"username", "email", "password", "picture"}, file : BOOLEAN, data : Data]

(* Request::parseMultipart: the last part of a name is the one kept.        *)
LastPart(parts, name, file) ==
  LET i == SelectLastInSeq(parts, LAMBDA p : p.name = name /\ p.file = file)
  IN  IF i = 0 THEN "absent" ELSE parts[i].data

(* UsersController::update: three text fields and a file.                   *)
UpdateBody(parts) ==
  [username |-> LastPart(parts, "username", FALSE), password |-> LastPart(parts, "password", FALSE),
   email |-> LastPart(parts, "email", FALSE), picture |-> LastPart(parts, "picture", TRUE)]

Optional(v) == IF v = "absent" THEN {} ELSE {v}

(* UsersService::update: the password hashed; a picture with bytes stored   *)
(* under a name of the server's, but one without bytes named as the client  *)
(* named it.                                                                *)
Entity(id, b) ==
  [id |-> id, username |-> Optional(b.username), email |-> Optional(b.email),
   password |-> IF b.password = "absent" THEN {} ELSE {"hash"},
   picture |-> IF b.picture = "absent" THEN {}
               ELSE IF b.picture = "empty" THEN {"client's"} ELSE {"stored"}]
=============================================================================
