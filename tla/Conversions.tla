---------------------------- MODULE Conversions -----------------------------
(* Numbers and times on their way between text and machine words: the       *)
(* filters' ids, limit and offset, the configuration's integers, and the    *)
(* timestamps of the users. The widths of the types, the precision of a     *)
(* time and the base of its digits are parameters. An operation that throws *)
(* gives {}, any other the set of its one result.                           *)
EXTENDS Integers, Sequences, SequencesExt

CONSTANTS LongBits, IntBits, PortBits, Precision, Base, MaxLimit, DefaultLimit

ASSUME ConversionsAssumption ==
  /\ {LongBits, IntBits, PortBits, Precision, Base, MaxLimit, DefaultLimit} \subseteq Nat \ {0}
  /\ PortBits < IntBits /\ IntBits <= LongBits /\ Base > 1
  /\ DefaultLimit <= MaxLimit /\ MaxLimit < 2^LongBits

(* A text: does it start with a number, which one; what follows it is       *)
(* ignored by all of them.                                                  *)
Texts == [digits : BOOLEAN, negative : BOOLEAN, value : 0..(2^LongBits + 1)]

Said(t) == IF t.negative THEN -t.value ELSE t.value

stoull(t) == IF ~t.digits \/ t.value >= 2^LongBits THEN {} ELSE {Said(t) % 2^LongBits}

stoi(t) == {n \in {Said(t)} : t.digits /\ n \in -(2^(IntBits - 1))..(2^(IntBits - 1) - 1)}

Signed(n) == IF n < 2^(LongBits - 1) THEN n ELSE n - 2^LongBits

(* A token of a list that does not convert is skipped.                      *)
ParseIds(ts) == {Signed(n) : n \in UNION {stoull(t) : t \in Range(ts)}}

ParseId(t) == {Signed(n) : n \in stoull(t)}

\* Faulty variant: no lower end.
ClampAbove(n) == IF n > MaxLimit THEN MaxLimit ELSE n

Clamp(n) == IF n > MaxLimit THEN MaxLimit ELSE IF n < 1 THEN 1 ELSE n

(* The limit of a list: of the text if there is one, the default if not.    *)
ListLimit(ts) == {Clamp(n) : n \in IF ts = {} THEN {DefaultLimit} ELSE UNION {stoull(t) : t \in ts}}

Uint16(t) == {n % 2^PortBits : n \in stoi(t)}
Uint64(t) == {n % 2^LongBits : n \in stoi(t)}
-----------------------------------------------------------------------------
(* A timestamp's text: the second its fields name, read as UTC; the digits  *)
(* of its fraction; and the hours its zone is ahead of UTC, which nobody    *)
(* reads.                                                                   *)
Fractions == UNION {[1..n -> 0..(Base - 1)] : n \in 0..(Precision + 1)}

Unit == Base^Precision

Digit(fraction, i) == IF i \in DOMAIN fraction THEN fraction[i] ELSE 0

(* Cut or filled with zeros to the precision, then read as one number.      *)
Micros(fraction) ==
  LET read[i \in 0..Precision] == IF i = 0 THEN 0 ELSE Base * read[i - 1] + Digit(fraction, i)
  IN  read[Precision]

ParsePgTimestamp(text) == text.second * Unit + Micros(text.fraction)

(* Of a time point, the whole seconds (toward zero) and, if positive, the   *)
(* rest in digits.                                                          *)
ToIsoString(tp) ==
  LET s == IF tp >= 0 THEN tp \div Unit ELSE -((-tp) \div Unit)
      rep == tp - s * Unit
  IN  [second |-> s,
       fraction |-> IF rep > 0
                    THEN [i \in 1..Precision |-> (rep \div Base^(Precision - i)) % Base] ELSE <<>>]
=============================================================================
