---------------------------- MODULE CheckTimeout ----------------------------
(***************************************************************************)
(* check_timeout of openssh/ssh_fed.c: whether the session whose timeout   *)
(* attribute is a given text is still open.  The function does not compare *)
(* numbers: it prints the clock, an int, in decimal, cuts the attribute    *)
(* after its last ':' and compares the two strings with strcmp.            *)
(*                                                                         *)
(* Characters are ASCII codes.  The module scales the real ranges down:    *)
(* clocks of two digits stand for the ten-digit clocks of 2001 to 2286,    *)
(* and IntBits for the 32 bits of an int.                                  *)
(***************************************************************************)
EXTENDS Integers, Sequences, SequencesExt

CONSTANTS IntBits,      \* width of an int
          FirstTime,    \* the clock when the server starts
          LastTime,     \* bound on the clock
          SessionTime,  \* $minutes_timeout * 60
          UrnPrefixes      \* what precedes the number in the attribute

COLON == 58

ASSUME TimeoutAssumption ==
    /\ IntBits \in Nat \ {0} /\ FirstTime \in Nat /\ LastTime \in Nat
    /\ SessionTime \in Nat
    /\ \A p \in UrnPrefixes : p = <<>> \/ p[Len(p)] = COLON

VARIABLES now,      \* the clock
          deadline, \* when the stored session ends
          text      \* the timeout attribute

timeoutVars == <<now, deadline, text>>

(* Conversion of a time_t to an int.                                       *)
ToInt(t) == ((t + 2^(IntBits - 1)) % 2^IntBits) - 2^(IntBits - 1)

Digits[n \in Nat] ==
    IF n < 10 THEN <<48 + n>> ELSE Append(Digits[n \div 10], 48 + (n % 10))

(* sprintf("%d").                                                          *)
Decimal(n) == IF n < 0 THEN <<45>> \o Digits[-n] ELSE Digits[n]

(* A mutant: the colons are dropped, but not what precedes them. *)
AfterLastColon_KeepAll(s) == SelectSeq(s, LAMBDA c : c # COLON)

(* The loop that builds timeout_str: a colon starts it over.               *)
AfterLastColon(s) ==
    FoldLeft(LAMBDA str, c : IF c = COLON THEN <<>> ELSE Append(str, c), <<>>, s)

(* strcmp(a, b) < 0: a is a proper prefix of b, or smaller where they first
   differ.                                                                 *)
StrLess(a, b) ==
    \/ Len(a) < Len(b) /\ SubSeq(b, 1, Len(a)) = a
    \/ \E i \in DOMAIN a \cap DOMAIN b :
          a[i] < b[i] /\ SubSeq(a, 1, i - 1) = SubSeq(b, 1, i - 1)

check_timeout(time, timeout) ==
    StrLess(Decimal(ToInt(time)), AfterLastColon(timeout))

(* modify and add in ssh_backend.php store the end of the session after a
   prefix; a plain number has none.                                        *)
Store(prefix) ==
    /\ deadline' = now + SessionTime
    /\ text' = prefix \o Decimal(now + SessionTime)
    /\ now' = now

Advance ==
    /\ now < LastTime
    /\ now' = now + 1
    /\ UNCHANGED <<deadline, text>>

(* At the start a session may be stored that ends at any moment.           *)
TimeoutInit ==
    /\ now = FirstTime
    /\ deadline \in FirstTime .. FirstTime + SessionTime
    /\ \E prefix \in UrnPrefixes : text = prefix \o Decimal(deadline)

TimeoutNext == Advance \/ \E prefix \in UrnPrefixes : Store(prefix)

TimeoutSpec == TimeoutInit /\ [][TimeoutNext]_timeoutVars

(***************************************************************************)
(* check_timeout says that a session is open exactly until its deadline.   *)
(***************************************************************************)
OpenUntilDeadline == check_timeout(now, text) <=> now < deadline
=============================================================================
