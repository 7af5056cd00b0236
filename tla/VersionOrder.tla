---------------------------- MODULE VersionOrder ----------------------------
(* UpdateManager::compareVersions() and what is done with its answer: an   *)
(* update is offered, and installed, if the latest release compares as     *)
(* newer than the installed version.                                       *)
(*                                                                         *)
(* An identifier, what stands between two dots of a version, has a value   *)
(* if toInt() can read it, and a place in the order of strings.            *)
EXTENDS Integers, Sequences, Functions

CONSTANTS
    Identifiers,   \* identifiers that occur
    Zero,          \* the identifier "0", with which short versions are padded
    NaN,           \* the value of an identifier that is not a number
    Releases       \* versions that are released

Identifier == [value : Int \cup {NaN}, text : Int]
Version == [main : Seq(Identifiers), pre : Seq(Identifiers)]

(* toInt() reads digits, which come before letters in the order of strings: *)
(* identifiers that are not numbers are taken not to begin with a digit.   *)
ASSUME IdentifierAssumption ==
    /\ NaN \notin Int
    /\ Identifiers \subseteq Identifier
    /\ Zero \in Identifiers
    /\ Releases \subseteq Version
    /\ \A x, y \in Identifiers :
          /\ x.text = y.text => x = y
          /\ x.value # NaN /\ y.value = NaN => x.text < y.text

VARIABLES
    current,     \* the installed version
    first        \* the version that was installed in the beginning
orderVars == <<current, first>>
-----------------------------------------------------------------------------
(* Mutant: every identifier is compared as a string.                       *)
BeforeAsText(x, y) == x.text < y.text

(* Numbers are compared as numbers, everything else as strings.            *)
Before(x, y) ==
    IF x.value # NaN /\ y.value # NaN THEN x.value < y.value ELSE x.text < y.text

(* Neither comes first: the loops go on to the next identifier.            *)
Alike(x, y) == ~Before(x, y) /\ ~Before(y, x)

(* Mutant: the loop returns if v1 comes first, and forgets the other case. *)
BeforeInAnywhere(s, t, n) == \E i \in 1..n : Before(s[i], t[i])

(* Of the first n identifiers, the first two that differ decide.           *)
BeforeIn(s, t, n) ==
    \E i \in 1..n : Before(s[i], t[i]) /\ \A j \in 1..(i - 1) : Alike(s[j], t[j])
AlikeIn(s, t, n) == \A i \in 1..n : Alike(s[i], t[i])

(* Major, minor and patch; a fourth number is not looked at.               *)
Padded(s) == [i \in 1..3 |-> IF i <= Len(s) THEN s[i] ELSE Zero]

Shorter(s, t) == IF Len(s) <= Len(t) THEN Len(s) ELSE Len(t)

(* A pre-release is older than its release; of two that begin alike the    *)
(* shorter one is older.                                                   *)
PreReleaseOlder(s, t) ==
    IF s = <<>> \/ t = <<>>
    THEN s # <<>> /\ t = <<>>
    ELSE \/ BeforeIn(s, t, Shorter(s, t))
         \/ AlikeIn(s, t, Shorter(s, t)) /\ Len(s) < Len(t)

(* compareVersions(v, w) < 0.                                              *)
Older(v, w) ==
    \/ BeforeIn(Padded(v.main), Padded(w.main), 3)
    \/ AlikeIn(Padded(v.main), Padded(w.main), 3) /\ PreReleaseOlder(v.pre, w.pre)

-----------------------------------------------------------------------------
OrderInit == current \in Releases /\ first = current

(* A check finds the release latest newer, and it is installed.            *)
Update(latest) ==
    /\ Older(current, latest)
    /\ current' = latest
    /\ UNCHANGED first

(* A check finds the release not newer.                                    *)
UpToDate(latest) ==
    /\ ~Older(current, latest)
    /\ UNCHANGED orderVars

OrderNext == \E latest \in Releases : Update(latest) \/ UpToDate(latest)

OrderSpec == OrderInit /\ [][OrderNext]_orderVars

-----------------------------------------------------------------------------
(* Properties.                                                             *)

(* However many updates were installed, the program never offers to go     *)
(* back to a version it has left: comparing pairs of identifiers now as    *)
(* numbers, now as strings makes no cycle.                                 *)
NoWayBack == ~Older(current, first)

(* The order of Semantic Versioning 2.0.0 (section 11): numbers by value,  *)
(* before all other identifiers, these as strings; a longer list is newer; *)
(* a release is newer than its pre-releases.                               *)
SemverBefore(x, y) ==
    CASE x.value # NaN /\ y.value # NaN -> x.value < y.value
      [] x.value = NaN /\ y.value = NaN -> x.text < y.text
      [] OTHER -> x.value # NaN

SemverListBefore(s, t) ==
    \/ Len(s) < Len(t) /\ SubSeq(t, 1, Len(s)) = s
    \/ \E i \in 1..Len(s) \cap 1..Len(t) :
          SemverBefore(s[i], t[i]) /\ SubSeq(s, 1, i - 1) = SubSeq(t, 1, i - 1)

SemverOlder(v, w) ==
    \/ SemverListBefore(v.main, w.main)
    \/ v.main = w.main /\ v.pre # <<>> /\ (w.pre = <<>> \/ SemverListBefore(v.pre, w.pre))

(* Without leading zeros a number is written in one way.                   *)
WrittenAlike(v, w) ==
    LET used == UNION {Range(v.main), Range(v.pre), Range(w.main), Range(w.pre)}
    IN  \A x, y \in used : x.value = y.value /\ x.value # NaN => x = y

(* On versions written as Semantic Versioning wants them, three numbers    *)
(* and identifiers without leading zeros, a release is taken for newer     *)
(* exactly if it is.                                                       *)
AgreesWithSemver ==
    \A latest \in Releases :
        Len(current.main) = 3 /\ Len(latest.main) = 3 /\ WrittenAlike(current, latest) =>
            (Older(current, latest) <=> SemverOlder(current, latest))
=============================================================================
