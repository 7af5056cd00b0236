----------------------------- MODULE CrashTable -----------------------------
(* CrashHandler: the table of child processes that the handler of a crash  *)
(* kills, as far as it is filled.                                          *)
EXTENDS Naturals, Sequences, SequencesExt

CONSTANT MaxChildPids   \* kMaxChildPids

(* There is room for paqet and the tunnel.                                 *)
ASSUME TableAssumption == MaxChildPids \in Nat /\ MaxChildPids >= 2

(* registerChildPid(): a full table takes no more.                         *)
Registered(table, pid) ==
    IF Len(table) < MaxChildPids THEN Append(table, pid) ELSE table

(* Mutant: the last entry is dropped, whoever's it is.                     *)
UnregisteredLast(table, pid) ==
    IF pid \in ToSet(table) THEN Front(table) ELSE table

(* unregisterChildPid(): the last entry takes the place of the first one   *)
(* that is this process.                                                   *)
Unregistered(table, pid) ==
    IF pid \notin ToSet(table) THEN table
    ELSE Front([table EXCEPT ![SelectInSeq(table, LAMBDA p : p = pid)] = Last(table)])
=============================================================================
