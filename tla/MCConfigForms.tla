--------------------------- MODULE MCConfigForms ---------------------------
(* Objects and addresses with values on and next to every bound, one field *)
(* or one parameter at a time, in manual mode and out of it.               *)
EXTENDS ConfigForms, TLC

Numbers == {None, -1, 0, 1, 2, 3, 9, 10, 5000, 5001}

Given == [p \in Params |-> 1]
Variants(f) == {[f EXCEPT ![p] = n] : p \in Params, n \in Numbers}

Common ==
    [key |-> "key", conn |-> 1, mtu |-> 1350, wdelay |-> TRUE, acknodelay |-> FALSE,
     local |-> "PA", remote |-> "P_and_A"]

(* r with one field changed.                                               *)
Changed(r) ==
    UNION {
        {[r EXCEPT !.key = k] : k \in Keys \cup {None}},
        {[r EXCEPT !.conn = n] : n \in {None, -1, 0, 1, 2, 255, 256, 257}},
        {[r EXCEPT !.mtu = n] : n \in {None, 49, 50, 51, 1349, 1500, 1501}},
        {[r EXCEPT !.local = f] : f \in FlagLists \cup {None}},
        {[r EXCEPT !.remote = f] : f \in FlagLists \cup {None}},
        {[r EXCEPT !.wdelay = b] : b \in BOOLEAN \cup {None}},
        {[r EXCEPT !.acknodelay = b] : b \in BOOLEAN \cup {None}},
        {[r EXCEPT !.params = f] : f \in Variants(Given)}}

InMode(mode) == [mode |-> mode, params |-> Given] @@ Common

SomeObject(mode) == [listen |-> 1284, block |-> "aes"] @@ InMode(mode)
SomeObjects ==
    Changed(SomeObject("manual")) \cup Changed(SomeObject("fast"))
    \cup {[SomeObject("normal") EXCEPT !.listen = n] : n \in {None, 0, 1, 65535, 65536}}
    \cup {[SomeObject(mode) EXCEPT !.block = b] : mode \in {"?", None}, b \in {"none", "?", None}}

Address(mode) == [enc |-> None] @@ InMode(mode)
SomeUris ==
    Changed(Address("manual")) \cup Changed(Address(None))
    \cup {[Address(mode) EXCEPT !.enc = b] : mode \in {"?", "normal"}, b \in {"none", "?"}}

SomeEdits ==
    {[SomeObject(mode) EXCEPT !.listen = None, !.params = [p \in Params |-> None],
                              !.wdelay = None, !.acknodelay = None,
                              !.conn = n, !.local = f] :
         mode \in {"fast", "manual"}, n \in {1, 256, 257}, f \in FlagLists \ {"P_A"}}
=============================================================================
