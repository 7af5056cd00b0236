--------------------------- MODULE MCAdapterWatch ---------------------------
(* Two ordinary adapters and a tunnel, which the system lists first.       *)
EXTENDS AdapterWatch

SomeLinks ==
    {[active |-> TRUE, ip |-> "real"], [active |-> FALSE, ip |-> "real"],
     [active |-> TRUE, ip |-> "local"], [active |-> TRUE, ip |-> "none"]}
=============================================================================
