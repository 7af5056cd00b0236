--------------------------- MODULE AdapterChoice ---------------------------
(* NetworkInfoDetector: which of the adapters the system lists are worth   *)
(* offering, and which one paqet is bound to.  Adapters are numbered in    *)
(* the order in which the system lists them; what the tools of the system  *)
(* print about an adapter is its link.                                     *)
EXTENDS Integers

CONSTANTS
    Adapters,   \* adapters that may be present, loopback aside
    Ordinary,   \* those whose name is not that of a virtual switch or a tunnel
    Links,      \* links that occur
    None        \* no adapter, no GUID, no link

Link == [active : BOOLEAN, ip : {"none", "local", "real"}]

ASSUME AdaptersAssumption ==
    /\ Adapters \subseteq Nat
    /\ Ordinary \subseteq Adapters
    /\ Links \subseteq Link
    /\ None \notin Adapters
    /\ None \notin Links

(* None is the link of an adapter that is not there.                       *)
Nets == [Adapters -> Links \cup {None}]

-----------------------------------------------------------------------------
Present(net) == {a \in Adapters : net[a] # None}

(* getAcceptableAdapters(): ordinary ones with an address that is neither  *)
(* link-local nor loopback.                                                *)
Acceptable(net) == {a \in Ordinary \cap Present(net) : net[a].ip = "real"}

(* An adapter has a GUID if PowerShell has named it, on Windows.  One that *)
(* only Qt knows of has an empty one, like every adapter elsewhere.        *)
Guid(a, named) == IF a \in named THEN a ELSE None

(* What a detection finds, and which of it has a GUID.                     *)
Lists == {list \in [adapters : SUBSET Ordinary, named : SUBSET Ordinary] :
             list.named \subseteq list.adapters}
NoList == [adapters |-> {}, named |-> {}]
GuidsOf(list) == {Guid(a, list.named) : a \in list.adapters}

(* detectAdapters(), as far as it is acceptable: PowerShell or ipconfig    *)
(* that is not done in five seconds leaves no adapter, or none with an     *)
(* address.                                                                *)
Detected(net, known, answering) ==
    IF answering THEN [adapters |-> Acceptable(net), named |-> Acceptable(net) \cap known]
    ELSE NoList

(* The first of the adapters in s: those without a GUID are appended to    *)
(* the others.                                                             *)
Foremost(s, named) ==
    LET t == IF s \cap named # {} THEN s \cap named ELSE s
    IN  CHOOSE a \in t : \A b \in t : a <= b

(* detectAdaptersUnix() gives the gateway of the default route to the      *)
(* first active adapter that has an address, whatever kind it is of; on    *)
(* Windows every adapter has the gateway ipconfig prints for it.           *)
Gateways(net, routed, windows) ==
    LET candidates == {a \in Present(net) : net[a].active /\ net[a].ip # "none"}
    IN  IF windows THEN routed \cap Present(net)
        ELSE IF routed = {} \/ candidates = {} THEN {} ELSE {Foremost(candidates, {})}

(* Mutant: a gateway will do, whether its MAC is known or not.             *)
DefaultUnresolved(list, net, gateways, resolved) ==
    LET c == list.adapters
        active == {a \in c : net[a].active}
    IN  IF c \cap gateways # {} THEN Foremost(c \cap gateways, list.named)
        ELSE IF active # {} THEN Foremost(active, list.named)
        ELSE IF c # {} THEN Foremost(c, list.named)
        ELSE None

(* getDefaultAdapter(): with a gateway whose MAC is known, with a gateway, *)
(* active, any.                                                            *)
Default(list, net, gateways, resolved) ==
    LET c == list.adapters
        active == {a \in c : net[a].active}
    IN  IF c \cap gateways \cap resolved # {}
        THEN Foremost(c \cap gateways \cap resolved, list.named)
        ELSE IF c \cap gateways # {} THEN Foremost(c \cap gateways, list.named)
        ELSE IF active # {} THEN Foremost(active, list.named)
        ELSE IF c # {} THEN Foremost(c, list.named)
        ELSE None

(* getAdapterByGuid()                                                      *)
ByGuid(guid, list, net, gateways, resolved) ==
    IF guid # None /\ guid \in list.named THEN guid
    ELSE Default(list, net, gateways, resolved)

-----------------------------------------------------------------------------
(* The choice is good if it is one of the adapters found, the one asked    *)
(* for if that is among them, else one whose gateway has a known MAC if    *)
(* there is one, else one with a gateway, else one that is up; none only   *)
(* if none was found.                                                      *)
GoodChoice(choice, guid, list, net, gateways, resolved) ==
    /\ choice = None <=> list.adapters = {}
    /\ choice # None => choice \in list.adapters
    /\ IF guid \in GuidsOf(list) \ {None}
       THEN Guid(choice, list.named) = guid
       ELSE IF list.adapters \cap gateways # {}
       THEN /\ choice \in gateways
            /\ list.adapters \cap gateways \cap resolved # {} => choice \in resolved
       ELSE \A a \in list.adapters : net[a].active => net[choice].active
=============================================================================
