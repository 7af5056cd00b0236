-------------------------- MODULE ConfigFormsProofs --------------------------
(* Theorems about ConfigForms: an address says all of a tunnel, and the    *)
(* file keeps it, whatever numbers an object or an address holds.          *)
(*                                                                         *)
(* Both rest on one fact: what is read from an object is settled, a        *)
(* configuration that withDefaults() leaves as it is.                      *)
EXTENDS ConfigForms, TLAPS

(* The numbers an entry may hold.                                          *)
Conns == 1..256
Mtus == 50..1500

(* What withDefaults() makes of a number, and what is read of one in an    *)
(* address.                                                                *)
ConnOf(n) == Within(1, n, 256)
MtuOf(n) == IF n < 50 \/ n > 1500 THEN 1350 ELSE n
ConnIn(n) == IF n # None /\ n >= 1 /\ n <= 256 THEN n ELSE 1
MtuIn(n) == IF n # None /\ n >= 50 /\ n <= 1500 THEN n ELSE 1350

(* A configuration before withDefaults().                                  *)
Raw ==
    [key : Keys, block : Blocks \cup {"?", None}, mode : Modes \cup {"?", None},
     conn : Int, mtu : Int, listen : Int \cup {None}, params : [Params -> Int],
     wdelay : BOOLEAN, acknodelay : BOOLEAN, local : FlagLists, remote : FlagLists]

(* And behind it.                                                          *)
Settled ==
    {c \in [key : Keys, block : Blocks, mode : Modes,
            conn : Conns, mtu : Mtus, listen : Int, params : [Params -> Int],
            wdelay : BOOLEAN, acknodelay : BOOLEAN,
            local : FlagLists \ {"none"}, remote : FlagLists \ {"none"}] :
        \A p \in Params :
            IF c.mode = "manual" THEN c.params[p] \in Low[p]..High[p] ELSE c.params[p] = -1}

LEMMA SettledFields ==
    ASSUME NEW c \in Settled
    PROVE  /\ c.key \in Keys /\ c.block \in Blocks /\ c.mode \in Modes
           /\ c.conn \in Conns /\ c.mtu \in Mtus /\ c.listen \in Int
           /\ c.params \in [Params -> Int]
           /\ c.wdelay \in BOOLEAN /\ c.acknodelay \in BOOLEAN
           /\ c.local \in FlagLists \ {"none"} /\ c.remote \in FlagLists \ {"none"}
           /\ \A p \in Params :
                 IF c.mode = "manual" THEN c.params[p] \in Low[p]..High[p]
                 ELSE c.params[p] = -1
  BY DEF Settled

LEMMA UriFields ==
    ASSUME NEW u \in Uri
    PROVE  /\ u.key \in Keys \cup {None} /\ u.enc \in Blocks \cup {"?", None}
           /\ u.mode \in Modes \cup {"?", None}
           /\ u.conn \in Int \cup {None} /\ u.mtu \in Int \cup {None}
           /\ u.params \in [Params -> Int \cup {None}]
           /\ u.wdelay \in BOOLEAN \cup {None} /\ u.acknodelay \in BOOLEAN \cup {None}
           /\ u.local \in FlagLists \cup {None} /\ u.remote \in FlagLists \cup {None}
  BY DEF Uri

LEMMA Bounds ==
    \A p \in Params : /\ Low[p] \in Nat /\ High[p] \in Nat
                      /\ Preset[p] \in Low[p]..High[p]
  BY DEF Params, Low, High, Preset

LEMMA NumbersAreIntegers ==
    Conns \subseteq Int /\ Mtus \subseteq Int
  BY DEF Conns, Mtus

LEMMA NumbersSettle ==
    /\ \A n \in Int : ConnOf(n) \in Conns
    /\ \A n \in Int : MtuOf(n) \in Mtus
<1>1. \A n \in Int : ConnOf(n) \in Conns
  BY DEF ConnOf, Conns, Within
<1>2. \A n \in Int : MtuOf(n) \in Mtus
  BY DEF MtuOf, Mtus
<1>3. QED
  BY <1>1, <1>2, Zenon

LEMMA NumbersStay ==
    /\ \A n \in Conns : ConnOf(n) = n
    /\ \A n \in Mtus : MtuOf(n) = n
<1>1. \A n \in Conns : ConnOf(n) = n
  BY DEF Conns, ConnOf, Within
<1>2. \A n \in Mtus : MtuOf(n) = n
  BY DEF Mtus, MtuOf
<1>3. QED
  BY <1>1, <1>2, Zenon

LEMMA DefaultNumbers ==
    ASSUME NEW c
    PROVE  WithDefaults(c).conn = ConnOf(c.conn) /\ WithDefaults(c).mtu = MtuOf(c.mtu)
  BY DEF WithDefaults, ConnOf, MtuOf

LEMMA Settles ==
    ASSUME NEW c \in Raw
    PROVE  WithDefaults(c) \in Settled
<1> DEFINE d == WithDefaults(c)
<1>0. c.conn \in Int /\ c.mtu \in Int
  BY DEF Raw
<1>1. d.key \in Keys /\ d.wdelay \in BOOLEAN /\ d.acknodelay \in BOOLEAN
  BY DEF WithDefaults, Raw
<1>2. d.block \in Blocks /\ d.mode \in Modes /\ d.listen \in Int
  BY DEF WithDefaults, Raw, Blocks, Modes, Or
<1>3. d.conn \in Conns /\ d.mtu \in Mtus
  BY <1>0, NumbersSettle, DefaultNumbers, Zenon
<1>4. d.local \in FlagLists \ {"none"} /\ d.remote \in FlagLists \ {"none"}
  BY DEF WithDefaults, Raw, FlagLists
<1>5. /\ d.params \in [Params -> Int]
      /\ \A p \in Params :
            IF d.mode = "manual" THEN d.params[p] \in Low[p]..High[p] ELSE d.params[p] = -1
  <2>1. c.params \in [Params -> Int]
    BY DEF Raw
  <2>2. QED
    BY <2>1, Bounds DEF WithDefaults, Within
<1>6. d = [key |-> d.key, block |-> d.block, mode |-> d.mode, conn |-> d.conn,
           mtu |-> d.mtu, listen |-> d.listen, params |-> d.params, wdelay |-> d.wdelay,
           acknodelay |-> d.acknodelay, local |-> d.local, remote |-> d.remote]
  BY DEF WithDefaults
<1> HIDE DEF d
<1>7. d \in Settled
  BY <1>1, <1>2, <1>3, <1>4, <1>5, <1>6 DEF Settled
<1>8. QED
  BY <1>7 DEF d

LEMMA SettledStays ==
    ASSUME NEW c \in Settled
    PROVE  WithDefaults(c) = c
<1> DEFINE d == WithDefaults(c)
<1>1. d.key = c.key /\ d.wdelay = c.wdelay /\ d.acknodelay = c.acknodelay
  BY DEF WithDefaults
<1>2. d.block = c.block /\ d.mode = c.mode /\ d.listen = c.listen
  BY NoneAssumption DEF WithDefaults, Settled, Or
<1>3. d.conn = c.conn /\ d.mtu = c.mtu
  <2>1. c.conn \in Conns /\ c.mtu \in Mtus
    BY SettledFields, Zenon
  <2>2. QED
    BY <2>1, NumbersStay, DefaultNumbers, Zenon
<1>4. d.local = c.local /\ d.remote = c.remote
  BY DEF WithDefaults, Settled
<1>5. d.params = c.params
  BY Bounds DEF WithDefaults, Within, Settled
<1>6. d = [key |-> d.key, block |-> d.block, mode |-> d.mode, conn |-> d.conn,
           mtu |-> d.mtu, listen |-> d.listen, params |-> d.params, wdelay |-> d.wdelay,
           acknodelay |-> d.acknodelay, local |-> d.local, remote |-> d.remote]
  BY DEF WithDefaults
<1>7. c = [key |-> c.key, block |-> c.block, mode |-> c.mode, conn |-> c.conn,
           mtu |-> c.mtu, listen |-> c.listen, params |-> c.params, wdelay |-> c.wdelay,
           acknodelay |-> c.acknodelay, local |-> c.local, remote |-> c.remote]
  BY DEF Settled
<1> HIDE DEF d
<1>8. d = c
  BY <1>1, <1>2, <1>3, <1>4, <1>5, <1>6, <1>7
<1>9. QED
  BY <1>8 DEF d

LEMMA ObjectSettles ==
    ASSUME NEW m \in Object
    PROVE  FromVariantMap(m) \in Settled
<1> DEFINE
      raw == [key |-> Or(m.key, "empty"), block |-> m.block, mode |-> m.mode,
              conn |-> Or(m.conn, 0), mtu |-> Or(m.mtu, 0), listen |-> m.listen,
              params |-> [p \in Params |-> Or(m.params[p], -1)],
              wdelay |-> Or(m.wdelay, FALSE), acknodelay |-> Or(m.acknodelay, FALSE),
              local |-> Or(m.local, "PA"), remote |-> Or(m.remote, "PA")]
<1>1. Or(m.key, "empty") \in Keys
  BY DEF Object, Or, Keys
<1>2. Or(m.conn, 0) \in Int /\ Or(m.mtu, 0) \in Int
  BY DEF Object, Or
<1>3. [p \in Params |-> Or(m.params[p], -1)] \in [Params -> Int]
  BY DEF Object, Or
<1>4. Or(m.wdelay, FALSE) \in BOOLEAN /\ Or(m.acknodelay, FALSE) \in BOOLEAN
  BY DEF Object, Or
<1>5. Or(m.local, "PA") \in FlagLists /\ Or(m.remote, "PA") \in FlagLists
  BY DEF Object, Or, FlagLists
<1>6. /\ m.block \in Blocks \cup {"?", None}
      /\ m.mode \in Modes \cup {"?", None}
      /\ m.listen \in Int \cup {None}
  BY DEF Object
<1>7. raw \in Raw
  BY <1>1, <1>2, <1>3, <1>4, <1>5, <1>6 DEF Raw
<1>8. QED
  BY <1>7, Settles DEF FromVariantMap

(* Writing and reading an entry is the identity.                           *)
LEMMA ReadAsWritten ==
    ASSUME NEW c \in Settled
    PROVE  FromVariantMap(ToVariantMap(c)) = c
<1> DEFINE
      m == ToVariantMap(c)
      raw == [key |-> Or(m.key, "empty"), block |-> m.block, mode |-> m.mode,
              conn |-> Or(m.conn, 0), mtu |-> Or(m.mtu, 0), listen |-> m.listen,
              params |-> [p \in Params |-> Or(m.params[p], -1)],
              wdelay |-> Or(m.wdelay, FALSE), acknodelay |-> Or(m.acknodelay, FALSE),
              local |-> Or(m.local, "PA"), remote |-> Or(m.remote, "PA")]
<1>1. /\ m.key = c.key /\ m.block = c.block /\ m.mode = c.mode /\ m.conn = c.conn
      /\ m.mtu = c.mtu /\ m.listen = c.listen
      /\ m.wdelay = c.wdelay /\ m.acknodelay = c.acknodelay
      /\ m.local = c.local /\ m.remote = c.remote
      /\ m.params = [p \in Params |-> IF c.params[p] >= 0 THEN c.params[p] ELSE None]
  BY DEF ToVariantMap, Settled
<1>2. Or(c.key, "empty") = c.key /\ Or(c.local, "PA") = c.local /\ Or(c.remote, "PA") = c.remote
  <2>1. c.key \in Keys /\ c.local \in FlagLists /\ c.remote \in FlagLists
    BY DEF Settled
  <2>2. QED
    BY <2>1, NoneAssumption DEF Or
<1>3. Or(c.conn, 0) = c.conn /\ Or(c.mtu, 0) = c.mtu
  BY NoneAssumption, NumbersAreIntegers DEF Or, Settled
<1>4. Or(c.wdelay, FALSE) = c.wdelay /\ Or(c.acknodelay, FALSE) = c.acknodelay
  <2>1. c.wdelay # None /\ c.acknodelay # None
    <3>1. c.wdelay \in BOOLEAN /\ c.acknodelay \in BOOLEAN
      BY DEF Settled
    <3>2. QED
      BY <3>1, NoneAssumption
  <2>2. QED
    BY <2>1 DEF Or
<1>5. [p \in Params |-> Or(m.params[p], -1)] = c.params
  <2>1. \A p \in Params : c.params[p] \in Int /\ (c.params[p] < 0 => c.params[p] = -1)
    BY Bounds DEF Settled
  <2>2. \A p \in Params : Or(m.params[p], -1) = c.params[p]
    BY <1>1, <2>1, NoneAssumption DEF Or
  <2>3. QED
    BY <2>2 DEF Settled
<1>6. c = [key |-> c.key, block |-> c.block, mode |-> c.mode, conn |-> c.conn,
           mtu |-> c.mtu, listen |-> c.listen, params |-> c.params, wdelay |-> c.wdelay,
           acknodelay |-> c.acknodelay, local |-> c.local, remote |-> c.remote]
  BY DEF Settled
<1> HIDE DEF m
<1>7. raw = c
  BY <1>1, <1>2, <1>3, <1>4, <1>5, <1>6
<1>8. QED
  BY <1>7, SettledStays DEF FromVariantMap, m

(* Reading an address is what withDefaults() makes of this.                *)
RawOf(u) ==
    LET mode == IF u.mode \in Modes THEN u.mode ELSE "fast"
        manual == mode = "manual"
    IN  [key |-> Trimmed(u.key), block |-> IF u.enc \in Blocks THEN u.enc ELSE "aes",
         mode |-> mode,
         conn |-> IF u.conn # None /\ u.conn >= 1 /\ u.conn <= 256 THEN u.conn ELSE 1,
         mtu |-> IF u.mtu # None /\ u.mtu >= 50 /\ u.mtu <= 1500 THEN u.mtu ELSE 1350,
         listen |-> 1284,
         params |->
             [p \in Params |->
                 IF ~manual THEN -1
                 ELSE IF u.params[p] = None THEN Preset[p]
                 ELSE Within(Low[p], u.params[p], High[p])],
         wdelay |-> manual /\ Or(u.wdelay, FALSE),
         acknodelay |-> ~manual \/ Or(u.acknodelay, TRUE),
         local |-> Divided(u.local), remote |-> Divided(u.remote)]

LEMMA ReadsRaw ==
    ASSUME NEW u
    PROVE  ParseFromImport(u) = WithDefaults(RawOf(u))
  BY DEF ParseFromImport, RawOf

LEMMA RawShape ==
    ASSUME NEW u, NEW r, r = RawOf(u)
    PROVE  /\ r.listen = 1284
           /\ r = [key |-> r.key, block |-> r.block, mode |-> r.mode, conn |-> r.conn,
                   mtu |-> r.mtu, listen |-> r.listen, params |-> r.params,
                   wdelay |-> r.wdelay, acknodelay |-> r.acknodelay,
                   local |-> r.local, remote |-> r.remote]
  BY DEF RawOf

LEMMA RawTruths ==
    ASSUME NEW u, NEW r, r = RawOf(u)
    PROVE  /\ r.wdelay = (r.mode = "manual" /\ Or(u.wdelay, FALSE))
           /\ r.acknodelay = (r.mode # "manual" \/ Or(u.acknodelay, TRUE))
  BY DEF RawOf

(* A parameter that is read from an address.                               *)
TakenParam(p, n) == IF n = None THEN Preset[p] ELSE Within(Low[p], n, High[p])

LEMMA RawNumbers ==
    ASSUME NEW u, NEW r, r = RawOf(u)
    PROVE  r.conn = ConnIn(u.conn) /\ r.mtu = MtuIn(u.mtu)
  BY DEF RawOf, ConnIn, MtuIn

LEMMA RawNames ==
    ASSUME NEW u, NEW r, r = RawOf(u)
    PROVE  /\ r.key = Trimmed(u.key)
           /\ r.block = IF u.enc \in Blocks THEN u.enc ELSE "aes"
           /\ r.mode = IF u.mode \in Modes THEN u.mode ELSE "fast"
           /\ r.local = Divided(u.local) /\ r.remote = Divided(u.remote)
  BY DEF RawOf

LEMMA RawParams ==
    ASSUME NEW u, NEW r, r = RawOf(u)
    PROVE  /\ r.mode = "manual" => r.params = [p \in Params |-> TakenParam(p, u.params[p])]
           /\ r.mode # "manual" => r.params = [p \in Params |-> -1]
<1>1. CASE r.mode = "manual"
  BY <1>1 DEF RawOf, TakenParam
<1>2. CASE r.mode # "manual"
  BY <1>2 DEF RawOf
<1>3. QED
  BY <1>1, <1>2

LEMMA UriSettles ==
    ASSUME NEW u \in Uri
    PROVE  ParseFromImport(u) \in Settled
<1> DEFINE r == RawOf(u)
<1>1. r.key \in Keys /\ r.block \in Blocks /\ r.mode \in Modes /\ r.listen \in Int
  <2>1. Trimmed(u.key) \in Keys
    BY UriFields DEF Trimmed, Or, Keys
  <2>2. QED
    BY <2>1 DEF RawOf, Blocks, Modes
<1>2. r.conn \in Int /\ r.mtu \in Int
  BY DEF RawOf, Uri
<1>3. r.params \in [Params -> Int]
  <2>1. u.params \in [Params -> Int \cup {None}]
    BY DEF Uri
  <2>2. QED
    BY <2>1, Bounds DEF RawOf, Within
<1>4. r.wdelay \in BOOLEAN /\ r.acknodelay \in BOOLEAN
  BY DEF RawOf
<1>5. r.local \in FlagLists /\ r.remote \in FlagLists
  <2>1. \A f \in FlagLists \cup {None} : Divided(f) \in FlagLists
    BY DEF Divided, FlagLists
  <2>2. r.local = Divided(u.local) /\ r.remote = Divided(u.remote)
    BY DEF RawOf
  <2>3. u.local \in FlagLists \cup {None} /\ u.remote \in FlagLists \cup {None}
    BY DEF Uri
  <2>4. QED
    BY <2>1, <2>2, <2>3
<1>6. r = [key |-> r.key, block |-> r.block, mode |-> r.mode, conn |-> r.conn,
           mtu |-> r.mtu, listen |-> r.listen, params |-> r.params, wdelay |-> r.wdelay,
           acknodelay |-> r.acknodelay, local |-> r.local, remote |-> r.remote]
  BY DEF RawOf
<1> HIDE DEF r
<1>7. r \in Raw
  BY <1>1, <1>2, <1>3, <1>4, <1>5, <1>6 DEF Raw
<1>8. QED
  BY <1>7, Settles DEF ParseFromImport, RawOf, r

LEMMA TunnelFields ==
    ASSUME NEW config, NEW c, WithDefaults(config) = c
    PROVE  Tunnel(config) =
               [key |-> c.key, block |-> c.block, mode |-> c.mode, conn |-> c.conn,
                mtu |-> c.mtu,
                params |-> IF c.mode = "manual" THEN c.params ELSE [p \in Params |-> -1],
                wdelay |-> c.mode = "manual" /\ c.wdelay,
                acknodelay |-> c.mode = "manual" /\ c.acknodelay,
                local |-> c.local, remote |-> c.remote]
  BY DEF Tunnel

(* What is written to an address, unless it is the default, and what       *)
(* reading makes of it.                                                    *)
Given(value, default) == IF value = default THEN None ELSE value

LEMMA NumbersTravel ==
    /\ \A n \in Conns : ConnIn(Given(n, 1)) = n
    /\ \A n \in Mtus : MtuIn(Given(n, 1350)) = n
<1>1. None \notin Int
  BY NoneAssumption
<1>2. \A n \in Conns : ConnIn(Given(n, 1)) = n
  BY <1>1 DEF Conns, ConnIn, Given
<1>3. \A n \in Mtus : MtuIn(Given(n, 1350)) = n
  BY <1>1 DEF Mtus, MtuIn, Given
<1>4. QED
  BY <1>2, <1>3, Zenon

LEMMA NamesTravel ==
    /\ \A b \in Blocks : (IF Given(b, "aes") \in Blocks THEN Given(b, "aes") ELSE "aes") = b
    /\ \A m \in Modes : (IF Given(m, "fast") \in Modes THEN Given(m, "fast") ELSE "fast") = m
  BY NoneAssumption DEF Given

LEMMA KeysTravel ==
    \A k \in Keys : k # "padded" => Trimmed(k) = k
  BY NoneAssumption DEF Trimmed, Or, Keys

LEMMA FlagsTravel ==
    \A f \in FlagLists \ {"none", "P_A"} :
        Divided(Given(f, "PA")) = f
  BY NoneAssumption DEF Given, Divided, FlagLists

LEMMA ParamsTravel ==
    ASSUME NEW p \in Params, NEW n \in Low[p]..High[p]
    PROVE  TakenParam(p, IF n >= 0 THEN n ELSE None) = n
<1>1. Low[p] \in Nat /\ High[p] \in Nat /\ n \in Int /\ n >= Low[p] /\ n <= High[p]
  BY Bounds
<1>2. Within(Low[p], n, High[p]) = n
  BY <1>1 DEF Within
<1>3. n >= 0 /\ n # None
  BY <1>1, NoneAssumption
<1>4. QED
  BY <1>2, <1>3 DEF TakenParam

(* An address carries all of a tunnel whose key has no blanks around it    *)
(* and whose flags have no commas in them.                                 *)
LEMMA AddressSaysAll ==
    ASSUME NEW c \in Settled, c.key # "padded", c.local # "P_A", c.remote # "P_A"
    PROVE  Tunnel(ParseFromImport(ToPaqetUri(c))) = Tunnel(c)
<1> DEFINE manual == c.mode = "manual"
           params == [p \in Params |-> IF manual /\ c.params[p] >= 0 THEN c.params[p] ELSE None]
           u == [key |-> c.key, enc |-> Given(c.block, "aes"), mode |-> Given(c.mode, "fast"),
                 conn |-> Given(c.conn, 1), mtu |-> Given(c.mtu, 1350), params |-> params,
                 wdelay |-> IF manual THEN c.wdelay ELSE None,
                 acknodelay |-> IF manual THEN c.acknodelay ELSE None,
                 local |-> Given(c.local, "PA"), remote |-> Given(c.remote, "PA")]
           r == RawOf(u)
<1>1. WithDefaults(c) = c
  BY SettledStays
<1>2. ToPaqetUri(c) = u
  BY <1>1 DEF ToPaqetUri, Given
<1>3. ParseFromImport(u) = WithDefaults(r)
  BY ReadsRaw
<1> HIDE DEF params
<1>4. /\ u.key = c.key /\ u.enc = Given(c.block, "aes") /\ u.mode = Given(c.mode, "fast")
      /\ u.conn = Given(c.conn, 1) /\ u.mtu = Given(c.mtu, 1350) /\ u.params = params
      /\ u.local = Given(c.local, "PA") /\ u.remote = Given(c.remote, "PA")
  OBVIOUS
<1>5. manual => u.wdelay = c.wdelay /\ u.acknodelay = c.acknodelay
  OBVIOUS
<1>6. r = RawOf(u)
  OBVIOUS
<1> HIDE DEF u, r
<1>7. r.key = c.key /\ r.block = c.block /\ r.mode = c.mode
  BY <1>4, <1>6, RawNames, KeysTravel, NamesTravel, SettledFields
<1>8. r.conn = c.conn /\ r.mtu = c.mtu
  <2>1. r.conn = ConnIn(Given(c.conn, 1)) /\ r.mtu = MtuIn(Given(c.mtu, 1350))
    BY <1>4, <1>6, RawNumbers
  <2>2. c.conn \in Conns /\ c.mtu \in Mtus
    BY SettledFields, Zenon
  <2>3. QED
    BY <2>1, <2>2, NumbersTravel
<1>9. r.local = c.local /\ r.remote = c.remote
  BY <1>4, <1>6, RawNames, FlagsTravel, SettledFields
<1>10. r.params = c.params
  <2>1. c.params \in [Params -> Int]
    BY SettledFields
  <2>2. CASE manual
    <3>1. \A p \in Params : c.params[p] \in Low[p]..High[p]
      BY <2>2 DEF Settled
    <3>2. r.params = [p \in Params |-> TakenParam(p, u.params[p])]
      BY <1>6, <1>7, <2>2, RawParams
    <3>3. \A p \in Params : u.params[p] = IF c.params[p] >= 0 THEN c.params[p] ELSE None
      BY <1>4, <2>2 DEF params
    <3>4. ASSUME NEW p \in Params
          PROVE  TakenParam(p, u.params[p]) = c.params[p]
      BY <3>1, <3>3, ParamsTravel
    <3>5. QED
      BY <2>1, <3>2, <3>4
  <2>3. CASE ~manual
    <3>1. \A p \in Params : c.params[p] = -1
      BY <2>3 DEF Settled
    <3>2. r.params = [p \in Params |-> -1]
      BY <1>6, <1>7, <2>3, RawParams
    <3>3. QED
      BY <2>1, <3>1, <3>2
  <2>4. QED
    BY <2>2, <2>3
<1>11. /\ r.wdelay \in BOOLEAN /\ r.acknodelay \in BOOLEAN
       /\ manual => r.wdelay = c.wdelay /\ r.acknodelay = c.acknodelay
  <2>1. c.wdelay \in BOOLEAN /\ c.acknodelay \in BOOLEAN
    BY SettledFields
  <2>2. /\ r.wdelay = (r.mode = "manual" /\ Or(u.wdelay, FALSE))
        /\ r.acknodelay = (r.mode # "manual" \/ Or(u.acknodelay, TRUE))
    BY <1>6, RawTruths
  <2>3. ASSUME manual
        PROVE  r.wdelay = c.wdelay /\ r.acknodelay = c.acknodelay
    <3>1. r.mode = "manual"
      BY <1>7, <2>3
    <3>2. Or(u.wdelay, FALSE) = c.wdelay /\ Or(u.acknodelay, TRUE) = c.acknodelay
      <4>1. c.wdelay # None /\ c.acknodelay # None
        BY <2>1, NoneAssumption
      <4>2. QED
        BY <1>5, <2>3, <4>1 DEF Or
    <3>3. QED
      BY <2>1, <2>2, <3>1, <3>2
  <2>4. r.wdelay \in BOOLEAN /\ r.acknodelay \in BOOLEAN
    BY <1>6 DEF RawOf
  <2>5. QED
    BY <2>3, <2>4
<1>12. /\ r.listen = 1284
       /\ r = [key |-> r.key, block |-> r.block, mode |-> r.mode, conn |-> r.conn,
               mtu |-> r.mtu, listen |-> r.listen, params |-> r.params,
               wdelay |-> r.wdelay, acknodelay |-> r.acknodelay,
               local |-> r.local, remote |-> r.remote]
  BY <1>6, RawShape
<1> HIDE DEF manual
<1>13. r \in Settled
  <2>1. /\ c.key \in Keys /\ c.block \in Blocks /\ c.mode \in Modes
        /\ c.conn \in Conns /\ c.mtu \in Mtus /\ c.params \in [Params -> Int]
        /\ c.local \in FlagLists \ {"none"} /\ c.remote \in FlagLists \ {"none"}
    BY SettledFields
  <2>2. \A p \in Params :
          IF c.mode = "manual" THEN c.params[p] \in Low[p]..High[p] ELSE c.params[p] = -1
    BY DEF Settled
  <2>3. 1284 \in Int
    OBVIOUS
  <2>4. QED
    BY <1>7, <1>8, <1>9, <1>10, <1>11, <1>12, <2>1, <2>2, <2>3 DEF Settled
<1>14. WithDefaults(WithDefaults(r)) = r
  BY <1>13, SettledStays
<1>15. Tunnel(WithDefaults(r)) = Tunnel(c)
  BY <1>1, <1>7, <1>8, <1>9, <1>10, <1>11, <1>14, TunnelFields DEF manual
<1>16. QED
  BY <1>2, <1>3, <1>15

-----------------------------------------------------------------------------
(* Every step stores an object and shares an address.                      *)

(* What add() and update() have: settled, but for empty lists of flags.    *)
Stored ==
    [key : Keys, block : Blocks, mode : Modes,
     conn : Conns, mtu : Mtus, listen : Int, params : [Params -> Int],
     wdelay : BOOLEAN, acknodelay : BOOLEAN, local : FlagLists, remote : FlagLists]

LEMMA SettledIsStored == Settled \subseteq Stored
  BY DEF Settled, Stored

LEMMA ObjectWritten ==
    ASSUME NEW c \in Stored
    PROVE  ToVariantMap(c) \in Object
<1> DEFINE params == [p \in Params |-> IF c.params[p] >= 0 THEN c.params[p] ELSE None]
<1>1. params \in [Params -> Int \cup {None}]
  BY DEF Stored
<1> HIDE DEF params
<1>2. [c EXCEPT !.params = params] \in Object
  BY <1>1, NumbersAreIntegers DEF Stored, Object
<1>3. QED
  BY <1>2 DEF ToVariantMap, params

LEMMA UriWritten ==
    ASSUME NEW c \in Settled
    PROVE  ToPaqetUri(c) \in Uri
<1>1. WithDefaults(c) = c
  BY SettledStays
<1> DEFINE params == [p \in Params |-> IF c.mode = "manual" /\ c.params[p] >= 0
                                        THEN c.params[p] ELSE None]
           u == [key |-> c.key, enc |-> IF c.block = "aes" THEN None ELSE c.block,
                 mode |-> IF c.mode = "fast" THEN None ELSE c.mode,
                 conn |-> IF c.conn = 1 THEN None ELSE c.conn,
                 mtu |-> IF c.mtu = 1350 THEN None ELSE c.mtu,
                 params |-> params,
                 wdelay |-> IF c.mode = "manual" THEN c.wdelay ELSE None,
                 acknodelay |-> IF c.mode = "manual" THEN c.acknodelay ELSE None,
                 local |-> IF c.local = "PA" THEN None ELSE c.local,
                 remote |-> IF c.remote = "PA" THEN None ELSE c.remote]
<1>2. ToPaqetUri(c) = u
  BY <1>1 DEF ToPaqetUri
<1>3. params \in [Params -> Int \cup {None}]
  BY DEF Settled
<1>4. c.wdelay \in BOOLEAN /\ c.acknodelay \in BOOLEAN
  BY DEF Settled
<1> HIDE DEF params
<1>5. u \in Uri
  <2>1. u.conn \in Int \cup {None} /\ u.mtu \in Int \cup {None}
    <3>1. c.conn \in Int /\ c.mtu \in Int
      BY SettledFields, NumbersAreIntegers
    <3>2. QED
      BY <3>1
  <2>2. u.key \in Keys /\ u.enc \in Blocks \cup {None} /\ u.mode \in Modes \cup {None}
    BY DEF Settled
  <2>3. u.local \in FlagLists \cup {None} /\ u.remote \in FlagLists \cup {None}
    BY DEF Settled
  <2>4. u.wdelay \in BOOLEAN \cup {None} /\ u.acknodelay \in BOOLEAN \cup {None}
    BY <1>4
  <2>5. u = [key |-> u.key, enc |-> u.enc, mode |-> u.mode, conn |-> u.conn,
             mtu |-> u.mtu, params |-> params, wdelay |-> u.wdelay,
             acknodelay |-> u.acknodelay, local |-> u.local, remote |-> u.remote]
    OBVIOUS
  <2> HIDE DEF u
  <2>6. QED
    BY <1>3, <2>1, <2>2, <2>3, <2>4, <2>5 DEF Uri
<1>6. QED
  BY <1>2, <1>5

LEMMA UpdatedIsStored ==
    ASSUME NEW c \in Settled
    PROVE  Updated(c) \in Stored
<1>1. WithDefaults(c) = c
  BY SettledStays
<1>2. Updated(c) = [c EXCEPT !.local = c.local, !.remote = c.remote]
  BY <1>1 DEF Updated
<1>3. c \in Stored
  BY SettledIsStored
<1>4. [c EXCEPT !.local = c.local] = c
  BY <1>3 DEF Stored
<1>5. [c EXCEPT !.remote = c.remote] = c
  BY <1>3 DEF Stored
<1>6. [c EXCEPT !.local = c.local, !.remote = c.remote]
        = [[c EXCEPT !.local = c.local] EXCEPT !.remote = c.remote]
  BY <1>3 DEF Stored
<1>7. QED
  BY <1>2, <1>3, <1>4, <1>5, <1>6

LEMMA CollectedSettles ==
    ASSUME NEW fields \in Object
    PROVE  Collected(fields) \in Settled
<1> DEFINE m == [fields EXCEPT !.listen = None, !.params = [p \in Params |-> None],
                               !.wdelay = None, !.acknodelay = None]
<1>1. m \in Object
  BY DEF Object
<1>2. QED
  BY <1>1, ObjectSettles DEF Collected

LEMMA ImportSettles ==
    ASSUME NEW c \in Settled
    PROVE  WithDefaults([c EXCEPT !.listen = SettingsPort]) \in Settled
<1>1. c \in Raw
  BY NumbersAreIntegers DEF Settled, Raw
<1>2. SettingsPort \in Int
  BY FormsAssumption
<1>3. [c EXCEPT !.listen = SettingsPort] \in Raw
  BY <1>1, <1>2 DEF Raw
<1>4. QED
  BY <1>3, Settles

(* The types.                                                              *)
THEOREM TypeCorrect == Spec => []TypeOK
<1>1. Init => TypeOK
  BY FormsAssumption DEF Init, TypeOK
<1>2. ASSUME TypeOK, [Next]_vars
      PROVE  TypeOK'
  <2>1. ASSUME NEW c \in Settled, AddConfigFromImport(c)
        PROVE  TypeOK'
    <3>1. entry' \in Object
      BY <2>1, ImportSettles, SettledIsStored, ObjectWritten DEF AddConfigFromImport
    <3>2. QED
      BY <1>2, <2>1, <3>1 DEF AddConfigFromImport, TypeOK
  <2>2. CASE \E m \in Objects : AddConfigFromImport(FromVariantMap(m))
    BY <2>1, <2>2, FormsAssumption, ObjectSettles
  <2>3. CASE \E u \in Uris : AddConfigFromImport(ParseFromImport(u))
    BY <2>1, <2>3, FormsAssumption, UriSettles
  <2>4. CASE shared # None /\ AddConfigFromImport(ParseFromImport(shared))
    BY <1>2, <2>1, <2>4, UriSettles DEF TypeOK
  <2>5. ASSUME NEW fields \in Edits, SaveNewConfig(fields) \/ SaveConfig(fields)
        PROVE  TypeOK'
    <3>1. Collected(fields) \in Settled
      BY FormsAssumption, CollectedSettles
    <3>2. CASE SaveNewConfig(fields)
      <4>1. entry' \in Object
        BY <3>1, <3>2, SettledStays, SettledIsStored, ObjectWritten DEF SaveNewConfig
      <4>2. QED
        BY <1>2, <3>2, <4>1 DEF SaveNewConfig, TypeOK
    <3>3. CASE SaveConfig(fields)
      <4>1. entry' \in Object
        BY <3>1, <3>3, UpdatedIsStored, ObjectWritten DEF SaveConfig
      <4>2. QED
        BY <1>2, <3>3, <4>1 DEF SaveConfig, TypeOK
    <3>4. QED
      BY <2>5, <3>2, <3>3
  <2>6. CASE FileRewritten
    <3>1. entry \in Object
      BY <1>2, <2>6 DEF FileRewritten, TypeOK
    <3>2. entry' \in Object
      BY <2>6, <3>1, ObjectSettles, SettledIsStored, ObjectWritten DEF FileRewritten
    <3>3. QED
      BY <1>2, <2>6, <3>2 DEF FileRewritten, TypeOK
  <2>7. CASE ExportPaqetUri
    <3>1. entry \in Object
      BY <1>2, <2>7 DEF ExportPaqetUri, TypeOK
    <3>2. shared' \in Uri
      BY <2>7, <3>1, ObjectSettles, UriWritten DEF ExportPaqetUri
    <3>3. QED
      BY <1>2, <2>7, <3>2 DEF ExportPaqetUri, TypeOK
  <2>8. CASE UNCHANGED vars
    BY <1>2, <2>8 DEF vars, TypeOK
  <2>9. QED
    BY <1>2, <2>2, <2>3, <2>4, <2>5, <2>6, <2>7, <2>8 DEF Next
<1>3. QED
  BY <1>1, <1>2, PTL DEF Spec

(* Who imports the address of an entry gets the tunnel its owner has       *)
(* (toPaqetUri() and parseFromImport() agree on what is left out),         *)
(* whatever numbers the entry holds.                                       *)
THEOREM AddressCarriesTunnel == Spec => []SharedTunnelsAreAlike
<1>1. TypeOK => SharedTunnelsAreAlike
  <2>1. ASSUME TypeOK, entry # None
        PROVE  FromVariantMap(entry) \in Settled
    BY <2>1, ObjectSettles DEF TypeOK
  <2>2. QED
    BY <2>1, AddressSaysAll DEF SharedTunnelsAreAlike
<1>2. QED
  BY <1>1, TypeCorrect, PTL

(* load() and save() for the sake of other entries change nothing that     *)
(* paqet is told of this one.                                              *)
THEOREM RewritingIsHarmless == Spec => []RewritingKeepsTunnel
<1>1. TypeOK => RewritingKeepsTunnel
  <2>1. ASSUME TypeOK, entry # None
        PROVE  FromVariantMap(entry) \in Settled
    BY <2>1, ObjectSettles DEF TypeOK
  <2>2. QED
    BY <2>1, ReadAsWritten DEF RewritingKeepsTunnel
<1>2. QED
  BY <1>1, TypeCorrect, PTL
=============================================================================
