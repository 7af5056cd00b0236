---------------------------- MODULE ConfigForms ----------------------------
(* PaqetConfig, and the forms one configuration takes: the object in       *)
(* configs.json or in an import, the fields of the editor, the paqet://    *)
(* address it is shared as, and the file paqet is launched with.  Address, *)
(* name and group travel unchanged and are left out; the network fields    *)
(* are overwritten at every connection.                                    *)
EXTENDS Integers

CONSTANTS
    Objects,       \* objects found in the file or pasted
    Edits,         \* what the fields of the editor may hold
    Uris,          \* addresses pasted that were written by hand
    SettingsPort,  \* SettingsRepository::socksPort()
    None           \* a field that is missing; no entry, no address

VARIABLES
    entry,    \* the object in configs.json
    shared    \* the address in the clipboard, if the program wrote it

vars == <<entry, shared>>
-----------------------------------------------------------------------------
Blocks == {"aes", "none"}              \* two of the ciphers of kcpBlockList
Modes == {"fast", "normal", "manual"}  \* three of kcpModeList
Params == {"nodelay", "interval", "resend", "nocongestion"}
Keys == {"empty", "key", "padded"}           \* the last is "key" with blanks around it

(* "PA" is the default.  "P_A" stands for one flag that has a comma in it, *)
(* which only an object can hold, "P_and_A" for the two it divides into.   *)
FlagLists == {"none", "PA", "P_A", "P_and_A"}

(* The fields of an object: any may be missing, some hold anything.        *)
Object ==
    [key : Keys \cup {None}, block : Blocks \cup {"?", None}, mode : Modes \cup {"?", None},
     conn : Int \cup {None}, mtu : Int \cup {None}, listen : Int \cup {None},
     params : [Params -> Int \cup {None}],
     wdelay : BOOLEAN \cup {None}, acknodelay : BOOLEAN \cup {None},
     local : FlagLists \cup {None}, remote : FlagLists \cup {None}]

Uri ==
    [key : Keys \cup {None}, enc : Blocks \cup {"?", None}, mode : Modes \cup {"?", None},
     conn : Int \cup {None}, mtu : Int \cup {None}, params : [Params -> Int \cup {None}],
     wdelay : BOOLEAN \cup {None}, acknodelay : BOOLEAN \cup {None},
     local : FlagLists \cup {None}, remote : FlagLists \cup {None}]

ASSUME FormsAssumption ==
    /\ Objects \subseteq Object
    /\ Edits \subseteq Object
    /\ Uris \subseteq Uri
    /\ SettingsPort \in Int

ASSUME NoneAssumption ==
    None \notin Int \cup BOOLEAN \cup Keys \cup Blocks \cup Modes \cup FlagLists

-----------------------------------------------------------------------------
Or(field, default) == IF field = None THEN default ELSE field

Within(low, n, high) == IF n < low THEN low ELSE IF n > high THEN high ELSE n

Low == [p \in Params |-> IF p = "interval" THEN 10 ELSE 0]
High ==
    [p \in Params |->
        CASE p = "interval" -> 5000 [] p = "resend" -> 2 [] OTHER -> 1]
Preset ==
    [p \in Params |->
        CASE p = "interval" -> 10 [] p = "resend" -> 2 [] OTHER -> 1]

(* withDefaults(): the parameters only mean something in manual mode, a    *)
(* negative one was not given.                                             *)
WithDefaults(c) ==
    LET mode == IF c.mode \in Modes THEN c.mode ELSE "fast"
    IN  [key |-> c.key,
         block |-> IF c.block \in Blocks THEN c.block ELSE "aes",
         mode |-> mode,
         conn |-> Within(1, c.conn, 256),
         mtu |-> IF c.mtu < 50 \/ c.mtu > 1500 THEN 1350 ELSE c.mtu,
         listen |-> Or(c.listen, 1284),
         params |->
             [p \in Params |->
                 IF mode # "manual" THEN -1
                 ELSE IF c.params[p] < 0 THEN Preset[p]
                 ELSE Within(Low[p], c.params[p], High[p])],
         wdelay |-> c.wdelay,
         acknodelay |-> c.acknodelay,
         local |-> IF c.local = "none" THEN "PA" ELSE c.local,
         remote |-> IF c.remote = "none" THEN "PA" ELSE c.remote]

(* Mutant: a parameter of 0 counts as not given.                           *)
ToVariantMapPositive(c) ==
    [c EXCEPT !.params = [p \in Params |-> IF c.params[p] > 0 THEN c.params[p] ELSE None]]

ToVariantMap(c) ==
    [c EXCEPT !.params = [p \in Params |-> IF c.params[p] >= 0 THEN c.params[p] ELSE None]]

(* fromVariantMap(): a missing number is 0, a missing truth value false, a *)
(* missing list of flags the default.                                      *)
FromVariantMap(m) ==
    WithDefaults(
        [key |-> Or(m.key, "empty"), block |-> m.block, mode |-> m.mode,
         conn |-> Or(m.conn, 0), mtu |-> Or(m.mtu, 0), listen |-> m.listen,
         params |-> [p \in Params |-> Or(m.params[p], -1)],
         wdelay |-> Or(m.wdelay, FALSE), acknodelay |-> Or(m.acknodelay, FALSE),
         local |-> Or(m.local, "PA"), remote |-> Or(m.remote, "PA")])

(* toPaqetUri(): what has its default is left out.                         *)
ToPaqetUri(config) ==
    LET c == WithDefaults(config)
        Unless(default, value) == IF value = default THEN None ELSE value
        manual == c.mode = "manual"
    IN  [key |-> c.key, enc |-> Unless("aes", c.block), mode |-> Unless("fast", c.mode),
         conn |-> Unless(1, c.conn), mtu |-> Unless(1350, c.mtu),
         params |-> [p \in Params |-> IF manual /\ c.params[p] >= 0 THEN c.params[p] ELSE None],
         wdelay |-> IF manual THEN c.wdelay ELSE None,
         acknodelay |-> IF manual THEN c.acknodelay ELSE None,
         local |-> Unless("PA", c.local), remote |-> Unless("PA", c.remote)]

(* Values are trimmed, and flags divided at commas.                        *)
Trimmed(key) == IF key = "padded" THEN "key" ELSE Or(key, "empty")
Divided(flags) == CASE flags \in {"none", None} -> "PA" [] flags = "P_A" -> "P_and_A" [] OTHER -> flags

(* Mutant: the bounds are outside the range.                               *)
ParseFromImportNarrow(u) ==
    WithDefaults(
        [key |-> Trimmed(u.key), block |-> IF u.enc \in Blocks THEN u.enc ELSE "aes",
         mode |-> u.mode,
         conn |-> IF u.conn # None /\ u.conn > 1 /\ u.conn < 256 THEN u.conn ELSE 1,
         mtu |-> IF u.mtu # None /\ u.mtu > 50 /\ u.mtu < 1500 THEN u.mtu ELSE 1350,
         listen |-> 1284,
         params |-> [p \in Params |-> Or(u.params[p], -1)],
         wdelay |-> Or(u.wdelay, FALSE), acknodelay |-> Or(u.acknodelay, TRUE),
         local |-> Divided(u.local), remote |-> Divided(u.remote)])

(* parseFromImport() of an address.  A value out of range is not one.      *)
ParseFromImport(u) ==
    LET mode == IF u.mode \in Modes THEN u.mode ELSE "fast"
        manual == mode = "manual"
    IN  WithDefaults(
        [key |-> Trimmed(u.key), block |-> IF u.enc \in Blocks THEN u.enc ELSE "aes",
         mode |-> mode,
         conn |-> IF u.conn # None /\ u.conn >= 1 /\ u.conn <= 256 THEN u.conn ELSE 1,
         mtu |-> IF u.mtu # None /\ u.mtu >= 50 /\ u.mtu <= 1500 THEN u.mtu ELSE 1350,
         listen |-> 1284,
         params |->
             [p \in Params |->
                 IF ~manual THEN -1
                 ELSE IF u.params[p] = None THEN Preset[p]
                 ELSE Within(Low[p], u.params[p], High[p])],
         wdelay |-> manual /\ Or(u.wdelay, FALSE),
         acknodelay |-> ~manual \/ Or(u.acknodelay, TRUE),
         local |-> Divided(u.local), remote |-> Divided(u.remote)])

(* socksPort()                                                             *)
SocksPort(c) == IF c.listen \in 1..65535 THEN c.listen ELSE 1284

(* What toYaml() tells paqet of the tunnel; the file only has parameters   *)
(* in manual mode.                                                         *)
Tunnel(config) ==
    LET c == WithDefaults(config)
        manual == c.mode = "manual"
    IN  [key |-> c.key, block |-> c.block, mode |-> c.mode, conn |-> c.conn, mtu |-> c.mtu,
         params |-> IF manual THEN c.params ELSE [p \in Params |-> -1],
         wdelay |-> manual /\ c.wdelay, acknodelay |-> manual /\ c.acknodelay,
         local |-> c.local, remote |-> c.remote]

-----------------------------------------------------------------------------
Init ==
    /\ entry \in Objects \cup {None}
    /\ shared = None

(* add() of an import: the port is that of the settings.                   *)
AddConfigFromImport(config) ==
    /\ entry' = ToVariantMap(WithDefaults([config EXCEPT !.listen = SettingsPort]))
    /\ UNCHANGED shared

(* What ConfigRepository::update() stores: empty lists of flags stay empty. *)
Updated(c) ==
    [WithDefaults(c) EXCEPT !.local = IF c.local = "none" THEN "none" ELSE @,
                            !.remote = IF c.remote = "none" THEN "none" ELSE @]

(* What the editor has collected: never the parameters of manual mode, nor *)
(* a port.                                                                 *)
Collected(fields) ==
    FromVariantMap([fields EXCEPT !.listen = None, !.params = [p \in Params |-> None],
                                  !.wdelay = None, !.acknodelay = None])

(* saveConfig() of a new entry: add().                                     *)
SaveNewConfig(fields) ==
    /\ entry' = ToVariantMap(WithDefaults(Collected(fields)))
    /\ UNCHANGED shared

(* saveConfig() of the entry: update().                                    *)
SaveConfig(fields) ==
    /\ entry # None
    /\ entry' = ToVariantMap(Updated(Collected(fields)))
    /\ UNCHANGED shared

(* Some other entry is added, changed or removed: load() and save().       *)
FileRewritten ==
    /\ entry # None
    /\ entry' = ToVariantMap(FromVariantMap(entry))
    /\ UNCHANGED shared

ExportPaqetUri ==
    /\ entry # None
    /\ shared' = ToPaqetUri(FromVariantMap(entry))
    /\ UNCHANGED entry

Next ==
    \/ \E m \in Objects : AddConfigFromImport(FromVariantMap(m))
    \/ \E u \in Uris : AddConfigFromImport(ParseFromImport(u))
    \/ shared # None /\ AddConfigFromImport(ParseFromImport(shared))
    \/ \E fields \in Edits : SaveNewConfig(fields) \/ SaveConfig(fields)
    \/ FileRewritten
    \/ ExportPaqetUri

Spec == Init /\ [][Next]_vars

-----------------------------------------------------------------------------
(* Properties.                                                             *)

TypeOK ==
    /\ entry \in Object \cup {None}
    /\ shared \in Uri \cup {None}

(* Who imports the address of an entry gets the tunnel its owner has, for  *)
(* keys without blanks around them and flags without commas in them:       *)
(* toPaqetUri() leaves out exactly what parseFromImport() fills in.        *)
SharedTunnelsAreAlike ==
    entry # None =>
        LET c == FromVariantMap(entry)
        IN  c.key # "padded" /\ "P_A" \notin {c.local, c.remote} =>
                Tunnel(ParseFromImport(ToPaqetUri(c))) = Tunnel(c)

(* However often the file is read and written for the sake of other        *)
(* entries, paqet is told the same of the tunnel, and the port stays.      *)
RewritingKeepsTunnel ==
    entry # None =>
        LET c == FromVariantMap(entry)
            again == FromVariantMap(ToVariantMap(c))
        IN  Tunnel(again) = Tunnel(c) /\ SocksPort(again) = SocksPort(c)

(* What the comments and the editor say, and the code does not do: TLC     *)
(* finds a counterexample to each of these.                                *)

(* "preserve them to allow explicit empty flags".                          *)
EmptyFlagsAreKept ==
    [][\A fields \in Edits :
         fields.local = "none" /\ SaveConfig(fields) => entry'.local = "none"]_vars

(* An entry whose fields are saved as the editor shows them is unchanged.  *)
EditorKeepsTheRest ==
    [][\A fields \in Edits :
         /\ SaveConfig(fields)
         /\ LET c == FromVariantMap(entry)
            IN  fields = [c EXCEPT !.params = fields.params, !.listen = fields.listen,
                                   !.wdelay = fields.wdelay, !.acknodelay = fields.acknodelay]
         => Tunnel(FromVariantMap(entry')) = Tunnel(FromVariantMap(entry))]_vars
=============================================================================
