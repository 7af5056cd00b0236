---------------------------- MODULE ConfigStore ----------------------------
(* ConfigRepository, the list model that shows its content, and the        *)
(* selection PaqetController keeps.  configs.json and the selection in     *)
(* QSettings outlive the program; the list and m_selectedConfigId do not.  *)
(* An entry is its id and its group: what else it holds travels with them. *)
(* What the calls do to a running connection is in PaqetController.        *)
EXTENDS Naturals, SequencesExt

CONSTANTS
    Ids,         \* ids of entries
    Groups,      \* names of groups
    Ungrouped,   \* the empty name
    None,        \* no selection, no readable file
    MaxConfigs   \* bound on the length of the file

ASSUME StoreAssumption ==
    /\ Ungrouped \in Groups
    /\ None \notin Ids
    /\ None \notin Seq([id : Ids, group : Groups])
    /\ MaxConfigs \in Nat

VARIABLES
    file,        \* configs.json: a list of entries; None: absent or not an array
    remembered,  \* lastSelectedConfigId in QSettings, and m_lastSelectedId
    up,          \* the program runs
    list,        \* ConfigListModel::m_configs
    selected     \* m_selectedConfigId

vars == <<file, remembered, up, list, selected>>
-----------------------------------------------------------------------------
Entry == [id : Ids, group : Groups]

IdsOf(s) == {s[i].id : i \in DOMAIN s}

TypeOK ==
    /\ file \in Seq(Entry) \cup {None}
    /\ remembered \in Ids \cup {None}
    /\ up \in BOOLEAN
    /\ list \in Seq(Entry)
    /\ selected \in Ids \cup {None}

(* An earlier version of the program, an editor or a crash may have left   *)
(* anything behind.                                                        *)
Init ==
    /\ file \in {None} \cup UNION {[1..n -> Entry] : n \in 0..2}
    /\ remembered \in Ids \cup {None}
    /\ up = FALSE
    /\ list = <<>>
    /\ selected = None

(* configs(), and add(), which ignores that load() failed.                 *)
Loaded == IF file = None THEN <<>> ELSE file

-----------------------------------------------------------------------------
(* What add(), update(), remove() and renameGroup() write.                 *)

Added(e) == Append(Loaded, e)

(* The first entry with that id is replaced.                               *)
Updated(e) ==
    [i \in DOMAIN file |->
        IF file[i].id = e.id /\ \A j \in 1..(i - 1) : file[j].id # e.id
        THEN e ELSE file[i]]

(* Mutant: erase() from the first match to the end.                        *)
RemovedWithRest(id) == SubSeq(file, 1, SelectInSeq(file, LAMBDA c : c.id = id) - 1)

(* The entries of s that do not have that id, in their order: those of the *)
(* first n entries, one by one.                                            *)
Others(s, id) ==
    LET kept[n \in 0..Len(s)] ==
            IF n = 0 THEN <<>>
            ELSE IF s[n].id = id THEN kept[n - 1] ELSE Append(kept[n - 1], s[n])
    IN  kept[Len(s)]

(* Every entry with that id goes.                                          *)
Removed(id) == Others(file, id)

Renamed(old, new) ==
    [i \in DOMAIN file |->
        IF file[i].group = old THEN [file[i] EXCEPT !.group = new] ELSE file[i]]

(* save() replaces the file or leaves it as it was (QSaveFile); only then  *)
(* configsChanged reloads the list.                                        *)
Save(s, saves) ==
    IF saves THEN file' = s /\ list' = s ELSE UNCHANGED <<file, list>>

(* setSelectedConfigId(), setLastSelectedId().                             *)
Select(id) == selected' = id /\ remembered' = id

-----------------------------------------------------------------------------
(* Calls from the pages, which offer the entries of the list.              *)

(* A click on an entry.                                                    *)
SetSelectedConfigId(id) ==
    /\ up
    /\ id \in IdsOf(list)
    /\ Select(id)
    /\ UNCHANGED <<file, up, list>>

(* add(), and the selection of what was added.                             *)
Add(e, saves) ==
    /\ up
    /\ Len(Loaded) < MaxConfigs
    /\ Save(Added(e), saves)
    /\ IF saves THEN Select(e.id) ELSE UNCHANGED <<selected, remembered>>
    /\ UNCHANGED up

(* saveConfig() of an entry without an id, which gets a new one.           *)
SaveNewConfig(e, saves) ==
    /\ e.id \notin IdsOf(Loaded) \cup {selected}
    /\ Add(e, saves)

(* An import in JSON keeps the id it carries, whoever else has it.         *)
AddConfigFromImport(e, saves) == Add(e, saves)

(* saveConfig() of an edited entry.                                        *)
SaveConfig(e, saves) ==
    /\ up
    /\ file # None
    /\ e.id \in IdsOf(list)
    /\ Save(Updated(e), saves)
    /\ UNCHANGED <<remembered, up, selected>>

(* Mutant: the controller leaves clearing the selection to the repository. *)
DeleteConfigAlone(id, saves) ==
    /\ up
    /\ file # None
    /\ id \in IdsOf(list)
    /\ Save(Removed(id), saves)
    /\ remembered' = IF saves /\ remembered = id THEN None ELSE remembered
    /\ UNCHANGED <<up, selected>>

(* deleteConfig(): remove() clears the remembered selection if it could    *)
(* save, the controller clears its own, and with it the other, in any case. *)
DeleteConfig(id, saves) ==
    /\ up
    /\ file # None
    /\ id \in IdsOf(list)
    /\ Save(Removed(id), saves)
    /\ IF selected = id
       THEN Select(None)
       ELSE /\ remembered' = IF saves /\ remembered = id THEN None ELSE remembered
            /\ UNCHANGED selected
    /\ UNCHANGED up

(* Mutant: configsChanged is not emitted.                                  *)
RenameGroupSilently(old, new, saves) ==
    /\ up
    /\ file # None
    /\ Ungrouped \notin {old, new}
    /\ old \in {file[i].group : i \in DOMAIN file} \ {new}
    /\ file' = IF saves THEN Renamed(old, new) ELSE file
    /\ UNCHANGED <<remembered, up, list, selected>>

(* renameGroup(): entries without a group are shown as "Ungrouped", a name *)
(* none of them has.                                                       *)
RenameGroup(old, new, saves) ==
    /\ up
    /\ file # None
    /\ Ungrouped \notin {old, new}
    /\ old \in {file[i].group : i \in DOMAIN file} \ {new}
    /\ Save(Renamed(old, new), saves)
    /\ UNCHANGED <<remembered, up, selected>>

-----------------------------------------------------------------------------
(* The program starts and ends.                                            *)

(* The constructors of the repository and of the controller.               *)
StartProgram ==
    /\ ~up
    /\ up' = TRUE
    /\ list' = Loaded
    /\ selected' = remembered
    /\ UNCHANGED <<file, remembered>>

(* The program quits or is killed; what it had in memory is gone.          *)
Ends ==
    /\ up
    /\ up' = FALSE
    /\ list' = <<>>
    /\ selected' = None

EndProgram == Ends /\ UNCHANGED <<file, remembered>>

(* It is killed within a call, between the commit of the file and the      *)
(* write to QSettings.                                                     *)
KilledAfterSave ==
    /\ Ends
    /\ \/ \E e \in Entry : Len(Loaded) < MaxConfigs /\ file' = Added(e)
       \/ \E id \in IdsOf(list) : file # None /\ file' = Removed(id)
    /\ UNCHANGED remembered

-----------------------------------------------------------------------------
UserCall ==
    \/ \E id \in Ids : SetSelectedConfigId(id)
    \/ \E e \in Entry, saves \in BOOLEAN :
          SaveNewConfig(e, saves) \/ AddConfigFromImport(e, saves) \/ SaveConfig(e, saves)
    \/ \E id \in Ids, saves \in BOOLEAN : DeleteConfig(id, saves)
    \/ \E old, new \in Groups, saves \in BOOLEAN : RenameGroup(old, new, saves)

Next == UserCall \/ StartProgram \/ EndProgram \/ KilledAfterSave

Spec == Init /\ [][Next]_vars

-----------------------------------------------------------------------------
(* Properties.                                                             *)

(* The list shows what the file holds, although every call reads the file  *)
(* anew and some of them fail half-way (configsChanged is only emitted     *)
(* after a save).                                                          *)
ListShowsFile == up => list = Loaded

(* The selection of the controller and the one that is remembered agree,   *)
(* although remove() and the controller clear them separately.             *)
SelectionIsRemembered == up => selected = remembered

(* No call makes a selection that is there dangle: it moves or is emptied  *)
(* with the entry it names.                                                *)
SelectionStays ==
    [][up /\ up' /\ selected \in IdsOf(Loaded) =>
         selected' \in IdsOf(Loaded') \cup {None}]_vars

(* A call or a crash only touches the entries of one id, those before and  *)
(* behind stay in their order, unless it moves a group to another name.    *)
OthersKept ==
    [][file # None =>
         \/ \E id \in Ids : Others(file', id) = Others(file, id)
         \/ \E old, new \in Groups : file' = Renamed(old, new)]_vars

-----------------------------------------------------------------------------
(* What the documentation says, and the code does not do: TLC finds a      *)
(* counterexample to it.                                                   *)

(* An id names one entry.                                                  *)
IdsAreUnique == \A i, j \in DOMAIN list : list[i].id = list[j].id => i = j
=============================================================================
