---------------------------- MODULE Persistence -----------------------------
(***************************************************************************)
(* The database (internal/store/store.go) beside the registry: observations *)
(* and renames change the registry first and the database later, each on a   *)
(* goroutine of its own (observe, markOffline, persist in discovery.go,       *)
(* Rename in controller.go), and the process may die between the two.         *)
(*                                                                         *)
(* A row is an Adapter that is not online; the row of a MAC without one is    *)
(* Absent.  Statements are atomic: one pooled connection, each its own         *)
(* transaction.                                                              *)
(***************************************************************************)
EXTENDS Inventory

CONSTANTS Inventories,    \* what the database may hold at first: Macs -> Adapter
          RawNames,       \* what users type: [text, length, control]
          MaxNameLength,
          MaxCommands,    \* bound on name commands
          MaxSaves        \* bound on copies of one device under way to Save

ASSUME PersistenceType ==
  /\ Inventories \subseteq [Macs -> Adapter]
  /\ \A rows \in Inventories, m \in Macs :
       ~rows[m].online /\ (rows[m].known \/ rows[m] = Absent)
  /\ MaxCommands \in Nat /\ MaxNameLength \in Nat /\ MaxSaves \in Nat
  /\ RawNames \subseteq [text : Names \cup {None}, length : Nat, control : BOOLEAN]
  /\ "invalid" \notin Names \cup {None}

VARIABLES adapters,   \* the registry
          proc,       \* "down", "read" (from New on) and "hydrate" (Start), "up",
                      \* "stopping"
          rows,       \* what LoadAll returned to Start
          db,         \* MAC -> its row
          saves,      \* [mac, copy]: adapters on their way to Save
          renames,    \* [id, mac, raw, at, alone]: goroutines running Rename
          commands,   \* name commands so far
          expected,   \* history: MAC -> the names the user may find there
          mixed       \* history: MACs of which two copies were under way together,
                      \* or which Hydrate set back behind their row or a copy

vars == <<adapters, proc, rows, db, saves, renames, commands, expected, mixed>>

\* ValidateName: None clears the name, "invalid" is an error.
ValidateName(raw) == IF raw.text = None THEN None
                     ELSE IF raw.length > MaxNameLength \/ raw.control THEN "invalid"
                     ELSE raw.text

\* The columns that Save owns.
Columns(a) == <<a.role, a.ip, a.hw, a.channel>>

PersistInit ==
  /\ adapters = [m \in Macs |-> Absent]
  /\ proc = "down"
  /\ db \in Inventories
  /\ rows = [m \in Macs |-> Absent]
  /\ saves = {} /\ renames = {} /\ commands = 0
  /\ expected = [m \in Macs |-> {db[m].name}]
  /\ mixed = {}

-----------------------------------------------------------------------------
(* Plausible slips, used by the mutants.                                    *)

UpsertEveryColumn(row, a) == [a EXCEPT !.online = FALSE]

UpsertAsIs(row, a) == [a EXCEPT !.name = IF row.known THEN row.name ELSE a.name]

UpsertExisting(row, a) ==
  IF row.known THEN [a EXCEPT !.name = row.name, !.online = FALSE] ELSE row

-----------------------------------------------------------------------------
(* Start: LoadAll, then Hydrate.  The broker's callbacks are wired before, in  *)
(* New: devices may be observed and renamed before, between and after.         *)

\* New.  From here on the name in the database is the name to be expected.
Boot == /\ proc = "down"
        /\ proc' = "read"
        /\ expected' = [m \in Macs |-> {db[m].name}]
        /\ UNCHANGED <<adapters, rows, db, saves, renames, commands, mixed>>

LoadAll == /\ proc = "read"
           /\ rows' = [m \in Macs |-> [db[m] EXCEPT !.online = FALSE]]
           /\ proc' = "hydrate"
           /\ UNCHANGED <<adapters, db, saves, renames, commands, expected, mixed>>

Saves(m) == {s \in saves : s.mac = m}

Renaming(m) == {r \in renames : r.mac = m}

\* What the rows replace in the registry: entries whose row or copies have moved
\* on since LoadAll are set back.
SetBack == {m \in Macs : rows[m].known /\ (Saves(m) # {} \/ Columns(db[m]) # Columns(rows[m]))}

\* A rename that has changed the registry is undone there.
Undone(r) == IF r.at = "store" THEN [r EXCEPT !.alone = FALSE] ELSE r

HydrateRows == /\ proc = "hydrate"
               /\ adapters' = Hydrate(adapters, rows)
               /\ proc' = "up"
               /\ rows' = [m \in Macs |-> Absent]
               /\ renames' = {Undone(r) : r \in renames}
               /\ mixed' = mixed \cup SetBack
               /\ UNCHANGED <<db, saves, commands, expected>>

(* Observations and what they leave to be saved.                             *)

\* persist on a goroutine of its own, with a copy of the adapter.
Persist(m, a) == /\ saves' = saves \cup {[mac |-> m, copy |-> a]}
                 /\ mixed' = IF Saves(m) = {} THEN mixed \ {m} ELSE mixed \cup {m}

\* observe: the registry, then persist with a copy if anything changed.
ObserveAndPersist(ip, info) ==
  LET m == Normalize[info.lanMAC]
  IN  /\ proc # "down" /\ m # None /\ Cardinality(Saves(m)) < MaxSaves
      /\ \E d \in Displacements(adapters, ip, m) :
           /\ adapters' = RecordObservation(adapters, ip, info, d)
           /\ IF Changed(ObservationOf(adapters, ip, info, d))
                THEN Persist(m, adapters'[m]) ELSE UNCHANGED <<saves, mixed>>
      /\ UNCHANGED <<proc, rows, db, renames, commands, expected>>

\* markOffline: a device that was online is saved, too.
MarkOfflineAndPersist(m) ==
  /\ proc # "down" /\ Cardinality(Saves(m)) < MaxSaves
  /\ adapters[m].online
  /\ adapters' = MarkOffline(adapters, m)
  /\ Persist(m, adapters'[m])
  /\ UNCHANGED <<proc, rows, db, renames, commands, expected>>

\* The row that Save's upsert leaves: on conflict the name stays.
Upsert(row, a) ==
  [a EXCEPT !.name = IF row.known THEN row.name ELSE a.name, !.online = FALSE]

\* persist: Save runs whatever has become of the caller's context.
Save(s) == /\ saves' = saves \ {s}
           /\ db' = [db EXCEPT ![s.mac] = Upsert(@, s.copy)]
           /\ UNCHANGED <<adapters, proc, rows, renames, commands, expected, mixed>>

(* Rename, one background goroutine per command.                             *)

\* A rename is alone if no other of its device is under way while it is, and
\* Hydrate does not undo it.
NameCommand(m, raw) ==
  /\ proc # "down" /\ commands < MaxCommands
  /\ renames' = {IF r.mac = m THEN [r EXCEPT !.alone = FALSE] ELSE r : r \in renames}
                \cup {[id |-> commands, mac |-> m, raw |-> raw, at |-> "begin",
                       alone |-> Renaming(m) = {}]}
  /\ commands' = commands + 1
  /\ UNCHANGED <<adapters, proc, rows, db, saves, expected, mixed>>

\* Lookup, ValidateName and the registry's SetName; an unknown device and an
\* invalid name end it.
RenameBegin(r) ==
  LET name == ValidateName(r.raw)
  IN  /\ r.at = "begin"
      /\ IF adapters[r.mac].known /\ name # "invalid"
           THEN /\ adapters' = SetName(adapters, r.mac, name)
                /\ renames' = (renames \ {r}) \cup {[r EXCEPT !.at = "store"]}
                /\ expected' = [expected EXCEPT ![r.mac] = @ \cup {name}]
           ELSE renames' = renames \ {r} /\ UNCHANGED <<adapters, expected>>
      /\ UNCHANGED <<proc, rows, db, saves, commands, mixed>>

\* The store's SetName: an UPDATE, under the lifetime's context.  Without a row
\* (ErrNotFound) and after the end of the lifetime the error is only logged.
\* After a rename that was alone and got through, its name is the only one,
\* but for rows that were read before it.
RenameStore(r) ==
  LET name == ValidateName(r.raw)
      stored == db[r.mac].known /\ proc # "stopping"
  IN  /\ r.at = "store"
      /\ renames' = renames \ {r}
      /\ db' = IF stored THEN [db EXCEPT ![r.mac].name = name] ELSE db
      /\ expected' = IF stored /\ r.alone /\ proc # "hydrate" THEN [expected EXCEPT ![r.mac] = {name}]
                     ELSE expected
      /\ UNCHANGED <<adapters, proc, rows, saves, commands, mixed>>

(* The end of the process.                                                   *)

\* Stop begins: Start has returned, or LoadAll has failed.
EndLife == /\ proc \in {"read", "up"}
           /\ proc' = "stopping"
           /\ UNCHANGED <<adapters, rows, db, saves, renames, commands, expected, mixed>>

\* Stop is done or gives up, or the process is killed at any point: the
\* registry and whatever was under way are gone.
Die == /\ proc # "down"
       /\ proc' = "down"
       /\ adapters' = [m \in Macs |-> Absent]
       /\ rows' = [m \in Macs |-> Absent]
       /\ saves' = {} /\ renames' = {} /\ mixed' = {}
       /\ UNCHANGED <<db, commands, expected>>

-----------------------------------------------------------------------------
Saving(m) == \E s \in Saves(m) : Save(s)
RunRename(m) == \E r \in Renaming(m) : RenameBegin(r) \/ RenameStore(r)

PersistNext == \/ Boot \/ LoadAll \/ HydrateRows \/ EndLife \/ Die
               \/ \E ip \in IPs, info \in DeviceInfo : ObserveAndPersist(ip, info)
               \/ \E m \in Macs : MarkOfflineAndPersist(m)
               \/ \E m \in Macs, raw \in RawNames : NameCommand(m, raw)
               \/ \E m \in Macs : Saving(m) \/ RunRename(m)

\* Goroutines run and the pooled connection serves them all; nothing is
\* assumed of the devices, the users or the process.
PersistSpec == /\ PersistInit /\ [][PersistNext]_vars
               /\ \A m \in Macs : WF_vars(Saving(m)) /\ WF_vars(RunRename(m))

-----------------------------------------------------------------------------
\* Type correctness; a row is never online.
PersistTypeOK ==
  /\ proc \in {"down", "read", "hydrate", "up", "stopping"}
  /\ adapters \in [Macs -> Adapter]
  /\ rows \in [Macs -> Adapter] /\ db \in [Macs -> Adapter]
  /\ saves \subseteq [mac : Macs, copy : Adapter]
  /\ renames \subseteq [id : Nat, mac : Macs, raw : RawNames, at : {"begin", "store"},
                        alone : BOOLEAN]
  /\ commands \in 0..MaxCommands
  /\ expected \in [Macs -> SUBSET (Names \cup {None})] /\ mixed \subseteq Macs
  /\ \A m \in Macs : ~db[m].online

\* Once no rename of a device is under way, its name in the registry and in the
\* database is the user's last, across crashes and restarts, and although
\* copies taken before the rename are saved after it.  Both the old and the new
\* name are possible until the next restart or rename only after a rename that
\* overtook another, found no row yet, or met Hydrate or the end of the process.
NamesSurvive ==
  \A m \in Macs : Renaming(m) = {} =>
    /\ db[m].known => db[m].name \in expected[m]
    /\ proc = "up" /\ adapters[m].known => adapters[m].name \in expected[m]

\* When nothing of a device is on its way to the database, its row is what the
\* registry shows, so that no change slips past the flags that decide on saving.
\* There are two exceptions, until the next change of the device: two copies
\* under way together, and a change that was saved, or on its way, between
\* LoadAll and Hydrate, which the registry then forgets.
RowIsLatest ==
  \A m \in Macs \ mixed : proc = "up" /\ adapters[m].known /\ Saves(m) = {} =>
    db[m].known /\ Columns(db[m]) = Columns(adapters[m])

\* A device the registry knows gets its row, whether it is found before, during
\* or after Start or when the controller is stopping, unless the process ends
\* first.
KnownBecomesStored ==
  \A m \in Macs : adapters[m].known ~> db[m].known \/ proc = "down"
=============================================================================
