----------------------------- MODULE Migration ------------------------------
(***************************************************************************)
(* Opening the database (Open, migrate and adoptLegacySchema in               *)
(* internal/store/store.go): a new file, one of release 1.x, one of any       *)
(* earlier schema of this release and one of a later release, with the        *)
(* process ending or a statement failing between any two steps, and the       *)
(* next start finding what was left.                                          *)
(*                                                                         *)
(* The schema is the number of migrations whose effect is in the file (0: no   *)
(* adapters table), version is PRAGMA user_version.                            *)
(***************************************************************************)
EXTENDS Integers

CONSTANTS SchemaVersion,   \* schemaVersion, the number of migrations
          Newest           \* the version of the latest release that may have run

ASSUME VersionsType == /\ SchemaVersion \in Nat \ {0}
                       /\ Newest \in Nat /\ Newest >= SchemaVersion

VARIABLES version, schema,   \* the file as committed
          step,              \* where Open is
          current,           \* the local variable of migrate
          tx,                \* <<version, schema>> as the open transaction sees it
          found              \* history: what Open found, <<version, schema>>

vars == <<version, schema, step, current, tx, found>>

\* What files there are: new, of release 1.x (the table, no version), or of
\* this or a later release.
Init == /\ \/ version = 0 /\ schema \in {0, 1}
           \/ version \in 1..Newest /\ schema = version
        /\ step = "closed" /\ current = 0
        /\ tx = <<0, 0>> /\ found = <<version, schema>>

-----------------------------------------------------------------------------
(* Plausible slips, used by the mutants.                                    *)

AdoptedAsNew(table) == FALSE
TooNewNever(v) == FALSE
CreatedOutside(v) == schema' = v + 1 /\ tx' = <<tx[1], v + 1>>

-----------------------------------------------------------------------------
\* Open sets its pragmas and reads the version.
ReadVersion ==
  /\ step = "closed"
  /\ current' = version /\ found' = <<version, schema>>
  /\ step' = IF version = 0 THEN "legacy" ELSE "check"
  /\ UNCHANGED <<version, schema, tx>>

\* adoptLegacySchema: is there an adapters table?
Adopts(table) == table

LookForTable ==
  /\ step = "legacy"
  /\ step' = IF Adopts(schema > 0) THEN "mark" ELSE "check"
  /\ UNCHANGED <<version, schema, current, tx, found>>

MarkAdopted ==
  /\ step = "mark" /\ step' = "check"
  /\ version' = 1 /\ current' = 1
  /\ UNCHANGED <<schema, tx, found>>

TooNew(v) == v > SchemaVersion

Check ==
  /\ step = "check"
  /\ step' = IF TooNew(current) THEN "refused" ELSE "loop"
  /\ UNCHANGED <<version, schema, current, tx, found>>

\* The loop's condition.
Behind(v) == v < SchemaVersion

\* One round of the loop is one transaction.
Begin ==
  /\ step = "loop"
  /\ IF Behind(current) THEN step' = "create" /\ tx' = <<version, schema>>
                                ELSE step' = "open" /\ UNCHANGED tx
  /\ UNCHANGED <<version, schema, current, found>>

\* The effect of migrations[v], in the transaction.
Created(v) == tx' = <<tx[1], v + 1>> /\ UNCHANGED schema

\* migrations[current]; CREATE TABLE fails when the table is there.
Create ==
  /\ step = "create"
  /\ IF tx[2] = current THEN Created(current) /\ step' = "stamp"
                        ELSE step' = "refused" /\ UNCHANGED <<schema, tx>>
  /\ UNCHANGED <<version, current, found>>

\* user_version and the commit.
Stamp ==
  /\ step = "stamp" /\ step' = "loop"
  /\ version' = current + 1 /\ schema' = tx[2]
  /\ current' = current + 1
  /\ tx' = <<0, 0>>
  /\ UNCHANGED found

\* A statement fails or the process ends: an open transaction is rolled back,
\* Open gives up, and the next start tries again.
GiveUp ==
  /\ step # "closed" /\ step' = "closed"
  /\ current' = 0 /\ tx' = <<0, 0>>
  /\ UNCHANGED <<version, schema, found>>

Advance == ReadVersion \/ LookForTable \/ MarkAdopted \/ Check \/ Begin \/ Create \/ Stamp
Next == Advance \/ GiveUp

Spec == Init /\ [][Next]_vars

-----------------------------------------------------------------------------
Steps == {"closed", "legacy", "mark", "check", "loop", "create", "stamp", "open", "refused"}

\* Type correctness; the loop never takes a migration there is not.
TypeOK == /\ version \in 0..Newest /\ schema \in 0..Newest /\ current \in 0..Newest
          /\ step \in Steps
          /\ step \in {"create", "stamp"} => current < SchemaVersion
          /\ tx \in Nat \X Nat /\ found \in Nat \X Nat

\* At every moment, the moment a crash leaves behind included, the version in
\* the file tells its schema, or the file is one of release 1.x.
VersionTellsSchema == version = schema \/ (version = 0 /\ schema = 1)

\* An opened database is up to date, whatever was found and however often
\* opening it was broken off.
OpenMeansCurrent == step = "open" => version = SchemaVersion /\ schema = SchemaVersion

\* Only a file of a later release is refused, and it is left as it was: a
\* migration that was broken off never bars its repetition.
OnlyNewerRefused ==
  /\ step = "refused" => version > SchemaVersion
  /\ found[1] > SchemaVersion => <<version, schema>> = found

\* The inductive invariant behind these: what the local variables and the open
\* transaction say about the file at each step of Open.
MigrationInv ==
  /\ TypeOK /\ VersionTellsSchema
  /\ found[1] > SchemaVersion => <<version, schema>> = found
  /\ step = "legacy" => version = 0 /\ current = 0
  /\ step = "mark" => version = 0 /\ schema = 1
  /\ step \in {"check", "loop", "create", "stamp"} => current = version /\ schema = version
  /\ step \in {"loop", "create", "stamp"} => current <= SchemaVersion
  /\ step = "create" => tx = <<version, schema>>
  /\ step = "stamp" => tx = <<version, current + 1>>
  /\ step = "open" => version = SchemaVersion /\ schema = SchemaVersion
  /\ step = "refused" => version > SchemaVersion
=============================================================================
