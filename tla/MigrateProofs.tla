---------------------------- MODULE MigrateProofs ----------------------------
(***************************************************************************)
(* The migration is safe for any number of runs and services and any       *)
(* database whose history tells the truth about the cleanup.               *)
(*                                                                         *)
(* On MySQL the invariant says what each run knows at each of its steps    *)
(* (Knows).                                                                *)
(* It holds because GET_LOCK lets one run past it at a time (LockHeld), so *)
(* that nothing a run has read changes under it, and because the foreign   *)
(* key is the first thing migration 2 drops and the last it brings back:   *)
(* a schema that is verified is at the end of a migration (lemma Verdict). *)
(*                                                                         *)
(* On SQLite runs overlap, and a row says less than the schema may be at.  *)
(* It never says more, because what a run has found of the schema stays    *)
(* true as the schema only goes forward (SeesSchema).                      *)
(***************************************************************************)
EXTENDS Migrate, TLAPS

\* Past GET_LOCK.
Inside == {"listing", "reading", "deciding", "opening", "forcing", "starting",
           "marking", "executing", "cleaning", "orphaned"}

LockHeld == \A p \in Migrators : pc[p] \in Inside => lock = p

\* What the row says is so; the cleanup may be ahead of it.
RowIsTrue ==
    /\ version = 0 => ~dirty
    /\ version > 0 => hasTable /\ drift = {}
    /\ version > 0 /\ ~dirty => partial = 0 /\ (level = version \/ (version = 2 /\ level = 3))

\* What is executed of a migration is less than all of it; a schema without a row
\* is as Prisma left it.
SchemaIsSane ==
    /\ level < Version => partial < Statements[level + 1]
    /\ level >= Version => partial = 0
    /\ level = 0 /\ partial = 0 => drift = {}
    /\ version = 0 /\ level = 2 /\ HistoryAccepted(history) => Completed(history) # 1..3

Untouched == level = 0 /\ partial = 0 /\ drift = {}

\* The schema is at version v.
At(v) == partial = 0 /\ drift = {} /\ (level = v \/ (v = 2 /\ level = 3))

\* How far the run is in its migration.
Progress(p) ==
    \/ level = target[p] - 1 /\ partial = done[p] /\ done[p] < Statements[target[p]]
    \/ level = target[p] /\ partial = 0 /\ (target[p] = 3 \/ done[p] = Statements[target[p]])

Knows(p) ==
    /\ pc[p] \in Ended \cup {"locking", "listing", "reading", "deciding"} => adopt[p] = 0
    /\ pc[p] \in {"reading", "deciding"} => (data[p] <=> level > 0 \/ partial > 0)
    /\ pc[p] = "deciding" => version = 0
    /\ pc[p] = "opening" =>
          /\ ~dirty /\ version <= Version
          /\ adopt[p] > 0 => version = 0 /\ At(adopt[p])
          /\ adopt[p] = 0 /\ version = 0 => Untouched
    /\ pc[p] = "forcing" => hasTable /\ version = 0 /\ adopt[p] > 0 /\ At(adopt[p])
    /\ pc[p] = "starting" =>
          hasTable /\ ~dirty /\ version <= Version /\ (version = 0 => Untouched)
    /\ pc[p] = "marking" =>
          hasTable /\ ~dirty /\ target[p] > 0 /\ version = target[p] - 1 /\ At(version)
    /\ pc[p] \in {"executing", "orphaned", "cleaning"} =>
          hasTable /\ dirty /\ target[p] > 0 /\ version = target[p] /\ drift = {}
    /\ pc[p] \in {"executing", "orphaned"} => Progress(p)
    /\ pc[p] = "executing" => done[p] < Statements[target[p]]
    /\ pc[p] = "cleaning" => level = target[p] /\ partial = 0
    /\ pc[p] = "ok" => Clean(Version) /\ level = Version

IInv ==
    /\ TypeOK
    /\ LockHeld
    /\ RowIsTrue
    /\ SchemaIsSane
    /\ ServiceHasFullSchema
    /\ \A p \in Migrators : Knows(p)

-----------------------------------------------------------------------------
\* The steps of the MySQL migrations.
LEMMA StatementCounts ==
    ASSUME Driver = "mysql"
    PROVE  /\ Statements[1] = 4 /\ Statements[2] = 14 /\ Statements[3] = 1 /\ Statements[4] = 1
           /\ \A k \in 1..Version : Statements[k] \in Nat \ {0}
           /\ Repeatable = {3}
<1>1. Statements[1] = 4 /\ Statements[2] = 14 /\ Statements[3] = 1 /\ Statements[4] = 1
    BY DEF Statements
<1>2. \A k \in 1..Version : k = 1 \/ k = 2 \/ k = 3 \/ k = 4 BY DEF Version
<1> QED BY <1>1, <1>2 DEF Repeatable

\* The version of an accepted history is that of its completed migrations.
LEMMA HistoryVersion ==
    ASSUME NEW h, HistoryAccepted(h)
    PROVE  PrismaVersion(h) \in 0..3 /\ Completed(h) = 1..PrismaVersion(h)
BY DEF HistoryAccepted, PrismaVersion

\* What the database is past validateLegacy: nothing is half executed, nothing was
\* changed by hand, and the version adopted is that of the schema.
LEMMA Verdict ==
    ASSUME Driver = "mysql", IInv, NEW p \in Migrators, pc[p] = "deciding", Adoptable(p)
    PROVE  /\ AdoptedVersion(p) \in 0..3
           /\ AdoptedVersion(p) > 0 => At(AdoptedVersion(p))
           /\ AdoptedVersion(p) = 0 => Untouched
<1> DEFINE v == AdoptedVersion(p)
<1>0. TypeOK /\ SchemaIsSane /\ Knows(p) /\ version = 0 BY DEF IInv, Knows
<1>1. HistoryAccepted(history) /\ v = PrismaVersion(history)
    BY DEF Adoptable, AdoptedVersion
<1>2. v \in 0..3 /\ Completed(history) = 1..v BY <1>1, HistoryVersion
<1>3. data[p] <=> level > 0 \/ partial > 0 BY <1>0 DEF Knows
<1>4. CASE v = 0
  <2>1. ~data[p] BY <1>4 DEF Adoptable
  <2>2. level = 0 /\ partial = 0 BY <2>1, <1>3, <1>0 DEF TypeOK, Version
  <2> QED BY <2>2, <1>0, <1>4 DEF SchemaIsSane, Untouched
<1>5. CASE v > 0
  <2>1. \A part \in Parts : Style(part) = IF v = 1 THEN "old" ELSE "new"
      BY <1>5 DEF Adoptable, Verified
  <2>2. drift = {}
    <3>1. ASSUME NEW part \in drift PROVE FALSE
        BY <3>1, <2>1, <1>0 DEF Style, TypeOK
    <3> QED BY <3>1
  <2>3. "foreignKey" \in Parts /\ "registrationColumns" \in Parts BY DEF Parts
  <2>4. /\ Touched["foreignKey"][1] = 4
        /\ Touched["foreignKey"][2] = 1
        /\ Touched["foreignKey"][3] = 14
      BY DEF Touched
  <2>5. level \in 0..5 /\ partial \in Nat BY <1>0 DEF TypeOK, Version
  <2>6. level < 4
      BY <2>1, <2>3, <2>5 DEF Style
  <2>7. Style("foreignKey") =
           IF level = 0 THEN IF partial >= 4 THEN "old" ELSE "none"
           ELSE IF level = 1
                THEN IF partial >= 14 THEN "new" ELSE IF partial >= 1 THEN "none" ELSE "old"
                ELSE "new"
      BY <2>2, <2>4, <2>5 DEF Style
  <2>8. /\ level = 0 => partial < 4
        /\ level = 1 => partial < 14
        /\ level \in {2, 3} => partial < 1
      BY <1>0, <2>5, StatementCounts DEF SchemaIsSane, Version
  <2>9. CASE v = 1
    <3>1. Style("foreignKey") = "old" BY <2>1, <2>3, <2>9
    <3>2. level = 1 /\ partial = 0 BY <3>1, <2>5, <2>6, <2>7, <2>8
    <3> QED BY <3>2, <2>2, <2>9, <1>2 DEF At
  <2>10. CASE v # 1
    <3>1. Style("foreignKey") = "new" BY <2>1, <2>3, <2>10
    <3>2. level \in {2, 3} /\ partial = 0 BY <3>1, <2>5, <2>6, <2>7, <2>8
    <3>3. v = 3 => level # 2 BY <1>0, <1>1, <1>2 DEF SchemaIsSane
    <3> QED BY <3>2, <3>3, <2>2, <2>10, <1>2, <1>5 DEF At
  <2> QED BY <2>9, <2>10
<1> QED BY <1>2, <1>4, <1>5

-----------------------------------------------------------------------------
\* On MySQL: the invariant holds at first, on any database that may be found.
LEMMA InitiallySafe ==
    ASSUME Driver = "mysql", Init PROVE IInv
<1> USE DatabasesAssumption, NoOneAssumption
<1>1. PICK d \in Databases :
        /\ level = d.level /\ partial = d.partial
        /\ drift = d.drift /\ history = d.history
        /\ version = IF d.level > Version THEN d.level ELSE 0
        /\ hasTable \in BOOLEAN /\ (hasTable <=> d.level > Version)
    BY DEF Init
<1>2. TypeOK
  <2>1. hasTable \in BOOLEAN /\ dirty \in BOOLEAN BY <1>1 DEF Init
  <2>2. /\ level \in 0..(Version + 1) /\ partial \in Nat
        /\ drift \in SUBSET Parts /\ history \in Seq(PrismaRows)
        /\ version \in 0..(Version + 1)
      BY <1>1 DEF Version
  <2>3. /\ lock \in Migrators \cup {NoOne}
        /\ pc \in [Migrators -> Live \cup Ended \cup {"orphaned"}]
        /\ data \in [Migrators -> BOOLEAN]
        /\ service \in [Services -> {"down", "up"}]
      BY DEF Init, Ended
  <2>4. /\ adopt \in [Migrators -> 0..3] /\ target \in [Migrators -> 0..Version]
        /\ done \in [Migrators -> Nat]
      BY DEF Init, Version
  <2> QED BY <2>1, <2>2, <2>3, <2>4 DEF TypeOK
<1>3. LockHeld BY DEF Init, LockHeld, Inside
<1>4. RowIsTrue
  <2>1. CASE level > Version
    <3>1. version = level /\ level = 5 /\ d.drift = {} /\ d.partial = 0
        BY <1>1, <2>1 DEF Version
    <3>2. hasTable BY <1>1, <2>1
    <3> QED BY <1>1, <3>1, <3>2 DEF RowIsTrue, Init
  <2>2. CASE ~(level > Version) BY <1>1, <2>2 DEF RowIsTrue, Init
  <2> QED BY <2>1, <2>2
<1>5. SchemaIsSane BY <1>1 DEF SchemaIsSane, Version
<1>6. ServiceHasFullSchema BY DEF Init, ServiceHasFullSchema
<1>7. \A p \in Migrators : Knows(p) BY DEF Init, Knows, Ended
<1> QED BY <1>2, <1>3, <1>4, <1>5, <1>6, <1>7 DEF IInv

-----------------------------------------------------------------------------
\* A step of the run that is inside disturbs no other: what those outside know
\* is that the database is current, if they ended well.
LEMMA OthersUndisturbed ==
    ASSUME IInv, NEW p \in Migrators, NEW q \in Migrators, q # p, pc[p] \in Inside,
           pc'[q] = pc[q], adopt'[q] = adopt[q],
           pc[q] = "ok" => version' = version /\ dirty' = dirty /\ level' = level
    PROVE  Knows(q)'
<1>1. pc[q] \notin Inside BY DEF IInv, LockHeld
<1>2. pc[q] \in Ended \cup {"locking"} BY <1>1 DEF IInv, TypeOK, Live, Inside
<1>3. Knows(q) BY DEF IInv
<1> QED BY <1>1, <1>2, <1>3 DEF Knows, Ended, Inside, Clean

\* A run that returns has nothing left to know, unless it says all is well.
LEMMA ReturnKeepsLock ==
    ASSUME IInv, NEW p \in Migrators, NEW outcome \in {"ok", "failed", "crashed"},
           Return(p, outcome)
    PROVE  /\ LockHeld' /\ ServiceHasFullSchema'
           /\ pc' \in [Migrators -> Live \cup Ended \cup {"orphaned"}]
           /\ lock' \in Migrators \cup {NoOne}
           /\ data' \in [Migrators -> BOOLEAN] /\ adopt' \in [Migrators -> 0..3]
           /\ target' \in [Migrators -> 0..Version] /\ done' \in [Migrators -> Nat]
           /\ outcome # "ok" => Knows(p)'
           /\ Clean(Version)' /\ level' = Version => Knows(p)'
<1> USE DEF Return, Goto, IInv
<1>1. LockHeld'
  <2>1. ASSUME NEW q \in Migrators, pc'[q] \in Inside PROVE lock' = q
    <3>1. q # p BY <2>1 DEF TypeOK, Inside
    <3>2. pc[q] \in Inside /\ lock = q BY <2>1, <3>1 DEF TypeOK, LockHeld
    <3> QED BY <3>1, <3>2
  <2> QED BY <2>1 DEF LockHeld
<1>2. ServiceHasFullSchema' BY DEF ServiceHasFullSchema, schema
<1>3. pc' \in [Migrators -> Live \cup Ended \cup {"orphaned"}] BY DEF TypeOK, Ended
<1>4. lock' \in Migrators \cup {NoOne} BY DEF TypeOK
<1>5. data' \in [Migrators -> BOOLEAN] /\ adopt' \in [Migrators -> 0..3] BY DEF TypeOK
<1>6. target' \in [Migrators -> 0..Version] /\ done' \in [Migrators -> Nat]
    BY DEF TypeOK, Version
<1>7. pc'[p] = outcome /\ adopt'[p] = 0 BY DEF TypeOK
<1>8. outcome # "ok" => Knows(p)' BY <1>7 DEF Knows, Ended
<1>9. Clean(Version)' /\ level' = Version => Knows(p)' BY <1>7 DEF Knows, Ended
<1> QED BY <1>1, <1>2, <1>3, <1>4, <1>5, <1>6, <1>8, <1>9

\* A run ends, and leaves schema and row alone.
LEMMA EndKeepsInv ==
    ASSUME IInv, NEW p \in Migrators, NEW outcome \in {"ok", "failed", "crashed"},
           End(p, outcome), outcome = "ok" => Clean(Version) /\ level = Version
    PROVE  IInv'
<1> USE DEF End, schema, inherited, row
<1>1. Return(p, outcome) OBVIOUS
<1>2. UNCHANGED <<level, partial, drift, history, hasTable, version, dirty, service>>
    BY DEF Return
<1>3. TypeOK' BY <1>1, <1>2, ReturnKeepsLock DEF IInv, TypeOK
<1>4. RowIsTrue' /\ SchemaIsSane' BY <1>2 DEF IInv, RowIsTrue, SchemaIsSane
<1>5. ASSUME NEW q \in Migrators PROVE Knows(q)'
  <2>1. CASE q = p
    <3>1. outcome = "ok" => Clean(Version)' /\ level' = Version BY <1>2 DEF Clean, Version
    <3> QED BY <2>1, <3>1, <1>1, ReturnKeepsLock
  <2>2. CASE q # p
    <3>1. pc'[q] = pc[q] /\ data'[q] = data[q] /\ adopt'[q] = adopt[q]
          /\ target'[q] = target[q] /\ done'[q] = done[q]
        BY <2>2, <1>1 DEF Return, Goto, IInv, TypeOK
    <3>2. Knows(q) BY DEF IInv
    <3> QED BY <3>1, <3>2, <1>2 DEF Knows, At, Untouched, Progress, Clean
  <2> QED BY <2>1, <2>2
<1> QED BY <1>1, <1>3, <1>4, <1>5, ReturnKeepsLock DEF IInv

\* The lock stays with a run that goes on.
LEMMA LockStays ==
    ASSUME IInv, NEW p \in Migrators, NEW label, pc[p] \in Inside,
           Goto(p, label), UNCHANGED lock
    PROVE  LockHeld'
BY DEF IInv, TypeOK, LockHeld, Goto

-----------------------------------------------------------------------------
\* On MySQL, one lemma for each action: it keeps the invariant.  The begin of a run.
LEMMA BeginKeepsInv ==
    ASSUME Driver = "mysql", IInv, NEW p \in Migrators, Begin(p)
    PROVE  IInv'
<1> USE DEF Begin, Goto
<1>1. pc' = [pc EXCEPT ![p] = "locking"] OBVIOUS
<1>2. UNCHANGED <<level, partial, drift, history, hasTable, version, dirty, lock,
                  data, adopt, target, done, service>>
    BY DEF schema, inherited, row, plan
<1>3. TypeOK' BY <1>1, <1>2 DEF IInv, TypeOK, Live
<1>4. LockHeld' BY <1>1, <1>2 DEF IInv, TypeOK, LockHeld, Inside
<1>5. RowIsTrue' /\ SchemaIsSane' /\ ServiceHasFullSchema'
    BY <1>2 DEF IInv, RowIsTrue, SchemaIsSane, ServiceHasFullSchema
<1>6. ASSUME NEW q \in Migrators PROVE Knows(q)'
  <2>1. Knows(q) BY DEF IInv
  <2>2. CASE q = p
    <3>1. pc'[q] = "locking" /\ adopt'[q] = 0
        BY <2>1, <2>2, <1>1, <1>2 DEF IInv, TypeOK, Knows
    <3> QED BY <3>1 DEF Knows, Ended
  <2>3. CASE q # p
    <3>1. pc'[q] = pc[q] BY <2>3, <1>1 DEF IInv, TypeOK
    <3> QED BY <2>1, <3>1, <1>2 DEF Knows, At, Untouched, Progress, Clean
  <2> QED BY <2>2, <2>3
<1> QED BY <1>3, <1>4, <1>5, <1>6 DEF IInv

\* The lock.
LEMMA AcquireKeepsInv ==
    ASSUME Driver = "mysql", IInv, NEW p \in Migrators, AcquireLock(p)
    PROVE  IInv'
<1> USE DEF AcquireLock, Goto
<1>1. pc' = [pc EXCEPT ![p] = "listing"] /\ lock' = p /\ lock = NoOne OBVIOUS
<1>2. UNCHANGED <<level, partial, drift, history, hasTable, version, dirty,
                  data, adopt, target, done, service>>
    BY DEF schema, inherited, row, plan
<1>3. TypeOK' BY <1>1, <1>2 DEF IInv, TypeOK, Live
<1>4. LockHeld'
  <2>1. \A q \in Migrators : pc[q] \notin Inside
      BY <1>1, NoOneAssumption DEF IInv, LockHeld
  <2> QED BY <2>1, <1>1 DEF IInv, TypeOK, LockHeld
<1>5. RowIsTrue' /\ SchemaIsSane' /\ ServiceHasFullSchema'
    BY <1>2 DEF IInv, RowIsTrue, SchemaIsSane, ServiceHasFullSchema
<1>6. ASSUME NEW q \in Migrators PROVE Knows(q)'
  <2>1. Knows(q) BY DEF IInv
  <2>2. CASE q = p
    <3>1. pc'[q] = "listing" /\ adopt'[q] = 0
        BY <2>1, <2>2, <1>1, <1>2 DEF IInv, TypeOK, Knows
    <3> QED BY <3>1 DEF Knows, Ended
  <2>3. CASE q # p
    <3>1. pc'[q] = pc[q] BY <2>3, <1>1 DEF IInv, TypeOK
    <3> QED BY <2>1, <3>1, <1>2 DEF Knows, At, Untouched, Progress, Clean
  <2> QED BY <2>2, <2>3
<1> QED BY <1>3, <1>4, <1>5, <1>6 DEF IInv

\* The list of the tables.
LEMMA ListKeepsInv ==
    ASSUME Driver = "mysql", IInv, NEW p \in Migrators, ListTables(p)
    PROVE  IInv'
<1> USE DEF ListTables, Goto
<1>1. pc[p] = "listing" /\ pc[p] \in Inside BY DEF Inside
<1>2. UNCHANGED <<level, partial, drift, history, hasTable, version, dirty, lock,
                  adopt, target, done, service>>
    BY DEF schema, inherited, row
<1>3. TypeOK'
  <2>1. data' \in [Migrators -> BOOLEAN] BY DEF IInv, TypeOK
  <2>2. pc' \in [Migrators -> Live \cup Ended \cup {"orphaned"}] BY DEF IInv, TypeOK, Live
  <2> QED BY <1>2, <2>1, <2>2 DEF IInv, TypeOK
<1>4. LockHeld' BY <1>1, LockStays
<1>5. RowIsTrue' /\ SchemaIsSane' /\ ServiceHasFullSchema'
    BY <1>2 DEF IInv, RowIsTrue, SchemaIsSane, ServiceHasFullSchema
<1>6. Knows(p)'
  <2>1. adopt[p] = 0 BY <1>1 DEF IInv, Knows
  <2>2. ~hasTable => version = 0 BY DEF IInv, RowIsTrue, TypeOK, Version
  <2>3. /\ pc'[p] = IF hasTable THEN "reading" ELSE "deciding"
        /\ data'[p] <=> level > 0 \/ partial > 0
      BY DEF IInv, TypeOK
  <2> QED BY <1>2, <2>1, <2>2, <2>3 DEF Knows, Ended
<1>7. \A q \in Migrators : q # p => Knows(q)'
  <2>1. \A q \in Migrators : q # p => pc'[q] = pc[q] BY DEF IInv, TypeOK
  <2> QED BY <2>1, <1>1, <1>2, OthersUndisturbed
<1> QED BY <1>3, <1>4, <1>5, <1>6, <1>7 DEF IInv

\* The version, if it is good.
LEMMA ReadKeepsInv ==
    ASSUME Driver = "mysql", IInv, NEW p \in Migrators, ReadVersion(p)
    PROVE  IInv'
<1> USE DEF ReadVersion, Goto
<1>1. pc[p] = "reading" /\ pc[p] \in Inside BY DEF Inside
<1>2. UNCHANGED <<level, partial, drift, history, hasTable, version, dirty, lock,
                  data, adopt, target, done, service>>
    BY DEF schema, inherited, row, plan
<1>3. TypeOK' BY <1>2 DEF IInv, TypeOK, Live
<1>4. LockHeld' BY <1>1, LockStays
<1>5. RowIsTrue' /\ SchemaIsSane' /\ ServiceHasFullSchema'
    BY <1>2 DEF IInv, RowIsTrue, SchemaIsSane, ServiceHasFullSchema
<1>6. Knows(p)'
  <2>1. adopt[p] = 0 /\ (data[p] <=> level > 0 \/ partial > 0) BY <1>1 DEF IInv, Knows
  <2>2. pc'[p] = IF version = 0 THEN "deciding" ELSE "opening" BY DEF IInv, TypeOK
  <2> QED BY <1>2, <2>1, <2>2 DEF Knows, Ended, Version
<1>7. \A q \in Migrators : q # p => Knows(q)'
  <2>1. \A q \in Migrators : q # p => pc'[q] = pc[q] BY DEF IInv, TypeOK
  <2> QED BY <2>1, <1>1, <1>2, OthersUndisturbed
<1> QED BY <1>3, <1>4, <1>5, <1>6, <1>7 DEF IInv

\* The adoption.
LEMMA AdoptKeepsInv ==
    ASSUME Driver = "mysql", IInv, NEW p \in Migrators, Adopt(p)
    PROVE  IInv'
<1> USE DEF Adopt, Goto
<1>1. pc[p] = "deciding" /\ pc[p] \in Inside BY DEF Inside
<1>2. UNCHANGED <<level, partial, drift, history, hasTable, version, dirty, lock,
                  data, target, done, service>>
    BY DEF schema, inherited, row
<1>3. /\ AdoptedVersion(p) \in 0..3
      /\ AdoptedVersion(p) > 0 => At(AdoptedVersion(p))
      /\ AdoptedVersion(p) = 0 => Untouched
    BY <1>1, Verdict
<1>4. TypeOK'
  <2>1. adopt' \in [Migrators -> 0..3] BY <1>3 DEF IInv, TypeOK
  <2>2. pc' \in [Migrators -> Live \cup Ended \cup {"orphaned"}] BY DEF IInv, TypeOK, Live
  <2> QED BY <1>2, <2>1, <2>2 DEF IInv, TypeOK
<1>5. LockHeld' BY <1>1, LockStays
<1>6. RowIsTrue' /\ SchemaIsSane' /\ ServiceHasFullSchema'
    BY <1>2 DEF IInv, RowIsTrue, SchemaIsSane, ServiceHasFullSchema
<1>7. Knows(p)'
  <2>1. version = 0 /\ ~dirty BY <1>1 DEF IInv, Knows, RowIsTrue
  <2>2. pc'[p] = "opening" /\ adopt'[p] = AdoptedVersion(p) BY DEF IInv, TypeOK
  <2> QED BY <1>2, <1>3, <2>1, <2>2 DEF Knows, Ended, At, Untouched, Version
<1>8. \A q \in Migrators : q # p => Knows(q)'
  <2>1. \A q \in Migrators : q # p => pc'[q] = pc[q] /\ adopt'[q] = adopt[q]
      BY DEF IInv, TypeOK
  <2> QED BY <2>1, <1>1, <1>2, OthersUndisturbed
<1> QED BY <1>4, <1>5, <1>6, <1>7, <1>8 DEF IInv

-----------------------------------------------------------------------------
\* The table of the version.
LEMMA OpenKeepsInv ==
    ASSUME Driver = "mysql", IInv, NEW p \in Migrators, OpenDriver(p)
    PROVE  IInv'
<1> USE DEF OpenDriver, Goto
<1>1. pc[p] = "opening" /\ pc[p] \in Inside /\ hasTable' = TRUE BY DEF Inside
<1>2. UNCHANGED <<level, partial, drift, history, version, dirty, lock,
                  data, adopt, target, done, service>>
    BY DEF schema, inherited, plan
<1>3. TypeOK' BY <1>1, <1>2 DEF IInv, TypeOK, Live
<1>4. LockHeld' BY <1>1, LockStays
<1>5. RowIsTrue' /\ SchemaIsSane' /\ ServiceHasFullSchema'
    BY <1>1, <1>2 DEF IInv, RowIsTrue, SchemaIsSane, ServiceHasFullSchema
<1>6. Knows(p)'
  <2>1. /\ ~dirty /\ version <= Version
        /\ adopt[p] > 0 => version = 0 /\ At(adopt[p])
        /\ adopt[p] = 0 /\ version = 0 => Untouched
      BY <1>1 DEF IInv, Knows
  <2>2. pc'[p] = IF adopt[p] > 0 THEN "forcing" ELSE "starting" BY DEF IInv, TypeOK
  <2>3. adopt[p] \in 0..3 BY DEF IInv, TypeOK
  <2>4. CASE adopt[p] > 0
    <3>1. pc'[p] = "forcing" BY <2>2, <2>4
    <3> QED BY <1>1, <1>2, <2>1, <2>4, <3>1 DEF Knows, Ended, At
  <2>5. CASE adopt[p] = 0
    <3>1. pc'[p] = "starting" BY <2>2, <2>5
    <3> QED BY <1>1, <1>2, <2>1, <2>5, <3>1 DEF Knows, Ended, Untouched, Version
  <2> QED BY <2>3, <2>4, <2>5
<1>7. \A q \in Migrators : q # p => Knows(q)'
  <2>1. \A q \in Migrators : q # p => pc'[q] = pc[q] BY DEF IInv, TypeOK
  <2> QED BY <2>1, <1>1, <1>2, OthersUndisturbed
<1> QED BY <1>3, <1>4, <1>5, <1>6, <1>7 DEF IInv

\* The version forced.
LEMMA ForceKeepsInv ==
    ASSUME Driver = "mysql", IInv, NEW p \in Migrators, ForceVersion(p)
    PROVE  IInv'
<1> USE DEF ForceVersion, Goto, SetVersion
<1>1. pc[p] = "forcing" /\ pc[p] \in Inside BY DEF Inside
<1>2. UNCHANGED <<level, partial, drift, history, hasTable, lock,
                  data, adopt, target, done, service>>
    BY DEF schema, inherited, plan
<1>3. version' = adopt[p] /\ dirty' = FALSE OBVIOUS
<1>4. hasTable /\ version = 0 /\ adopt[p] \in 1..3 /\ At(adopt[p])
    BY <1>1 DEF IInv, TypeOK, Knows
<1>5. TypeOK'
  <2>1. pc' \in [Migrators -> Live \cup Ended \cup {"orphaned"}] BY DEF IInv, TypeOK, Live
  <2>2. version' \in 0..(Version + 1) BY <1>3, <1>4 DEF Version
  <2>3. dirty' \in BOOLEAN BY <1>3
  <2> QED BY <1>2, <2>1, <2>2, <2>3 DEF IInv, TypeOK
<1>6. LockHeld' BY <1>1, LockStays
<1>7. RowIsTrue' BY <1>2, <1>3, <1>4 DEF RowIsTrue, At
<1>8. SchemaIsSane' /\ ServiceHasFullSchema'
    BY <1>2, <1>3, <1>4 DEF IInv, SchemaIsSane, ServiceHasFullSchema
<1>9. Knows(p)'
  <2>1. pc'[p] = "starting" BY DEF IInv, TypeOK
  <2> QED BY <1>2, <1>3, <1>4, <2>1 DEF Knows, Ended, Version
<1>10. \A q \in Migrators : q # p => Knows(q)'
  <2>1. \A q \in Migrators : q # p => pc'[q] = pc[q] /\ pc[q] # "ok"
      BY <1>4 DEF IInv, TypeOK, Knows, Clean, Version
  <2> QED BY <2>1, <1>1, <1>2, OthersUndisturbed
<1> QED BY <1>5, <1>6, <1>7, <1>8, <1>9, <1>10 DEF IInv

\* The next migration to apply.
LEMMA UpKeepsInv ==
    ASSUME Driver = "mysql", IInv, NEW p \in Migrators, Up(p)
    PROVE  IInv'
<1> USE DEF Up, Goto
<1>1. pc[p] = "starting" /\ pc[p] \in Inside BY DEF Inside
<1>2. UNCHANGED <<level, partial, drift, history, hasTable, version, dirty, lock,
                  data, adopt, done, service>>
    BY DEF schema, inherited, row
<1>3. hasTable /\ ~dirty /\ version \in 0..3 /\ (version = 0 => Untouched)
    BY <1>1 DEF IInv, TypeOK, Knows, Version
<1>4. TypeOK'
  <2>1. target' \in [Migrators -> 0..Version] BY <1>3 DEF IInv, TypeOK, Version
  <2>2. pc' \in [Migrators -> Live \cup Ended \cup {"orphaned"}] BY DEF IInv, TypeOK, Live
  <2> QED BY <1>2, <2>1, <2>2 DEF IInv, TypeOK
<1>5. LockHeld' BY <1>1, LockStays
<1>6. RowIsTrue' /\ SchemaIsSane' /\ ServiceHasFullSchema'
    BY <1>2 DEF IInv, RowIsTrue, SchemaIsSane, ServiceHasFullSchema
<1>7. Knows(p)'
  <2>1. pc'[p] = "marking" /\ target'[p] = version + 1 BY DEF IInv, TypeOK
  <2>2. At(version) BY <1>3 DEF IInv, RowIsTrue, At, Untouched
  <2> QED BY <1>2, <1>3, <2>1, <2>2 DEF Knows, Ended, At
<1>8. \A q \in Migrators : q # p => Knows(q)'
  <2>1. \A q \in Migrators : q # p => pc'[q] = pc[q] BY DEF IInv, TypeOK
  <2> QED BY <2>1, <1>1, <1>2, OthersUndisturbed
<1> QED BY <1>4, <1>5, <1>6, <1>7, <1>8 DEF IInv

\* The version marked dirty.
LEMMA MarkDirtyKeepsInv ==
    ASSUME Driver = "mysql", IInv, NEW p \in Migrators, MarkDirty(p)
    PROVE  IInv'
<1> USE DEF MarkDirty, Goto, SetVersion
<1>1. pc[p] = "marking" /\ pc[p] \in Inside BY DEF Inside
<1>2. UNCHANGED <<level, partial, drift, history, hasTable, lock,
                  data, adopt, target, service>>
    BY DEF schema, inherited
<1>3. version' = target[p] /\ dirty' = TRUE OBVIOUS
<1>4. /\ hasTable /\ ~dirty /\ target[p] \in 1..4
      /\ version = target[p] - 1 /\ At(version)
    BY <1>1 DEF IInv, TypeOK, Knows, Version
<1>5. TypeOK'
  <2>1. done' \in [Migrators -> Nat] BY DEF IInv, TypeOK
  <2>2. pc' \in [Migrators -> Live \cup Ended \cup {"orphaned"}] BY DEF IInv, TypeOK, Live
  <2> QED BY <1>2, <1>3, <1>4, <2>1, <2>2 DEF IInv, TypeOK, Version
<1>6. LockHeld' BY <1>1, LockStays
<1>7. RowIsTrue' BY <1>2, <1>3, <1>4 DEF RowIsTrue, At
<1>8. SchemaIsSane' /\ ServiceHasFullSchema'
    BY <1>2, <1>3, <1>4 DEF IInv, SchemaIsSane, ServiceHasFullSchema
<1>9. Knows(p)'
  <2>1. pc'[p] = "executing" /\ done'[p] = 0 BY DEF IInv, TypeOK
  <2>2. Statements[target[p]] \in Nat \ {0} BY <1>4, StatementCounts DEF Version
  <2>3. Progress(p)' BY <1>2, <1>4, <2>1, <2>2 DEF Progress, At
  <2> QED BY <1>2, <1>3, <1>4, <2>1, <2>2, <2>3 DEF Knows, Ended, At
<1>10. \A q \in Migrators : q # p => Knows(q)'
  <2>1. \A q \in Migrators : q # p => pc'[q] = pc[q] /\ pc[q] # "ok"
      BY <1>4 DEF IInv, TypeOK, Knows, Clean, Version
  <2> QED BY <2>1, <1>1, <1>2, OthersUndisturbed
<1> QED BY <1>5, <1>6, <1>7, <1>8, <1>9, <1>10 DEF IInv

\* The statement fits, or is the cleanup once more.
LEMMA ExecuteKeepsInv ==
    ASSUME Driver = "mysql", IInv, NEW p \in Migrators, Execute(p)
    PROVE  IInv'
<1> DEFINE k == target[p]
           last == done[p] + 1 = Statements[k]
<1> USE DEF Execute
<1>1. pc[p] \in {"executing", "orphaned"} /\ pc[p] \in Inside BY DEF Inside
<1>2. UNCHANGED <<drift, history, hasTable, version, dirty, lock,
                  data, adopt, target, service>>
    BY DEF inherited, row
<1>3. /\ hasTable /\ dirty /\ k \in 1..4 /\ version = k /\ drift = {}
      /\ Progress(p) /\ done[p] < Statements[k]
    BY <1>1 DEF IInv, TypeOK, Knows, Version
<1>4. /\ Statements[k] \in Nat \ {0} /\ done[p] \in Nat /\ level \in 0..5 /\ partial \in Nat
      /\ Repeatable = {3}
    BY <1>3, StatementCounts DEF IInv, TypeOK, Version
<1>5. /\ level' = IF Fits(p) /\ last THEN k ELSE level
      /\ partial' = IF ~Fits(p) THEN partial ELSE IF last THEN 0 ELSE partial + 1
      /\ pc' = [pc EXCEPT ![p] = IF last /\ @ = "executing" THEN "cleaning" ELSE @]
      /\ done' = [done EXCEPT ![p] = @ + 1]
    OBVIOUS
<1>6. \/ Fits(p) /\ level = k - 1 /\ partial = done[p]
      \/ ~Fits(p) /\ level = k /\ partial = 0 /\ k = 3
    BY <1>3, <1>4 DEF Fits, Reruns, Progress
<1>7. \/ ~last /\ level' = level /\ level = k - 1 /\ partial' = done[p] + 1 /\ partial = done[p]
      \/ last /\ level' = k /\ partial' = 0
      \/ level' = k /\ level = k /\ partial' = 0 /\ partial = 0 /\ k = 3
    BY <1>4, <1>5, <1>6
<1>8. level' \in 0..5 /\ partial' \in Nat /\ pc'[p] \in {"executing", "orphaned", "cleaning"}
      /\ done'[p] = done[p] + 1
    BY <1>1, <1>3, <1>4, <1>5, <1>7 DEF IInv, TypeOK
<1>9. TypeOK'
  <2>1. done' \in [Migrators -> Nat] BY <1>5 DEF IInv, TypeOK
  <2>2. pc' \in [Migrators -> Live \cup Ended \cup {"orphaned"}]
      BY <1>5 DEF IInv, TypeOK, Live
  <2> QED BY <1>2, <1>8, <2>1, <2>2 DEF IInv, TypeOK, Version
<1>10. LockHeld' BY <1>1, <1>2, <1>5 DEF IInv, TypeOK, LockHeld
<1>11. RowIsTrue' BY <1>2, <1>3 DEF RowIsTrue
<1>12. SchemaIsSane'
  <2>1. level' < Version => partial' < Statements[level' + 1]
    <3>1. CASE ~last /\ level' = level /\ level = k - 1 /\ partial' = done[p] + 1
      <4>1. partial' < Statements[k] /\ level' + 1 = k BY <3>1, <1>3, <1>4
      <4> QED BY <4>1
    <3>2. CASE level' = k /\ partial' = 0
      <4>1. level' < Version => Statements[level' + 1] \in Nat \ {0}
          BY <3>2, <1>3, StatementCounts DEF Version
      <4> QED BY <4>1, <3>2
    <3> QED BY <3>1, <3>2, <1>7
  <2>2. level' >= Version => partial' = 0 BY <1>7, <1>3, <1>4 DEF Version
  <2> QED BY <2>1, <2>2, <1>2, <1>3 DEF SchemaIsSane
<1>13. ServiceHasFullSchema'
  <2>1. level >= Version => level' >= Version /\ partial' = partial
      BY <1>3, <1>4, <1>7, <1>6 DEF Version
  <2> QED BY <2>1, <1>2 DEF IInv, ServiceHasFullSchema
<1>14. Knows(p)'
  <2>1. Progress(p)'
    <3>1. CASE ~last /\ level' = level /\ level = k - 1 /\ partial' = done[p] + 1
        BY <3>1, <1>2, <1>3, <1>4, <1>8 DEF Progress
    <3>2. CASE level' = k /\ partial' = 0 /\ (last \/ k = 3)
        BY <3>2, <1>2, <1>8 DEF Progress
    <3> QED BY <3>1, <3>2, <1>7
  <2>2. pc'[p] = "cleaning" => level' = k /\ partial' = 0
    <3>1. pc'[p] = "cleaning" => last BY <1>1, <1>5 DEF IInv, TypeOK
    <3> QED BY <3>1, <1>7
  <2>3. pc'[p] = "executing" => done'[p] < Statements[k]
    <3>1. pc'[p] = "executing" => ~last BY <1>1, <1>5 DEF IInv, TypeOK
    <3> QED BY <3>1, <1>3, <1>4, <1>8
  <2> QED BY <1>2, <1>3, <1>8, <2>1, <2>2, <2>3 DEF Knows, Ended
<1>15. \A q \in Migrators : q # p => Knows(q)'
  <2>1. \A q \in Migrators : q # p => pc'[q] = pc[q] /\ pc[q] # "ok"
      BY <1>3, <1>5 DEF IInv, TypeOK, Knows, Clean
  <2> QED BY <2>1, <1>1, <1>2, OthersUndisturbed
<1> QED BY <1>9, <1>10, <1>11, <1>12, <1>13, <1>14, <1>15 DEF IInv

\* The version marked clean.
LEMMA MarkCleanKeepsInv ==
    ASSUME Driver = "mysql", IInv, NEW p \in Migrators, MarkClean(p)
    PROVE  IInv'
<1> USE DEF MarkClean, Goto, SetVersion
<1>1. pc[p] = "cleaning" /\ pc[p] \in Inside BY DEF Inside
<1>2. UNCHANGED <<level, partial, drift, history, hasTable, lock,
                  data, adopt, done, service>>
    BY DEF schema, inherited
<1>3. version' = target[p] /\ dirty' = FALSE OBVIOUS
<1>4. /\ hasTable /\ dirty /\ target[p] \in 1..3 /\ version = target[p]
      /\ drift = {} /\ level = target[p] /\ partial = 0
    BY <1>1 DEF IInv, TypeOK, Knows, Version
<1>5. TypeOK'
  <2>1. target' \in [Migrators -> 0..Version] BY <1>4 DEF IInv, TypeOK, Version
  <2>2. pc' \in [Migrators -> Live \cup Ended \cup {"orphaned"}] BY DEF IInv, TypeOK, Live
  <2>3. version' \in 0..(Version + 1) BY <1>3, <1>4 DEF Version
  <2>4. dirty' \in BOOLEAN BY <1>3
  <2> QED BY <1>2, <2>1, <2>2, <2>3, <2>4 DEF IInv, TypeOK
<1>6. LockHeld' BY <1>1, LockStays
<1>7. RowIsTrue' BY <1>2, <1>3, <1>4 DEF RowIsTrue
<1>8. SchemaIsSane' /\ ServiceHasFullSchema'
    BY <1>2, <1>3, <1>4 DEF IInv, SchemaIsSane, ServiceHasFullSchema
<1>9. Knows(p)'
  <2>1. pc'[p] = "marking" /\ target'[p] = target[p] + 1 BY DEF IInv, TypeOK
  <2> QED BY <1>2, <1>3, <1>4, <2>1 DEF Knows, Ended, At
<1>10. \A q \in Migrators : q # p => Knows(q)'
  <2>1. \A q \in Migrators : q # p => pc'[q] = pc[q] /\ pc[q] # "ok"
      BY <1>4 DEF IInv, TypeOK, Knows, Clean
  <2> QED BY <2>1, <1>1, <1>2, OthersUndisturbed
<1> QED BY <1>5, <1>6, <1>7, <1>8, <1>9, <1>10 DEF IInv

\* The last version marked clean.
LEMMA MarkCurrentKeepsInv ==
    ASSUME Driver = "mysql", IInv, NEW p \in Migrators, MarkCurrent(p)
    PROVE  IInv'
<1> USE DEF MarkCurrent, SetVersion
<1>1. pc[p] = "cleaning" /\ pc[p] \in Inside /\ Return(p, "ok") BY DEF Inside
<1>2. UNCHANGED <<level, partial, drift, history, hasTable, service>>
    BY DEF Return, schema, inherited
<1>3. version' = Version /\ dirty' = FALSE OBVIOUS
<1>4. /\ hasTable /\ dirty /\ drift = {} /\ level = Version /\ partial = 0
    BY <1>1 DEF IInv, TypeOK, Knows
<1>5. TypeOK'
  <2>1. version' \in 0..(Version + 1) BY <1>3 DEF Version
  <2>2. dirty' \in BOOLEAN BY <1>3
  <2> QED BY <1>1, <1>2, <2>1, <2>2, ReturnKeepsLock DEF IInv, TypeOK
<1>6. LockHeld' /\ ServiceHasFullSchema' BY <1>1, ReturnKeepsLock
<1>7. RowIsTrue' BY <1>2, <1>3, <1>4 DEF RowIsTrue, Version
<1>8. SchemaIsSane' BY <1>2, <1>3, <1>4 DEF IInv, SchemaIsSane, Version
<1>9. Knows(p)'
  <2>1. Clean(Version)' /\ level' = Version BY <1>2, <1>3, <1>4 DEF Clean, Version
  <2> QED BY <1>1, <2>1, ReturnKeepsLock
<1>10. \A q \in Migrators : q # p => Knows(q)'
  <2>1. \A q \in Migrators : q # p => pc'[q] = pc[q] /\ adopt'[q] = adopt[q] /\ pc[q] # "ok"
      BY <1>1, <1>4 DEF IInv, TypeOK, Knows, Clean, Return, Goto
  <2> QED BY <2>1, <1>1, OthersUndisturbed
<1> QED BY <1>5, <1>6, <1>7, <1>8, <1>9, <1>10 DEF IInv

-----------------------------------------------------------------------------
\* A dead client leaves a session that knows what the client knew.
LEMMA CrashKeepsInv ==
    ASSUME Driver = "mysql", IInv, NEW p \in Migrators, Crash(p)
    PROVE  IInv'
<1> USE DEF Crash, Goto
<1>1. CASE pc[p] = "executing"
  <2>1. pc' = [pc EXCEPT ![p] = "orphaned"] /\ pc[p] \in Inside BY <1>1 DEF Inside
  <2>2. UNCHANGED <<level, partial, drift, history, hasTable, version, dirty, lock,
                    data, adopt, target, done, service>>
      BY <1>1 DEF schema, inherited, row, plan
  <2>3. TypeOK' BY <2>1, <2>2 DEF IInv, TypeOK
  <2>4. LockHeld' BY <2>1, <2>2, LockStays
  <2>5. RowIsTrue' /\ SchemaIsSane' /\ ServiceHasFullSchema'
      BY <2>2 DEF IInv, RowIsTrue, SchemaIsSane, ServiceHasFullSchema
  <2>6. Knows(p)'
    <3>1. Knows(p) /\ pc'[p] = "orphaned" BY <2>1 DEF IInv, TypeOK
    <3> QED BY <3>1, <1>1, <2>2 DEF Knows, Ended, Progress
  <2>7. \A q \in Migrators : q # p => Knows(q)'
    <3>1. \A q \in Migrators : q # p => pc'[q] = pc[q] BY <2>1 DEF IInv, TypeOK
    <3> QED BY <3>1, <2>1, <2>2, OthersUndisturbed
  <2> QED BY <2>3, <2>4, <2>5, <2>6, <2>7 DEF IInv
<1>2. CASE pc[p] # "executing" BY <1>2, EndKeepsInv
<1> QED BY <1>1, <1>2

\* The operator leaves the schema at the end of a migration.
LEMMA RepairKeepsInv ==
    ASSUME Driver = "mysql", IInv, Repair
    PROVE  IInv'
<1>1. UNCHANGED <<drift, history, hasTable, lock, pc, data, adopt, target, done, service>>
    BY DEF Repair, SetVersion, inherited, plan
<1>2. dirty /\ version > 0 /\ hasTable /\ drift = {}
    BY DEF Repair, SetVersion, IInv, RowIsTrue, TypeOK, Version
<1>3. /\ level' \in 0..5 /\ partial' = 0 /\ version' = level' /\ dirty' = FALSE
      /\ level' = level \/ (partial > 0 /\ level' = level + 1)
    BY DEF Repair, SetVersion, IInv, TypeOK, SchemaIsSane, Version
<1>4. TypeOK'
  <2>1. dirty' \in BOOLEAN BY <1>3
  <2> QED BY <1>1, <1>3, <2>1 DEF IInv, TypeOK, Version
<1>5. LockHeld' BY <1>1 DEF IInv, LockHeld
<1>6. RowIsTrue' BY <1>1, <1>2, <1>3 DEF RowIsTrue
<1>7. SchemaIsSane'
  <2>1. ASSUME NEW n \in 0..5, n < Version PROVE Statements[n + 1] \in Nat \ {0}
    <3>1. n + 1 \in 1..Version BY <2>1 DEF Version
    <3> QED BY <3>1, StatementCounts
  <2>2. level' \in 0..5 BY <1>3
  <2> QED BY <1>1, <1>2, <1>3, <2>1, <2>2 DEF SchemaIsSane
<1>8. ServiceHasFullSchema'
  <2>1. partial = 0 => level' = level BY <1>3
  <2> QED BY <1>1, <1>3, <2>1 DEF IInv, ServiceHasFullSchema
<1>9. ASSUME NEW p \in Migrators PROVE Knows(p)'
  <2>1. Knows(p) /\ pc[p] \in Ended /\ pc[p] # "ok" BY <1>2 DEF Repair, IInv, Knows, Clean
  <2> QED BY <2>1, <1>1 DEF Knows, Ended
<1> QED BY <1>4, <1>5, <1>6, <1>7, <1>8, <1>9 DEF IInv

\* A service that starts or stops.
LEMMA ServicesKeepInv ==
    ASSUME Driver = "mysql", IInv, NEW s \in Services, StartService(s) \/ StopService(s)
    PROVE  IInv'
<1> USE DEF StartService, StopService
<1>1. UNCHANGED <<level, partial, drift, history, hasTable, version, dirty, lock, pc,
                  data, adopt, target, done>>
    BY DEF schema, inherited, row, plan
<1>2. TypeOK' BY <1>1 DEF IInv, TypeOK
<1>3. LockHeld' /\ RowIsTrue' /\ SchemaIsSane'
    BY <1>1 DEF IInv, LockHeld, RowIsTrue, SchemaIsSane
<1>4. ServiceHasFullSchema'
  <2>1. CASE StartService(s)
    <3>1. level = Version /\ partial = 0
        BY <2>1 DEF IInv, RowIsTrue, Clean, Version
    <3> QED BY <3>1, <1>1 DEF ServiceHasFullSchema, Version
  <2>2. CASE StopService(s)
    <3>1. \A r \in Services : service'[r] = "up" => service[r] = "up"
        BY <2>2 DEF IInv, TypeOK
    <3> QED BY <3>1, <1>1 DEF IInv, ServiceHasFullSchema
  <2> QED BY <2>1, <2>2
<1>5. \A p \in Migrators : Knows(p)'
    BY <1>1 DEF IInv, Knows, At, Untouched, Progress, Clean
<1> QED BY <1>2, <1>3, <1>4, <1>5 DEF IInv

\* The steps with which a run gives up or is done.
LEMMA EndingKeepsInv ==
    ASSUME Driver = "mysql", IInv, NEW p \in Migrators,
           \/ LockTimesOut(p) \/ RefuseVersion(p) \/ RefuseDatabase(p) \/ UpRefused(p)
           \/ NoChange(p) \/ StatementRefused(p) \/ Fail(p) \/ SessionEnds(p)
    PROVE  IInv'
<1>1. CASE NoChange(p)
  <2>1. Clean(Version) /\ level = Version
      BY <1>1 DEF NoChange, IInv, RowIsTrue, Clean, Version
  <2> QED BY <1>1, <2>1, EndKeepsInv DEF NoChange
<1>2. CASE SessionEnds(p) BY <1>2, EndKeepsInv DEF SessionEnds
<1>3. CASE \/ LockTimesOut(p) \/ RefuseVersion(p) \/ RefuseDatabase(p) \/ UpRefused(p)
           \/ StatementRefused(p) \/ Fail(p)
  <2>1. End(p, "failed")
      BY <1>3 DEF LockTimesOut, RefuseVersion, RefuseDatabase, UpRefused, StatementRefused, Fail
  <2> QED BY <2>1, EndKeepsInv
<1> QED BY <1>1, <1>2, <1>3

\* A stuttering step.
LEMMA NothingKeepsInv ==
    ASSUME IInv, UNCHANGED vars PROVE IInv'
<1>1. UNCHANGED <<level, partial, drift, history, hasTable, version, dirty, lock, pc,
                  data, adopt, target, done, service>>
    BY DEF vars, schema, inherited, row, plan
<1> QED
    BY <1>1 DEF IInv, TypeOK, LockHeld, RowIsTrue, SchemaIsSane, ServiceHasFullSchema,
                Knows, At, Untouched, Progress, Clean

\* Every step keeps the invariant.
LEMMA NextKeepsInv ==
    ASSUME Driver = "mysql", IInv, [Next]_vars
    PROVE  IInv'
<1>1. ASSUME NEW p \in Migrators, Run(p) PROVE IInv'
  <2>1. CASE Begin(p) BY <2>1, BeginKeepsInv
  <2>2. CASE AcquireLock(p) BY <2>2, AcquireKeepsInv
  <2>3. CASE ListTables(p) BY <2>3, ListKeepsInv
  <2>4. CASE ReadVersion(p) BY <2>4, ReadKeepsInv
  <2>5. CASE Adopt(p) BY <2>5, AdoptKeepsInv
  <2>6. CASE OpenDriver(p) BY <2>6, OpenKeepsInv
  <2>7. CASE ForceVersion(p) BY <2>7, ForceKeepsInv
  <2>8. CASE Up(p) BY <2>8, UpKeepsInv
  <2>9. CASE MarkDirty(p) BY <2>9, MarkDirtyKeepsInv
  <2>10. CASE Execute(p) BY <2>10, ExecuteKeepsInv
  <2>11. CASE MarkClean(p) BY <2>11, MarkCleanKeepsInv
  <2>12. CASE MarkCurrent(p) BY <2>12, MarkCurrentKeepsInv
  <2>13. CASE Crash(p) BY <2>13, CrashKeepsInv
  <2>14. CASE \/ LockTimesOut(p) \/ RefuseVersion(p) \/ RefuseDatabase(p) \/ UpRefused(p)
              \/ NoChange(p) \/ StatementRefused(p) \/ Fail(p) \/ SessionEnds(p)
      BY <2>14, EndingKeepsInv
  <2> QED
      BY <1>1, <2>1, <2>2, <2>3, <2>4, <2>5, <2>6, <2>7, <2>8, <2>9, <2>10, <2>11, <2>12,
         <2>13, <2>14
      DEF Run, Step, Inspect, Upgrade
<1>2. CASE Repair BY <1>2, RepairKeepsInv
<1>3. ASSUME NEW s \in Services, Serve(s) PROVE IInv'
    BY <1>3, ServicesKeepInv DEF Serve
<1>4. CASE UNCHANGED vars BY <1>4, NothingKeepsInv
<1> QED BY <1>1, <1>2, <1>3, <1>4 DEF Next

-----------------------------------------------------------------------------
(* SQLite, where no lock keeps the runs apart *)

\* What a run on SQLite knows: other runs may be at work, but the schema never goes
\* back, and nothing alters what was found of it.
SeesSchema(p) ==
    /\ pc[p] # "orphaned"
    /\ adopt[p] # 0 =>
          pc[p] \in {"opening", "forcing", "starting", "marking", "executing", "cleaning"}
    /\ pc[p] \in {"reading", "deciding"} => (IF data[p] THEN level > 0 ELSE drift = {})
    /\ pc[p] = "deciding" /\ data[p] => level >= 2
    /\ pc[p] \in {"opening", "forcing"} =>
          drift = {} /\ adopt[p] \in {0, 2} /\ (adopt[p] = 2 => level >= 2)
    /\ pc[p] = "forcing" => adopt[p] = 2
    /\ pc[p] \in {"forcing", "starting", "marking", "executing", "cleaning"} =>
          hasTable /\ drift = {}
    /\ pc[p] \in {"marking", "executing", "cleaning"} => target[p] \in 1..Version
    /\ pc[p] \in {"executing", "cleaning"} => version > 0
    /\ pc[p] = "executing" => done[p] = 0
    /\ pc[p] = "cleaning" => level >= target[p]

\* What the schema and the row are on SQLite.
RowFollowsSchema ==
    /\ partial = 0
    /\ level = 0 => drift = {}
    /\ version = 0 => ~dirty /\ level # 1
    /\ version > 0 => hasTable /\ drift = {}
    /\ MarkedIsApplied /\ ServiceHasFullSchema

SQLiteInv == TypeOK /\ RowFollowsSchema /\ \A p \in Migrators : SeesSchema(p)

\* Every migration takes effect at once.
LEMMA Transactions ==
    ASSUME Driver = "sqlite"
    PROVE  \A k \in 1..Version : Statements[k] = 1
<1>1. Statements[1] = 1 /\ Statements[2] = 1 /\ Statements[3] = 1 /\ Statements[4] = 1
  BY DEF Statements
<1>2. \A k \in 1..Version : k = 1 \/ k = 2 \/ k = 3 \/ k = 4
  BY DEF Version
<1>. QED  BY <1>1, <1>2

\* The invariant holds at first, on any database that may be found.
LEMMA InitiallySafeOnSQLite ==
    ASSUME Driver = "sqlite", Init PROVE SQLiteInv
<1>1. PICK d \in Databases :
        /\ level = d.level /\ partial = d.partial
        /\ drift = d.drift /\ history = d.history
        /\ version = IF d.level > Version THEN d.level ELSE 0
        /\ hasTable \in BOOLEAN /\ (hasTable <=> d.level > Version)
  BY DEF Init
<1>2. /\ d.level \in 0..(Version + 1) /\ d.partial \in Nat /\ d.drift \in SUBSET Parts
      /\ d.history \in Seq(PrismaRows)
      /\ d.level = 0 /\ d.partial = 0 => d.drift = {}
      /\ d.level = Version + 1 => d.drift = {}
      /\ d.level # 1
      /\ d.level < Version => d.partial < Statements[d.level + 1]
      /\ d.level >= Version => d.partial = 0
  BY DatabasesAssumption
<1>3. partial = 0
  <2>1. CASE d.level < Version
    <3>1. d.level + 1 \in 1..Version
      BY <1>2, <2>1 DEF Version
    <3>2. Statements[d.level + 1] = 1
      BY <3>1, Transactions
    <3>. QED  BY <1>1, <1>2, <2>1, <3>2
  <2>2. CASE d.level >= Version
    BY <1>1, <1>2, <2>2
  <2>. QED  BY <1>2, <2>1, <2>2 DEF Version
<1>4. TypeOK
  <2>1. /\ level \in 0..(Version + 1) /\ partial \in Nat /\ drift \in SUBSET Parts
        /\ history \in Seq(PrismaRows) /\ hasTable \in BOOLEAN
    BY <1>1, <1>2
  <2>4. version \in 0..(Version + 1)
    BY <1>1, <1>2 DEF Version
  <2>5. dirty \in BOOLEAN
    BY DEF Init
  <2>2. /\ lock \in Migrators \cup {NoOne}
        /\ pc \in [Migrators -> Live \cup Ended \cup {"orphaned"}]
        /\ data \in [Migrators -> BOOLEAN]
        /\ service \in [Services -> {"down", "up"}]
    BY DEF Init, Ended
  <2>3. /\ adopt \in [Migrators -> 0..3] /\ target \in [Migrators -> 0..Version]
        /\ done \in [Migrators -> Nat]
    BY DEF Init, Version
  <2>. QED  BY <2>1, <2>2, <2>3, <2>4, <2>5 DEF TypeOK
<1>5. RowFollowsSchema
  BY <1>1, <1>2, <1>3 DEF RowFollowsSchema, MarkedIsApplied, ServiceHasFullSchema, Init, Version
<1>6. \A p \in Migrators : SeesSchema(p)
  BY DEF SeesSchema, Init
<1>. QED  BY <1>4, <1>5, <1>6 DEF SQLiteInv

\* What a step of one run may do to the others.
LEMMA OthersStillSee ==
    ASSUME SQLiteInv, NEW q \in Migrators,
           pc'[q] = pc[q], data'[q] = data[q], adopt'[q] = adopt[q], target'[q] = target[q],
           done'[q] = done[q],
           level' \in 0..(Version + 1), version' \in 0..(Version + 1),
           level <= level', drift' = drift, hasTable => hasTable', version > 0 => version' > 0
    PROVE  SeesSchema(q)'
<1>1. SeesSchema(q) /\ level \in 0..(Version + 1) /\ version \in 0..(Version + 1)
      /\ target \in [Migrators -> 0..Version]
  BY DEF SQLiteInv, TypeOK
<1>2. target[q] \in 0..Version /\ Version = 4
  BY <1>1 DEF Version
<1>. QED  BY <1>1, <1>2 DEF SeesSchema

\* A run that ends keeps the invariant, if the row is then as it should be,
LEMMA ReturnKeepsSQLiteInv ==
    ASSUME SQLiteInv, NEW p \in Migrators, NEW outcome \in {"ok", "failed", "crashed"},
           Return(p, outcome), hasTable' = hasTable, version' \in 0..(Version + 1), dirty' \in BOOLEAN,
           version > 0 => version' > 0,
           RowFollowsSchema'
    PROVE  SQLiteInv'
<1>. USE DEF Return, Goto, schema, inherited
<1>1. TypeOK
  BY DEF SQLiteInv
<1>2. UNCHANGED <<level, partial, drift, history, service>>
  OBVIOUS
<1>3. TypeOK'
  <2>1. /\ level' \in 0..(Version + 1) /\ partial' \in Nat /\ drift' \in SUBSET Parts
        /\ history' \in Seq(PrismaRows) /\ hasTable' \in BOOLEAN
        /\ service' \in [Services -> {"down", "up"}]
    BY <1>1, <1>2 DEF TypeOK
  <2>2. /\ lock' \in Migrators \cup {NoOne}
        /\ pc' \in [Migrators -> Live \cup Ended \cup {"orphaned"}]
        /\ data' \in [Migrators -> BOOLEAN] /\ adopt' \in [Migrators -> 0..3]
        /\ target' \in [Migrators -> 0..Version] /\ done' \in [Migrators -> Nat]
    BY <1>1 DEF TypeOK, Ended, Version
  <2>. QED  BY <2>1, <2>2 DEF TypeOK
<1>4. ASSUME NEW q \in Migrators PROVE SeesSchema(q)'
  <2>1. CASE q = p
    <3>1. pc'[q] = outcome /\ adopt'[q] = 0
      BY <1>1, <2>1 DEF TypeOK
    <3>. QED  BY <3>1 DEF SeesSchema
  <2>2. CASE q # p
    <3>1. pc'[q] = pc[q] /\ data'[q] = data[q] /\ adopt'[q] = adopt[q] /\ target'[q] = target[q]
          /\ done'[q] = done[q]
      BY <1>1, <2>2 DEF TypeOK
    <3>2. level' \in 0..(Version + 1) /\ level <= level' /\ drift' = drift
      BY <1>1, <1>2 DEF TypeOK, Version
    <3>. QED  BY <3>1, <3>2, OthersStillSee
  <2>. QED  BY <2>1, <2>2
<1>. QED  BY <1>3, <1>4 DEF SQLiteInv

\* as it is when the row is left alone.
LEMMA EndKeepsSQLiteInv ==
    ASSUME SQLiteInv, NEW p \in Migrators, NEW outcome \in {"ok", "failed", "crashed"}, End(p, outcome)
    PROVE  SQLiteInv'
<1>1. Return(p, outcome) /\ UNCHANGED <<level, partial, drift, hasTable, version, dirty, service>>
  BY DEF End, Return, schema, inherited, row
<1>2. version' \in 0..(Version + 1) /\ dirty' \in BOOLEAN
  BY <1>1 DEF SQLiteInv, TypeOK
<1>3. RowFollowsSchema'
  BY <1>1 DEF SQLiteInv, RowFollowsSchema, MarkedIsApplied, ServiceHasFullSchema
<1>. QED  BY <1>1, <1>2, <1>3, ReturnKeepsSQLiteInv

\* A run that goes on: what it may do to its own variables, to those of the other
\* runs, to the row and to the schema.
PlanTypeOK ==
    /\ lock \in Migrators \cup {NoOne} /\ data \in [Migrators -> BOOLEAN]
    /\ adopt \in [Migrators -> 0..3] /\ target \in [Migrators -> 0..Version]
    /\ done \in [Migrators -> Nat]
OthersStay(p) ==
    \A q \in Migrators \ {p} :
        /\ pc'[q] = pc[q] /\ data'[q] = data[q] /\ adopt'[q] = adopt[q]
        /\ target'[q] = target[q] /\ done'[q] = done[q]
RowTypeOK == hasTable \in BOOLEAN /\ version \in 0..(Version + 1) /\ dirty \in BOOLEAN
Onward ==
    /\ level' \in 0..(Version + 1) /\ level <= level'
    /\ hasTable => hasTable'
    /\ version > 0 => version' > 0
    /\ UNCHANGED <<service, drift, history>>

\* It keeps the invariant if it keeps what is its own.
LEMMA GoingOnKeepsSQLiteInv ==
    ASSUME SQLiteInv, NEW p \in Migrators, NEW label \in Live, pc' = [pc EXCEPT ![p] = label],
           PlanTypeOK', OthersStay(p), RowTypeOK', Onward, RowFollowsSchema', SeesSchema(p)'
    PROVE  SQLiteInv'
<1>1. TypeOK
  BY DEF SQLiteInv
<1>2. pc' \in [Migrators -> Live \cup Ended \cup {"orphaned"}]
  BY <1>1 DEF TypeOK
<1>3. TypeOK'
  <2>1. partial' \in Nat
    BY DEF RowFollowsSchema
  <2>2. /\ level' \in 0..(Version + 1) /\ drift' \in SUBSET Parts /\ history' \in Seq(PrismaRows)
        /\ service' \in [Services -> {"down", "up"}]
    BY <1>1 DEF TypeOK, Onward
  <2>. QED  BY <1>2, <2>1, <2>2 DEF TypeOK, PlanTypeOK, RowTypeOK
<1>4. ASSUME NEW q \in Migrators, q # p PROVE SeesSchema(q)'
  <2>1. /\ pc'[q] = pc[q] /\ data'[q] = data[q] /\ adopt'[q] = adopt[q]
        /\ target'[q] = target[q] /\ done'[q] = done[q]
    BY <1>4 DEF OthersStay
  <2>2. /\ level' \in 0..(Version + 1) /\ version' \in 0..(Version + 1) /\ level <= level'
        /\ drift' = drift /\ (hasTable => hasTable') /\ (version > 0 => version' > 0)
    BY DEF RowTypeOK, Onward
  <2>. QED  BY <2>1, <2>2, OthersStillSee
<1>. QED  BY <1>3, <1>4 DEF SQLiteInv

\* Every step of a run is one or the other.
LEMMA RunKeepsSQLiteInv ==
    ASSUME Driver = "sqlite", SQLiteInv, NEW p \in Migrators, Run(p)
    PROVE  SQLiteInv'
<1>1. /\ level \in 0..(Version + 1) /\ hasTable \in BOOLEAN /\ version \in 0..(Version + 1)
      /\ dirty \in BOOLEAN /\ lock \in Migrators \cup {NoOne} /\ Version = 4
      /\ pc \in [Migrators -> Live \cup Ended \cup {"orphaned"}]
      /\ data \in [Migrators -> BOOLEAN] /\ adopt \in [Migrators -> 0..3]
      /\ target \in [Migrators -> 0..Version] /\ done \in [Migrators -> Nat]
  BY DEF SQLiteInv, TypeOK, Version
<1>2. SeesSchema(p) /\ RowFollowsSchema
  BY DEF SQLiteInv
<1>. DEFINE Still == UNCHANGED <<level, partial, drift, history, hasTable, version, dirty, service>>
<1>3. ASSUME Still PROVE RowFollowsSchema' /\ level <= level'
  BY <1>1, <1>2, <1>3 DEF RowFollowsSchema, MarkedIsApplied, ServiceHasFullSchema
<1>4. CASE Begin(p)
  <2>. USE DEF Begin, Goto
  <2>1. Still /\ UNCHANGED <<lock, data, adopt, target, done>> /\ pc' = [pc EXCEPT ![p] = "listing"]
        /\ pc[p] \in {"idle", "ok", "failed", "crashed"}
    BY <1>4 DEF Ended, schema, inherited, row, plan
  <2>2. pc'[p] = "listing" /\ adopt'[p] = 0
    BY <1>1, <1>2, <2>1 DEF SeesSchema
  <2>3. SeesSchema(p)'
    BY <2>2 DEF SeesSchema
  <2>20. PlanTypeOK' /\ OthersStay(p)
    BY <1>1, <1>3, <2>1, <2>3 DEF PlanTypeOK, OthersStay
  <2>21. RowTypeOK' /\ Onward
    BY <1>1, <1>3, <2>1, <2>3 DEF RowTypeOK, Onward
  <2>. QED  BY <1>1, <1>3, <2>1, <2>3, <2>20, <2>21, GoingOnKeepsSQLiteInv DEF Live
<1>5. CASE AcquireLock(p)
  <2>1. Still /\ UNCHANGED <<data, adopt, target, done>> /\ pc' = [pc EXCEPT ![p] = "listing"] /\ lock' = p
        /\ pc[p] = "locking"
    BY <1>5 DEF AcquireLock, Goto, schema, inherited, row, plan
  <2>2. pc'[p] = "listing" /\ adopt'[p] = 0
    BY <1>1, <1>2, <2>1 DEF SeesSchema
  <2>3. SeesSchema(p)'
    BY <2>2 DEF SeesSchema
  <2>20. PlanTypeOK' /\ OthersStay(p)
    BY <1>1, <1>3, <2>1, <2>3 DEF PlanTypeOK, OthersStay
  <2>21. RowTypeOK' /\ Onward
    BY <1>1, <1>3, <2>1, <2>3 DEF RowTypeOK, Onward
  <2>. QED  BY <1>1, <1>3, <2>1, <2>3, <2>20, <2>21, GoingOnKeepsSQLiteInv DEF Live
<1>6. CASE \/ LockTimesOut(p) \/ RefuseVersion(p) \/ RefuseDatabase(p) \/ UpRefused(p) \/ NoChange(p)
           \/ StatementRefused(p) \/ Fail(p) \/ Crash(p) \/ SessionEnds(p)
  <2>1. \E outcome \in {"ok", "failed", "crashed"} : End(p, outcome)
    BY <1>6 DEF LockTimesOut, RefuseVersion, RefuseDatabase, UpRefused, NoChange, StatementRefused,
        Fail, Crash, SessionEnds
  <2>. QED  BY <2>1, EndKeepsSQLiteInv
<1>7. CASE ListTables(p)
  <2>. DEFINE label == IF hasTable THEN "reading" ELSE "deciding"
  <2>1. Still /\ UNCHANGED <<lock, adopt, target, done>> /\ pc' = [pc EXCEPT ![p] = label]
        /\ data' = [data EXCEPT ![p] = level > 0 \/ partial > 0]
        /\ pc[p] = "listing"
    BY <1>7 DEF ListTables, Goto, schema, inherited, row
  <2>2. pc'[p] = label /\ (data'[p] <=> level > 0 \/ partial > 0)
    BY <1>1, <2>1
  <2>3. partial = 0 /\ (level > 0 \/ level = 0) /\ (data'[p] <=> level > 0)
    BY <1>1, <1>2, <2>2 DEF RowFollowsSchema
  <2>4. ~hasTable /\ level > 0 => level >= 2
    BY <1>1, <1>2 DEF RowFollowsSchema
  <2>5. SeesSchema(p)'
    <3>1. /\ adopt'[p] = 0 /\ (level > 0 \/ drift = {}) /\ level' = level /\ drift' = drift
          /\ (~hasTable /\ level > 0 => level >= 2)
      BY <1>1, <1>2, <2>1, <2>3, <2>4 DEF SeesSchema, RowFollowsSchema
    <3>2. CASE hasTable
      BY <2>2, <2>3, <3>1, <3>2 DEF SeesSchema
    <3>3. CASE ~hasTable
      BY <2>2, <2>3, <2>4, <3>1, <3>3 DEF SeesSchema
    <3>. QED  BY <3>2, <3>3
  <2>6. (level > 0 \/ partial > 0) \in BOOLEAN /\ label \in Live
    BY DEF Live
  <2>. HIDE DEF label
  <2>20. PlanTypeOK' /\ OthersStay(p)
    BY <1>1, <1>3, <2>1, <2>5, <2>6 DEF PlanTypeOK, OthersStay
  <2>21. RowTypeOK' /\ Onward
    BY <1>1, <1>3, <2>1, <2>5, <2>6 DEF RowTypeOK, Onward
  <2>. QED  BY <1>1, <1>3, <2>1, <2>5, <2>6, <2>20, <2>21, GoingOnKeepsSQLiteInv DEF Live
<1>8. CASE ReadVersion(p)
  <2>. DEFINE label == IF version = 0 THEN "deciding" ELSE "opening"
  <2>1. Still /\ UNCHANGED <<lock, data, adopt, target, done>> /\ pc' = [pc EXCEPT ![p] = label]
        /\ pc[p] = "reading" /\ ~dirty
    BY <1>8 DEF ReadVersion, Goto, schema, inherited, row, plan
  <2>2. pc'[p] = label
    BY <1>1, <2>1
  <2>3. SeesSchema(p)'
    <3>1. CASE version = 0
      BY <1>1, <1>2, <2>1, <2>2, <3>1 DEF SeesSchema, RowFollowsSchema
    <3>2. CASE version # 0
      <4>1. adopt[p] = 0
        BY <1>2, <2>1 DEF SeesSchema
      <4>. QED  BY <1>1, <1>2, <2>1, <2>2, <3>2, <4>1 DEF SeesSchema, RowFollowsSchema
    <3>. QED  BY <3>1, <3>2
  <2>4. label \in Live
    BY DEF Live
  <2>. HIDE DEF label
  <2>20. PlanTypeOK' /\ OthersStay(p)
    BY <1>1, <1>3, <2>1, <2>3, <2>4 DEF PlanTypeOK, OthersStay
  <2>21. RowTypeOK' /\ Onward
    BY <1>1, <1>3, <2>1, <2>3, <2>4 DEF RowTypeOK, Onward
  <2>. QED  BY <1>1, <1>3, <2>1, <2>3, <2>4, <2>20, <2>21, GoingOnKeepsSQLiteInv DEF Live
<1>9. CASE Adopt(p)
  <2>. DEFINE v == AdoptedVersion(p)
  <2>1. Still /\ UNCHANGED <<lock, data, target, done>> /\ pc' = [pc EXCEPT ![p] = "opening"]
        /\ pc[p] = "deciding" /\ Adoptable(p) /\ adopt' = [adopt EXCEPT ![p] = v]
    BY <1>9 DEF Adopt, Goto, schema, inherited, row
  <2>2. v = IF data[p] THEN 2 ELSE 0
    BY DEF AdoptedVersion
  <2>3. v \in 0..3 /\ v \in {0, 2}
    BY <2>2
  <2>4. pc'[p] = "opening" /\ adopt'[p] = v
    BY <1>1, <2>1
  <2>5. drift = {}
    <3>1. CASE data[p]
      <4>1. \A part \in Parts : Style(part) = "new"
        BY <2>1, <2>2, <3>1 DEF Adoptable, Verified
      <4>2. \A part \in drift : part \in Parts /\ Style(part) = "other"
        BY DEF SQLiteInv, TypeOK, Style
      <4>. QED  BY <4>1, <4>2
    <3>2. CASE ~data[p]
      BY <1>2, <2>1, <3>2 DEF SeesSchema
    <3>. QED  BY <3>1, <3>2
  <2>. HIDE DEF v
  <2>6. SeesSchema(p)'
    BY <1>1, <1>2, <2>1, <2>2, <2>3, <2>4, <2>5 DEF SeesSchema
  <2>20. PlanTypeOK' /\ OthersStay(p)
    BY <1>1, <1>3, <2>1, <2>3, <2>6 DEF PlanTypeOK, OthersStay
  <2>21. RowTypeOK' /\ Onward
    BY <1>1, <1>3, <2>1, <2>3, <2>6 DEF RowTypeOK, Onward
  <2>. QED  BY <1>1, <1>3, <2>1, <2>3, <2>6, <2>20, <2>21, GoingOnKeepsSQLiteInv DEF Live
<1>10. CASE OpenDriver(p)
  <2>. DEFINE label == IF adopt[p] > 0 THEN "forcing" ELSE "starting"
  <2>1. UNCHANGED <<level, partial, drift, history, version, dirty, service>> /\ hasTable' = TRUE
        /\ UNCHANGED <<lock, data, adopt, target, done>> /\ pc' = [pc EXCEPT ![p] = label]
        /\ pc[p] = "opening"
    BY <1>10 DEF OpenDriver, Goto, schema, inherited, plan
  <2>2. pc'[p] = label
    BY <1>1, <2>1
  <2>3. RowFollowsSchema' /\ level <= level'
    BY <1>1, <1>2, <2>1 DEF RowFollowsSchema, MarkedIsApplied, ServiceHasFullSchema
  <2>4. SeesSchema(p)'
    BY <1>1, <1>2, <2>1, <2>2 DEF SeesSchema
  <2>5. label \in Live
    BY DEF Live
  <2>. HIDE DEF label
  <2>20. PlanTypeOK' /\ OthersStay(p)
    BY <1>1, <2>1, <2>3, <2>4, <2>5 DEF PlanTypeOK, OthersStay
  <2>21. RowTypeOK' /\ Onward
    BY <1>1, <2>1, <2>3, <2>4, <2>5 DEF RowTypeOK, Onward
  <2>. QED  BY <1>1, <2>1, <2>3, <2>4, <2>5, <2>20, <2>21, GoingOnKeepsSQLiteInv DEF Live
<1>11. CASE ForceVersion(p)
  <2>1. UNCHANGED <<level, partial, drift, history, hasTable, service>> /\ version' = adopt[p] /\ dirty' = FALSE
        /\ UNCHANGED <<lock, data, adopt, target, done>> /\ pc' = [pc EXCEPT ![p] = "starting"]
        /\ pc[p] = "forcing"
    BY <1>11 DEF ForceVersion, SetVersion, Goto, schema, inherited, plan
  <2>2. pc'[p] = "starting" /\ version' = 2 /\ level >= 2 /\ hasTable /\ drift = {}
    BY <1>1, <1>2, <2>1 DEF SeesSchema
  <2>3. RowFollowsSchema' /\ level <= level'
    BY <1>1, <1>2, <2>1, <2>2 DEF RowFollowsSchema, MarkedIsApplied, ServiceHasFullSchema
  <2>4. SeesSchema(p)'
    BY <2>1, <2>2 DEF SeesSchema
  <2>20. PlanTypeOK' /\ OthersStay(p)
    BY <1>1, <2>1, <2>2, <2>3, <2>4 DEF PlanTypeOK, OthersStay
  <2>5. dirty' \in BOOLEAN /\ hasTable' \in BOOLEAN /\ version' \in 0..(Version + 1)
    <3>1. dirty' \in BOOLEAN
      BY <2>1
    <3>2. hasTable' \in BOOLEAN
      BY <1>1, <2>1
    <3>3. version' \in 0..(Version + 1)
      BY <1>1, <2>2
    <3>. QED  BY <3>1, <3>2, <3>3
  <2>21. RowTypeOK' /\ Onward
    BY <1>1, <2>1, <2>2, <2>3, <2>5 DEF RowTypeOK, Onward
  <2>. QED  BY <1>1, <2>1, <2>2, <2>3, <2>4, <2>20, <2>21, GoingOnKeepsSQLiteInv DEF Live
<1>12. CASE Up(p)
  <2>1. Still /\ UNCHANGED <<lock, data, adopt, done>> /\ pc' = [pc EXCEPT ![p] = "marking"]
        /\ pc[p] = "starting" /\ version < Version /\ target' = [target EXCEPT ![p] = version + 1]
    BY <1>12 DEF Up, Goto, schema, inherited, row
  <2>2. version + 1 \in 1..Version /\ version + 1 \in 0..Version
    BY <1>1, <2>1
  <2>3. pc'[p] = "marking" /\ target'[p] = version + 1
    BY <1>1, <2>1
  <2>4. SeesSchema(p)'
    BY <1>2, <2>1, <2>2, <2>3 DEF SeesSchema
  <2>20. PlanTypeOK' /\ OthersStay(p)
    BY <1>1, <1>3, <2>1, <2>2, <2>4 DEF PlanTypeOK, OthersStay
  <2>21. RowTypeOK' /\ Onward
    BY <1>1, <1>3, <2>1, <2>2, <2>4 DEF RowTypeOK, Onward
  <2>. QED  BY <1>1, <1>3, <2>1, <2>2, <2>4, <2>20, <2>21, GoingOnKeepsSQLiteInv DEF Live
<1>13. CASE MarkDirty(p)
  <2>1. UNCHANGED <<level, partial, drift, history, hasTable, service>> /\ version' = target[p] /\ dirty' = TRUE
        /\ UNCHANGED <<lock, data, adopt, target>> /\ pc' = [pc EXCEPT ![p] = "executing"]
        /\ pc[p] = "marking" /\ done' = [done EXCEPT ![p] = 0]
    BY <1>13 DEF MarkDirty, SetVersion, Goto, schema, inherited
  <2>2. pc'[p] = "executing" /\ done'[p] = 0 /\ hasTable /\ drift = {} /\ version' \in 1..Version
        /\ target[p] \in 1..Version /\ version' > 0 /\ version' \in 0..(Version + 1)
    BY <1>1, <1>2, <2>1 DEF SeesSchema
  <2>3. RowFollowsSchema' /\ level <= level'
    BY <1>1, <1>2, <2>1, <2>2 DEF RowFollowsSchema, MarkedIsApplied, ServiceHasFullSchema
  <2>4. SeesSchema(p)'
    BY <1>1, <2>1, <2>2 DEF SeesSchema
  <2>20. PlanTypeOK' /\ OthersStay(p)
    BY <1>1, <2>1, <2>2, <2>3, <2>4 DEF PlanTypeOK, OthersStay
  <2>21. RowTypeOK' /\ Onward
    BY <1>1, <2>1, <2>2, <2>3, <2>4 DEF RowTypeOK, Onward
  <2>. QED  BY <1>1, <2>1, <2>2, <2>3, <2>4, <2>20, <2>21, GoingOnKeepsSQLiteInv DEF Live
<1>14. CASE Execute(p)
  <2>1. pc[p] = "executing" /\ done[p] = 0 /\ target[p] \in 1..Version /\ version > 0 /\ drift = {} /\ hasTable
    BY <1>2, <1>14 DEF Execute, SeesSchema
  <2>2. Statements[target[p]] = 1 /\ partial = 0
    BY <1>2, <2>1, Transactions DEF RowFollowsSchema
  <2>3. UNCHANGED <<drift, history, hasTable, version, dirty, service>> /\ UNCHANGED <<lock, data, adopt, target>>
    BY <1>14 DEF Execute, inherited, row
  <2>4. /\ Fits(p) \/ Reruns(p)
        /\ level' = IF Fits(p) THEN target[p] ELSE level
        /\ partial' = 0
        /\ pc' = [pc EXCEPT ![p] = "cleaning"]
        /\ done' = [done EXCEPT ![p] = 1]
    BY <1>1, <1>14, <2>1, <2>2 DEF Execute
  <2>5. level' \in 0..(Version + 1) /\ level <= level' /\ target[p] <= level'
    BY <1>1, <2>1, <2>4 DEF Fits, Reruns
  <2>6. RowFollowsSchema'
    BY <1>1, <1>2, <2>1, <2>3, <2>4, <2>5 DEF RowFollowsSchema, MarkedIsApplied, ServiceHasFullSchema
  <2>7. pc'[p] = "cleaning"
    BY <1>1, <2>4
  <2>8. SeesSchema(p)'
    BY <1>1, <2>1, <2>3, <2>5, <2>7 DEF SeesSchema
  <2>20. PlanTypeOK' /\ OthersStay(p)
    BY <1>1, <2>3, <2>4, <2>5, <2>6, <2>8 DEF PlanTypeOK, OthersStay
  <2>21. RowTypeOK' /\ Onward
    BY <1>1, <2>3, <2>4, <2>5, <2>6, <2>8 DEF RowTypeOK, Onward
  <2>. QED  BY <1>1, <2>3, <2>4, <2>5, <2>6, <2>8, <2>20, <2>21, GoingOnKeepsSQLiteInv DEF Live
<1>15. CASE MarkClean(p) \/ MarkCurrent(p)
  <2>1. UNCHANGED <<level, partial, drift, history, hasTable, service>> /\ version' = target[p] /\ dirty' = FALSE
        /\ pc[p] = "cleaning"
    BY <1>15 DEF MarkClean, MarkCurrent, Return, SetVersion, schema, inherited
  <2>2. /\ target[p] \in 1..Version /\ target[p] <= level /\ hasTable /\ drift = {}
    BY <1>1, <1>2, <2>1 DEF SeesSchema
  <2>6. version' > 0 /\ version' \in 0..(Version + 1)
    BY <1>1, <2>1, <2>2
  <2>7. dirty' \in BOOLEAN /\ hasTable' = hasTable
    BY <2>1
  <2>3. RowFollowsSchema' /\ level <= level'
    BY <1>1, <1>2, <2>1, <2>2 DEF RowFollowsSchema, MarkedIsApplied, ServiceHasFullSchema
  <2>4. CASE MarkCurrent(p)
    <3>1. Return(p, "ok")
      BY <2>4 DEF MarkCurrent
    <3>. QED  BY <2>3, <2>6, <2>7, <3>1, ReturnKeepsSQLiteInv
  <2>5. CASE MarkClean(p)
    <3>1. /\ UNCHANGED <<lock, data, adopt, done>> /\ pc' = [pc EXCEPT ![p] = "marking"]
          /\ target' = [target EXCEPT ![p] = target[p] + 1] /\ target[p] < Version
      BY <1>1, <2>5 DEF MarkClean, Goto
    <3>2. target[p] + 1 \in 1..Version /\ target[p] + 1 \in 0..Version
      BY <1>1, <2>2, <3>1
    <3>3. pc'[p] = "marking" /\ target'[p] = target[p] + 1
      BY <1>1, <3>1
    <3>4. SeesSchema(p)'
      BY <2>1, <2>2, <3>2, <3>3 DEF SeesSchema
    <3>20. PlanTypeOK' /\ OthersStay(p)
      BY <1>1, <2>1, <2>2, <2>3, <3>1, <3>2, <3>4 DEF PlanTypeOK, OthersStay
    <3>21. RowTypeOK' /\ Onward
      BY <1>1, <2>1, <2>3, <2>6, <2>7 DEF RowTypeOK, Onward
    <3>. QED  BY <1>1, <2>1, <2>2, <2>3, <3>1, <3>2, <3>4, <3>20, <3>21, GoingOnKeepsSQLiteInv DEF Live
  <2>. QED  BY <1>15, <2>4, <2>5
<1>. QED
  BY <1>4, <1>5, <1>6, <1>7, <1>8, <1>9, <1>10, <1>11, <1>12, <1>13, <1>14, <1>15
  DEF Run, Step, Inspect, Upgrade

\* Every step keeps the invariant, those of the operator and of the services included.
LEMMA NextKeepsSQLiteInv ==
    ASSUME Driver = "sqlite" PROVE SQLiteInv /\ [Next]_vars => SQLiteInv'
<1>. SUFFICES ASSUME SQLiteInv, [Next]_vars PROVE SQLiteInv'
  OBVIOUS
<1>1. CASE \E p \in Migrators : Run(p)
  BY <1>1, RunKeepsSQLiteInv
<1>2. CASE Repair
  <2>1. /\ UNCHANGED <<drift, history, lock, pc, data, adopt, target, done, service>>
        /\ dirty /\ \A p \in Migrators : pc[p] \in Ended
        /\ hasTable' = hasTable /\ version' = level' /\ dirty' = FALSE /\ partial' = 0
    BY <1>2 DEF Repair, SetVersion, inherited, plan
  <2>2. level' = level
    BY <1>2 DEF Repair, SQLiteInv, RowFollowsSchema
  <2>3. level \in 0..(Version + 1) /\ version \in 0..(Version + 1) /\ Version = 4
    BY DEF SQLiteInv, TypeOK, Version
  <2>4. TypeOK'
    BY <2>1, <2>2, <2>3 DEF SQLiteInv, TypeOK
  <2>5. RowFollowsSchema'
    BY <2>1, <2>2, <2>3 DEF SQLiteInv, RowFollowsSchema, MarkedIsApplied, ServiceHasFullSchema
  <2>6. \A p \in Migrators : SeesSchema(p)'
    <3>1. ASSUME NEW p \in Migrators PROVE SeesSchema(p)'
      <4>1. pc[p] \in {"idle", "ok", "failed", "crashed"} /\ SeesSchema(p) /\ pc'[p] = pc[p] /\ adopt'[p] = adopt[p]
        BY <2>1 DEF SQLiteInv, Ended
      <4>. QED  BY <4>1 DEF SeesSchema
    <3>. QED  BY <3>1
  <2>. QED  BY <2>4, <2>5, <2>6 DEF SQLiteInv
<1>3. CASE UNCHANGED vars \/ \E s \in Services : Serve(s)
  <2>1. UNCHANGED <<level, partial, drift, history, hasTable, version, dirty, lock, pc, data, adopt, target, done>>
    BY <1>3 DEF vars, schema, inherited, row, plan, Serve, StartService, StopService
  <2>2. service' \in [Services -> {"down", "up"}]
    BY <1>3 DEF SQLiteInv, TypeOK, vars, Serve, StartService, StopService
  <2>3. ServiceHasFullSchema'
    <3>1. TypeOK /\ ServiceHasFullSchema /\ MarkedIsApplied /\ partial = 0
      BY DEF SQLiteInv, RowFollowsSchema
    <3>2. CASE UNCHANGED vars
      BY <3>1, <3>2 DEF ServiceHasFullSchema, vars, schema
    <3>3. ASSUME NEW s \in Services, Serve(s) PROVE ServiceHasFullSchema'
      BY <2>1, <3>1, <3>3 DEF ServiceHasFullSchema, MarkedIsApplied, Serve, StartService, StopService,
          Clean, TypeOK, Version
    <3>. QED  BY <1>3, <3>2, <3>3
  <2>4. TypeOK'
    BY <2>1, <2>2 DEF SQLiteInv, TypeOK
  <2>5. RowFollowsSchema'
    BY <2>1, <2>3 DEF SQLiteInv, RowFollowsSchema, MarkedIsApplied
  <2>6. \A p \in Migrators : SeesSchema(p)'
    BY <2>1 DEF SQLiteInv, SeesSchema
  <2>. QED  BY <2>4, <2>5, <2>6 DEF SQLiteInv
<1>. QED  BY <1>1, <1>2, <1>3 DEF Next

-----------------------------------------------------------------------------
\* Every variable keeps its type, for any number of runs and services.
THEOREM TypeCorrect == Spec => []TypeOK
<1>1. ASSUME Driver = "mysql" PROVE Spec => []TypeOK
  <2>1. Init => IInv
    BY <1>1, InitiallySafe
  <2>2. IInv /\ [Next]_vars => IInv'
    BY <1>1, NextKeepsInv
  <2>3. IInv => TypeOK
    BY DEF IInv
  <2>. QED  BY <2>1, <2>2, <2>3, PTL DEF Spec
<1>2. ASSUME Driver = "sqlite" PROVE Spec => []TypeOK
  <2>1. Init => SQLiteInv
    BY <1>2, InitiallySafeOnSQLite
  <2>2. SQLiteInv /\ [Next]_vars => SQLiteInv'
    BY <1>2, NextKeepsSQLiteInv
  <2>3. SQLiteInv => TypeOK
    BY DEF SQLiteInv
  <2>. QED  BY <2>1, <2>2, <2>3, PTL DEF Spec
<1>. QED  BY <1>1, <1>2, DriverAssumption

\* A clean version is one whose migrations were all executed, on a schema nobody
\* changed by hand (migrate.go:29-30): on SQLite too, where runs overlap.
THEOREM AlwaysMarkedIsApplied == Spec => []MarkedIsApplied
<1>1. ASSUME Driver = "mysql" PROVE Spec => []MarkedIsApplied
  <2>1. Init => IInv
    BY <1>1, InitiallySafe
  <2>2. IInv /\ [Next]_vars => IInv'
    BY <1>1, NextKeepsInv
  <2>3. IInv => MarkedIsApplied
    BY DEF IInv, RowIsTrue, MarkedIsApplied, TypeOK
  <2>. QED  BY <2>1, <2>2, <2>3, PTL DEF Spec
<1>2. ASSUME Driver = "sqlite" PROVE Spec => []MarkedIsApplied
  <2>1. Init => SQLiteInv
    BY <1>2, InitiallySafeOnSQLite
  <2>2. SQLiteInv /\ [Next]_vars => SQLiteInv'
    BY <1>2, NextKeepsSQLiteInv
  <2>3. SQLiteInv => MarkedIsApplied
    BY DEF SQLiteInv, RowFollowsSchema
  <2>. QED  BY <2>1, <2>2, <2>3, PTL DEF Spec
<1>. QED  BY <1>1, <1>2, DriverAssumption

\* serve, cron and the imports never run on a schema that is not complete
\* (db.go:66-75).
THEOREM ServicesAlwaysHaveFullSchema == Spec => []ServiceHasFullSchema
<1>1. ASSUME Driver = "mysql" PROVE Spec => []ServiceHasFullSchema
  <2>1. Init => IInv
    BY <1>1, InitiallySafe
  <2>2. IInv /\ [Next]_vars => IInv'
    BY <1>1, NextKeepsInv
  <2>3. IInv => ServiceHasFullSchema
    BY DEF IInv
  <2>. QED  BY <2>1, <2>2, <2>3, PTL DEF Spec
<1>2. ASSUME Driver = "sqlite" PROVE Spec => []ServiceHasFullSchema
  <2>1. Init => SQLiteInv
    BY <1>2, InitiallySafeOnSQLite
  <2>2. SQLiteInv /\ [Next]_vars => SQLiteInv'
    BY <1>2, NextKeepsSQLiteInv
  <2>3. SQLiteInv => ServiceHasFullSchema
    BY DEF SQLiteInv, RowFollowsSchema
  <2>. QED  BY <2>1, <2>2, <2>3, PTL DEF Spec
<1>. QED  BY <1>1, <1>2, DriverAssumption

\* On MySQL: whatever dies and is repeated, a statement is executed in its turn or
\* is the repeated cleanup (README.md:132).
THEOREM OnlyPendingAlwaysExecute ==
    ASSUME Driver = "mysql" PROVE Spec => []OnlyPendingExecute
<1>1. Init => IInv BY InitiallySafe
<1>2. IInv /\ [Next]_vars => IInv' BY NextKeepsInv
<1>3. ASSUME IInv PROVE OnlyPendingExecute
  <2>1. ASSUME NEW p \in Migrators, pc[p] \in {"executing", "orphaned"},
               done[p] < Statements[target[p]]
        PROVE  Fits(p) \/ (level = target[p] /\ partial = 0 /\ target[p] \in Repeatable)
    <3>1. target[p] \in 1..Version /\ done[p] \in Nat /\ Progress(p)
        BY <1>3, <2>1 DEF IInv, TypeOK, Knows
    <3>2. Statements[target[p]] \in Nat BY <3>1, StatementCounts
    <3> QED BY <2>1, <3>1, <3>2, StatementCounts DEF Progress, Fits
  <2> QED BY <2>1 DEF OnlyPendingExecute
<1> QED BY <1>1, <1>2, <1>3, PTL DEF Spec

\* On MySQL: when migrate reports success the database is current, and stays so
\* (main.go:73-78).
THEOREM SuccessAlwaysMeansCurrent ==
    ASSUME Driver = "mysql" PROVE Spec => []SuccessMeansCurrent
<1>1. Init => IInv BY InitiallySafe
<1>2. IInv /\ [Next]_vars => IInv' BY NextKeepsInv
<1>3. IInv => SuccessMeansCurrent BY DEF IInv, Knows, SuccessMeansCurrent
<1> QED BY <1>1, <1>2, <1>3, PTL DEF Spec

\* The steps that leave the row alone.
LEMMA RowStays ==
    ASSUME NEW p \in Migrators,
           \/ Begin(p) \/ AcquireLock(p) \/ LockTimesOut(p) \/ Inspect(p) \/ Up(p)
           \/ UpRefused(p) \/ NoChange(p) \/ StatementRefused(p) \/ Execute(p)
           \/ Fail(p) \/ Crash(p) \/ SessionEnds(p)
    PROVE  UNCHANGED row
<1>1. CASE \/ Begin(p) \/ AcquireLock(p) \/ Up(p) \/ Execute(p)
    BY <1>1 DEF Begin, AcquireLock, Up, Execute
<1>2. CASE Inspect(p)
    BY <1>2 DEF Inspect, ListTables, ReadVersion, RefuseVersion, Adopt, RefuseDatabase, End
<1>3. CASE \/ LockTimesOut(p) \/ UpRefused(p) \/ NoChange(p) \/ StatementRefused(p)
           \/ Fail(p) \/ Crash(p) \/ SessionEnds(p)
    BY <1>3 DEF LockTimesOut, UpRefused, NoChange, StatementRefused, Fail, Crash, SessionEnds, End
<1> QED BY <1>1, <1>2, <1>3

\* On MySQL: only the run that marked a version dirty clears it, once it executed
\* the migration, or the operator (README.md:142-144).
THEOREM DirtyNeverCleared ==
    ASSUME Driver = "mysql" PROVE Spec => DirtyIsNeverCleared
<1>1. Init => IInv BY InitiallySafe
<1>2. IInv /\ [Next]_vars => IInv' BY NextKeepsInv
<1>3. IInv /\ [Next]_vars => [dirty /\ row' # row => ClearsDirty]_vars
  <2> SUFFICES ASSUME IInv, Next, dirty, row' # row PROVE ClearsDirty OBVIOUS
  <2>1. ASSUME NEW p \in Migrators, Run(p) PROVE ClearsDirty
    <3>1. Knows(p) BY DEF IInv
    <3>2. \/ OpenDriver(p) \/ ForceVersion(p) \/ MarkDirty(p)
          \/ MarkClean(p) \/ MarkCurrent(p)
        BY <2>1, RowStays DEF Run, Step, Upgrade
    <3>3. CASE OpenDriver(p) \/ ForceVersion(p) \/ MarkDirty(p)
        BY <3>1, <3>3 DEF OpenDriver, ForceVersion, MarkDirty, Knows, IInv, RowIsTrue
    <3>4. CASE MarkClean(p) \/ MarkCurrent(p)
      <4>1. pc[p] = "cleaning" BY <3>4 DEF MarkClean, MarkCurrent
      <4>2. target[p] = version /\ level >= version
          BY <3>1, <4>1 DEF Knows, IInv, TypeOK, Version
      <4> QED BY <4>1, <4>2 DEF ClearsDirty
    <3> QED BY <3>2, <3>3, <3>4
  <2>2. CASE Repair BY <2>2 DEF Repair, ClearsDirty
  <2>3. ASSUME NEW s \in Services, Serve(s) PROVE ClearsDirty
    BY <2>3 DEF Serve, StartService, StopService
  <2> QED BY <2>1, <2>2, <2>3 DEF Next
<1> QED BY <1>1, <1>2, <1>3, PTL DEF Spec, DirtyIsNeverCleared
=============================================================================
