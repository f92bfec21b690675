--------------------------- MODULE Migrations_proofs ---------------------------
(***************************************************************************)
(* Proofs about the migration runner, for all scripts, runners and bounds. *)
(***************************************************************************)
EXTENDS Migrations, TLAPS

(* A runner at work is at a file of the directory, and one that waits is   *)
(* at a statement of it.                                                   *)
AtFile ==
  \A r \in Runner :
    /\ pc[r] \in {"apply", "blocked", "record"} => file[r] \in File
    /\ pc[r] = "blocked" => pos[r] \in 1 .. Len(Script[file[r]])
    /\ pos[r] \in Nat \ {0}

MigrationsInv == MigrationsTypeOK /\ AtFile

(* A statement of a file creates an object.                                *)
LEMMA StatementIsObject ==
  ASSUME NEW f \in File, NEW i \in 1 .. Len(Script[f])
  PROVE  Script[f] \in Seq(Object) /\ Script[f][i] \in Objects(f) /\ Script[f][i] \in Object
  BY MigrationAssumption DEF File, Objects

LEMMA ObjectsAreObjects ==
  ASSUME NEW f \in File
  PROVE  Objects(f) \subseteq Object /\ Len(Script[f]) \in Nat
  BY MigrationAssumption DEF File, Objects

(* Proceeding leads to a file of the directory or ends the run.            *)
LEMMA ProceedType ==
  ASSUME MigrationsInv, NEW r \in Runner, NEW f, NEW applied, Proceed(r, f, applied)
  PROVE  /\ pc' \in [Runner -> {"prepare", "list", "apply", "blocked", "record", "done", "failed"}]
         /\ file' \in [Runner -> 0 .. Len(Script)]
         /\ pos' \in [Runner -> Nat]
         /\ pc'[r] \in {"apply", "done"}
         /\ pc'[r] = "apply" => file'[r] \in File
         /\ pos'[r] \in Nat \ {0}
         /\ \A s \in Runner \ {r} : pc'[s] = pc[s] /\ file'[s] = file[s] /\ pos'[s] = pos[s]
<1> USE DEF MigrationsInv, MigrationsTypeOK, AtFile
<1>1. CASE /\ pc' = [pc EXCEPT ![r] = "done"]
           /\ UNCHANGED <<file, pos>>
  BY <1>1
<1>2. ASSUME NEW g \in File,
             pc' = [pc EXCEPT ![r] = "apply"],
             file' = [file EXCEPT ![r] = g],
             pos' = [pos EXCEPT ![r] = 1]
      PROVE  /\ pc' \in [Runner -> {"prepare", "list", "apply", "blocked", "record", "done", "failed"}]
             /\ file' \in [Runner -> 0 .. Len(Script)]
             /\ pos' \in [Runner -> Nat]
             /\ pc'[r] \in {"apply", "done"}
             /\ pc'[r] = "apply" => file'[r] \in File
             /\ pos'[r] \in Nat \ {0}
             /\ \A s \in Runner \ {r} : pc'[s] = pc[s] /\ file'[s] = file[s] /\ pos'[s] = pos[s]
  <2>1. g \in 0 .. Len(Script)
    BY <1>2, MigrationAssumption DEF File
  <2>2. QED  BY <1>2, <2>1
<1>3. QED  BY <1>1, <1>2 DEF Proceed

(* Every step keeps the types.                                             *)
LEMMA MigrationsInvStep ==
  ASSUME MigrationsInv, [MigrationsNext]_migrationsVars
  PROVE  MigrationsInv'
<1> USE DEF MigrationsInv, MigrationsTypeOK, AtFile
<1> SUFFICES ASSUME NEW r \in Runner, Step(r) \/ Fault(r)
             PROVE  MigrationsInv'
  BY DEF MigrationsNext, migrationsVars, place, database
<1>1. CASE Prepare(r)
  <2> PICK losers \in SUBSET {s \in Runner \ {r} : pc[s] = "prepare"} :
        pc' = [s \in Runner |-> IF s = r THEN "list"
                                ELSE IF s \in losers THEN "failed" ELSE pc[s]]
    BY <1>1 DEF Prepare
  <2> QED  BY <1>1 DEF Prepare
<1>2. CASE List(r)
  <2>1. Proceed(r, 0, recorded)
    BY <1>2 DEF List
  <2>2. known' \in [Runner -> SUBSET File]
    BY <1>2 DEF List
  <2>3. QED  BY <1>2, <2>1, <2>2, ProceedType DEF List, database
<1>3. CASE PgStatement(r)
  <2>1. file[r] \in File /\ pos[r] \in 1 .. Len(Script[file[r]])
    BY <1>3, ObjectsAreObjects DEF PgStatement, EndOfFile
  <2>2. Statement(r) \in Object
    BY <2>1, StatementIsObject DEF Statement
  <2>3. made' \in [Runner -> SUBSET Object]
    <3>1. made' = made \/ made' = [made EXCEPT ![r] = @ \cup {Statement(r)}]
      BY <1>3 DEF PgStatement
    <3>2. QED  BY <3>1, <2>2
  <2>4. \/ UNCHANGED <<pc, pos>>
        \/ pc' = [pc EXCEPT ![r] = "blocked"] /\ pos' = pos
        \/ pc' = pc /\ pos' = [pos EXCEPT ![r] = pos[r] + 1]
    BY <1>3 DEF PgStatement, Advance
  <2>5. UNCHANGED <<dialect, schema, tracking, recorded, known, file, faults, cut>>
    BY <1>3 DEF PgStatement, database
  <2>6. pc[r] = "apply"
    BY <1>3 DEF PgStatement
  <2>7. CASE UNCHANGED <<pc, pos>>
    BY <2>3, <2>5, <2>7
  <2>8. CASE pc' = [pc EXCEPT ![r] = "blocked"] /\ pos' = pos
    BY <2>1, <2>3, <2>5, <2>8
  <2>9. CASE pc' = pc /\ pos' = [pos EXCEPT ![r] = pos[r] + 1]
    <3>1. /\ pos' \in [Runner -> Nat]
          /\ pos'[r] \in Nat \ {0}
          /\ \A s \in Runner \ {r} : pos'[s] = pos[s]
      BY <2>9
    <3>2. QED  BY <2>3, <2>5, <2>6, <2>9, <3>1
  <2>10. QED  BY <2>4, <2>7, <2>8, <2>9
<1>4. CASE PgUnblock(r)
  <2>1. Statement(r) \in Object
    BY <1>4, StatementIsObject DEF PgUnblock, Statement
  <2>2. file[r] \in File /\ UNCHANGED <<dialect, schema, tracking, recorded, known, file, faults, cut>>
    BY <1>4 DEF PgUnblock, database
  <2>3. CASE /\ pc' = [pc EXCEPT ![r] = "failed"]
             /\ made' = [made EXCEPT ![r] = {}]
             /\ UNCHANGED pos
    BY <2>2, <2>3
  <2>4. CASE /\ pc' = [pc EXCEPT ![r] = "apply"]
             /\ made' = [made EXCEPT ![r] = @ \cup {Statement(r)}]
             /\ pos' = [pos EXCEPT ![r] = pos[r] + 1]
    <3>1. /\ pos' \in [Runner -> Nat]
          /\ pos'[r] \in Nat \ {0}
          /\ \A s \in Runner \ {r} : pos'[s] = pos[s]
      BY <2>4
    <3>2. made' \in [Runner -> SUBSET Object]
      BY <2>1, <2>4
    <3>3. QED  BY <2>2, <2>4, <3>1, <3>2
  <2>5. QED  BY <1>4, <2>3, <2>4 DEF PgUnblock, Advance
<1>5. CASE PgCommit(r)
  <2>1. Proceed(r, file[r], known[r]) /\ file[r] \in File
    BY <1>5 DEF PgCommit
  <2>2. QED  BY <1>5, <2>1, ProceedType DEF PgCommit
<1>6. CASE MySqlStatement(r)
  <2>1. file[r] \in File /\ pos[r] \in 1 .. Len(Script[file[r]])
    BY <1>6, ObjectsAreObjects DEF MySqlStatement, EndOfFile
  <2>2. Statement(r) \in Object
    BY <2>1, StatementIsObject DEF Statement
  <2>3. QED  BY <1>6, <2>1, <2>2 DEF MySqlStatement, Advance
<1>7. CASE MySqlQueryEnds(r)
  BY <1>7 DEF MySqlQueryEnds, database
<1>8. CASE MySqlRecord(r)
  <2>1. Proceed(r, file[r], known[r]) /\ file[r] \in File
    BY <1>8 DEF MySqlRecord
  <2>2. QED  BY <1>8, <2>1, ProceedType DEF MySqlRecord
<1>9. CASE Restart(r)
  BY <1>9 DEF Restart, database
<1>10. CASE Fault(r)
  BY <1>10, MigrationAssumption DEF Fault, database
<1>11. QED
  BY <1>1, <1>2, <1>3, <1>4, <1>5, <1>6, <1>7, <1>8, <1>9, <1>10 DEF Step

LEMMA MigrationsInvInit ==
  ASSUME MigrationsInit
  PROVE  MigrationsInv
<1> USE DEF MigrationsInit, MigrationsInv, MigrationsTypeOK
<1>1. schema \subseteq Object
  <2> PICK n \in 0 .. Len(Script) : schema = UNION {Objects(f) : f \in 1 .. n}
    BY DEF MigrationsInit
  <2>1. \A f \in 1 .. n : f \in File
    BY MigrationAssumption DEF File
  <2>2. \A f \in 1 .. n : Objects(f) \subseteq Object
    BY <2>1, ObjectsAreObjects
  <2>3. QED  BY ONLY <2>2, schema = UNION {Objects(f) : f \in 1 .. n}
<1>2. 0 \in 0 .. Len(Script) /\ 0 \in 0 .. MaxFaults
  BY MigrationAssumption
<1>3. /\ file \in [Runner -> 0 .. Len(Script)]
      /\ faults \in 0 .. MaxFaults
  BY <1>2
<1>4. AtFile
  <2> SUFFICES ASSUME NEW r \in Runner
               PROVE  /\ pc[r] \notin {"apply", "blocked", "record"}
                      /\ pos[r] \in Nat \ {0}
    BY DEF AtFile
  <2>1. pc[r] = "prepare" /\ pos[r] = 1
    BY DEF MigrationsInit
  <2>2. QED  BY <2>1
<1>5. /\ known \in [Runner -> SUBSET File]
      /\ made \in [Runner -> SUBSET Object]
      /\ pos \in [Runner -> Nat]
      /\ pc \in [Runner -> {"prepare", "list", "apply", "blocked", "record", "done", "failed"}]
  OBVIOUS
<1>6. QED  BY <1>1, <1>3, <1>4, <1>5

(* Type correctness for all scripts, runners and bounds.                   *)
THEOREM MigrationsTypeCorrect == MigrationsSpec => []MigrationsTypeOK
<1>1. MigrationsSpec => []MigrationsInv
  BY MigrationsInvInit, MigrationsInvStep, PTL DEF MigrationsSpec
<1>2. MigrationsInv => MigrationsTypeOK
  BY DEF MigrationsInv
<1>3. QED  BY <1>1, <1>2, PTL

-----------------------------------------------------------------------------
(* PostgreSQL: the statements a runner is past have created what they      *)
(* name, in the database or in its transaction.                            *)
Passed(r) == {i \in 1 .. Len(Script[file[r]]) : i < pos[r]}

PassedIsBuilt ==
  \A r \in Runner :
    /\ pc[r] # "record"
    /\ pc[r] \in {"apply", "blocked"} =>
         \A i \in Passed(r) : Script[file[r]][i] \in schema \cup made[r]

BuiltInv == dialect = "postgresql" =>
              PassedIsBuilt /\ \A f \in recorded : Objects(f) \subseteq schema

(* A runner that proceeds to a file has passed none of its statements.     *)
LEMMA NonePassed ==
  ASSUME MigrationsInv, NEW r \in Runner, pos'[r] = 1
  PROVE  Passed(r)' = {}
BY ObjectsAreObjects DEF Passed

LEMMA ProceedPos ==
  ASSUME MigrationsInv, NEW r \in Runner, NEW f, NEW applied, Proceed(r, f, applied)
  PROVE  pc'[r] = "done" \/ (pc'[r] = "apply" /\ pos'[r] = 1)
BY DEF Proceed, MigrationsInv, MigrationsTypeOK

(* A runner that ends its file has passed all of its statements.           *)
LEMMA AllPassed ==
  ASSUME MigrationsInv, NEW r \in Runner, pc[r] = "apply", EndOfFile(r),
         \A i \in Passed(r) : Script[file[r]][i] \in schema \cup made[r]
  PROVE  Objects(file[r]) \subseteq schema \cup made[r]
<1>1. file[r] \in File /\ pos[r] \in Nat
  BY DEF MigrationsInv, AtFile, MigrationsTypeOK
<1>2. \A i \in 1 .. Len(Script[file[r]]) : i < pos[r]
  BY <1>1, ObjectsAreObjects DEF EndOfFile
<1>3. QED  BY <1>2 DEF Passed, Objects

(* A runner whose file, position and transaction stay keeps what it has    *)
(* built, since nothing is ever dropped.                                   *)
LEMMA OthersKeep ==
  ASSUME MigrationsInv, PassedIsBuilt, NEW s \in Runner,
         pc'[s] = pc[s] \/ pc'[s] \notin {"apply", "blocked", "record"},
         file'[s] = file[s], pos'[s] = pos[s], made'[s] = made[s], schema \subseteq schema'
  PROVE  /\ pc'[s] # "record"
         /\ pc'[s] \in {"apply", "blocked"} =>
              \A i \in Passed(s)' : Script[file'[s]][i] \in schema' \cup made'[s]
BY DEF PassedIsBuilt, Passed

LEMMA BuiltInvStep ==
  ASSUME MigrationsInv, BuiltInv, [MigrationsNext]_migrationsVars
  PROVE  BuiltInv'
<1> SUFFICES ASSUME dialect = "postgresql", dialect' = "postgresql",
                    NEW r \in Runner, Step(r) \/ Fault(r)
             PROVE  (PassedIsBuilt /\ \A f \in recorded : Objects(f) \subseteq schema)'
  <2>1. CASE UNCHANGED migrationsVars
    BY <2>1 DEF BuiltInv, PassedIsBuilt, Passed, migrationsVars, place, database
  <2>2. ASSUME NEW r \in Runner, Step(r) \/ Fault(r) PROVE dialect' = dialect
    BY <2>2 DEF Step, Fault, Prepare, List, PgStatement, PgUnblock, PgCommit,
                MySqlStatement, MySqlQueryEnds, MySqlRecord, Restart
  <2>3. QED  BY <2>1, <2>2 DEF MigrationsNext, BuiltInv
<1> USE DEF MigrationsInv, MigrationsTypeOK
<1>a. PassedIsBuilt /\ \A f \in recorded : Objects(f) \subseteq schema
  BY DEF BuiltInv
(* It is enough to look at r, if the others keep their place and nothing   *)
(* is dropped.                                                             *)
<1>b. ASSUME \A s \in Runner \ {r} :
               /\ pc'[s] = pc[s] \/ pc'[s] \notin {"apply", "blocked", "record"}
               /\ file'[s] = file[s] /\ pos'[s] = pos[s] /\ made'[s] = made[s],
             schema \subseteq schema',
             /\ pc'[r] # "record"
             /\ pc'[r] \in {"apply", "blocked"} =>
                  \A i \in Passed(r)' : Script[file'[r]][i] \in schema' \cup made'[r]
      PROVE  PassedIsBuilt'
  <2>1. ASSUME NEW s \in Runner
        PROVE  /\ pc'[s] # "record"
               /\ pc'[s] \in {"apply", "blocked"} =>
                    \A i \in Passed(s)' : Script[file'[s]][i] \in schema' \cup made'[s]
    BY <1>a, <1>b, OthersKeep
  <2>2. QED  BY <2>1 DEF PassedIsBuilt
<1>1. CASE Prepare(r)
  <2>1. /\ \A s \in Runner : pc'[s] = pc[s] \/ pc'[s] \notin {"apply", "blocked", "record"}
        /\ UNCHANGED <<schema, recorded, file, pos, made>>
    BY <1>1 DEF Prepare
  <2>2. pc'[r] \notin {"apply", "blocked", "record"}
    BY <1>1 DEF Prepare
  <2>3. QED  BY <1>a, <1>b, <2>1, <2>2
<1>2. CASE List(r)
  <2>1. Proceed(r, 0, recorded) /\ UNCHANGED <<schema, recorded, made>>
    BY <1>2 DEF List, database
  <2>2. \A s \in Runner \ {r} : pc'[s] = pc[s] /\ file'[s] = file[s] /\ pos'[s] = pos[s]
    BY <2>1, ProceedType
  <2>3. pc'[r] = "done" \/ (pc'[r] = "apply" /\ Passed(r)' = {})
    BY <2>1, ProceedPos, NonePassed
  <2>4. QED  BY <1>a, <1>b, <2>1, <2>2, <2>3
<1>3. CASE PgStatement(r)
  <2>1. UNCHANGED <<schema, recorded, file>> /\ pc[r] = "apply"
    BY <1>3 DEF PgStatement, database
  <2>2. \/ UNCHANGED <<pos, made>> /\ pc' = [pc EXCEPT ![r] = "blocked"]
        \/ /\ pos' = [pos EXCEPT ![r] = pos[r] + 1] /\ UNCHANGED pc
           /\ made' = made \/ made' = [made EXCEPT ![r] = made[r] \cup {Statement(r)}]
           /\ Statement(r) \in schema \cup made'[r]
    BY <1>3 DEF PgStatement, Advance
  <2>3. CASE UNCHANGED <<pos, made>> /\ pc' = [pc EXCEPT ![r] = "blocked"]
    <3>1. Passed(r)' = Passed(r)
      BY <2>1, <2>3 DEF Passed
    <3>2. QED  BY <1>a, <1>b, <2>1, <2>3, <3>1 DEF PassedIsBuilt
  <2>4. CASE /\ pos' = [pos EXCEPT ![r] = pos[r] + 1] /\ UNCHANGED pc
             /\ made' = made \/ made' = [made EXCEPT ![r] = made[r] \cup {Statement(r)}]
             /\ Statement(r) \in schema \cup made'[r]
    <3>1. \A i \in Passed(r)' : i \in Passed(r) \/ i = pos[r]
      BY <2>1, <2>4, ObjectsAreObjects DEF Passed, AtFile
    <3>2. made[r] \subseteq made'[r]
      BY <2>4
    <3>3. \A i \in Passed(r)' : Script[file'[r]][i] \in schema' \cup made'[r]
      BY <1>a, <2>1, <2>4, <3>1, <3>2 DEF PassedIsBuilt, Statement
    <3>4. QED  BY <1>a, <1>b, <2>1, <2>4, <3>3
  <2>5. QED  BY <2>2, <2>3, <2>4
<1>4. CASE PgUnblock(r)
  <2>1. UNCHANGED <<schema, recorded, file>> /\ pc[r] = "blocked"
    BY <1>4 DEF PgUnblock, database
  <2>2. CASE /\ pc' = [pc EXCEPT ![r] = "failed"]
             /\ made' = [made EXCEPT ![r] = {}]
             /\ UNCHANGED pos
    BY <1>a, <1>b, <2>1, <2>2
  <2>3. CASE /\ pc' = [pc EXCEPT ![r] = "apply"]
             /\ made' = [made EXCEPT ![r] = made[r] \cup {Statement(r)}]
             /\ pos' = [pos EXCEPT ![r] = pos[r] + 1]
    <3>1. \A i \in Passed(r)' : i \in Passed(r) \/ i = pos[r]
      BY <2>1, <2>3, ObjectsAreObjects DEF Passed, AtFile
    <3>2. made'[r] = made[r] \cup {Statement(r)}
      BY <2>3
    <3>3. \A i \in Passed(r)' : Script[file'[r]][i] \in schema' \cup made'[r]
      BY <1>a, <2>1, <2>3, <3>1, <3>2 DEF PassedIsBuilt, Statement
    <3>4. QED  BY <1>a, <1>b, <2>1, <2>3, <3>3
  <2>4. QED  BY <1>4, <2>2, <2>3 DEF PgUnblock, Advance
<1>5. CASE PgCommit(r)
  <2>1. /\ Proceed(r, file[r], known[r])
        /\ pc[r] = "apply" /\ EndOfFile(r)
        /\ schema' = schema \cup made[r]
        /\ recorded' = recorded \cup {file[r]}
        /\ made' = [made EXCEPT ![r] = {}]
    BY <1>5 DEF PgCommit
  <2>2. \A s \in Runner \ {r} : pc'[s] = pc[s] /\ file'[s] = file[s] /\ pos'[s] = pos[s]
    BY <2>1, ProceedType
  <2>3. pc'[r] = "done" \/ (pc'[r] = "apply" /\ Passed(r)' = {})
    BY <2>1, ProceedPos, NonePassed
  <2>4. PassedIsBuilt'
    BY <1>b, <2>1, <2>2, <2>3
  <2>5. Objects(file[r]) \subseteq schema'
    BY <1>a, <2>1, AllPassed DEF PassedIsBuilt
  <2>6. QED  BY <1>a, <2>1, <2>4, <2>5
<1>6. CASE MySqlStatement(r) \/ MySqlQueryEnds(r) \/ MySqlRecord(r)
  BY <1>a, <1>6 DEF MySqlStatement, MySqlQueryEnds, MySqlRecord, PassedIsBuilt
<1>7. CASE Restart(r) \/ Fault(r)
  <2>1. /\ \A s \in Runner \ {r} : pc'[s] = pc[s] /\ made'[s] = made[s]
        /\ pc'[r] \notin {"apply", "blocked", "record"}
        /\ UNCHANGED <<schema, recorded, file, pos>>
    BY <1>7 DEF Restart, Fault, database
  <2>2. QED  BY <1>a, <1>b, <2>1
<1>8. QED
  BY <1>1, <1>2, <1>3, <1>4, <1>5, <1>6, <1>7 DEF Step

(* On PostgreSQL a recorded file is built, for all scripts and runners.    *)
THEOREM RecordedFilesAreBuilt == MigrationsSpec => []RecordedIsBuilt
<1>1. MigrationsInit => MigrationsInv /\ BuiltInv
  <2> SUFFICES ASSUME MigrationsInit PROVE MigrationsInv /\ BuiltInv
    OBVIOUS
  <2>1. \A r \in Runner : pc[r] = "prepare"
    BY DEF MigrationsInit
  <2>2. PassedIsBuilt
    BY <2>1 DEF PassedIsBuilt
  <2>3. QED  BY <2>2, MigrationsInvInit DEF BuiltInv, MigrationsInit
<1>2. MigrationsInv /\ BuiltInv /\ [MigrationsNext]_migrationsVars => (MigrationsInv /\ BuiltInv)'
  BY MigrationsInvStep, BuiltInvStep
<1>3. BuiltInv => RecordedIsBuilt
  BY DEF BuiltInv, RecordedIsBuilt
<1>4. QED  BY <1>1, <1>2, <1>3, PTL DEF MigrationsSpec

-----------------------------------------------------------------------------
(* A runner knows only recorded files, and has left no file before its own *)
(* unrecorded.                                                             *)
BeforeIsRecorded(r) == \A g \in File : g < file[r] => g \in recorded

OrderInv ==
  /\ RecordedInOrder
  /\ \A r \in Runner :
       /\ known[r] \subseteq recorded
       /\ pc[r] \in {"apply", "blocked", "record"} => BeforeIsRecorded(r)

LEMMA ProceedInOrder ==
  ASSUME MigrationsInv, NEW r \in Runner, NEW f \in 0 .. Len(Script), NEW applied,
         Proceed(r, f, applied), applied \subseteq recorded',
         \A g \in File : g <= f => g \in recorded'
  PROVE  pc'[r] = "apply" => \A g \in File : g < file'[r] => g \in recorded'
<1> USE DEF MigrationsInv, MigrationsTypeOK
<1>1. CASE pc' = [pc EXCEPT ![r] = "done"]
  BY <1>1
<1>2. ASSUME NEW g \in File, g > f,
             \A h \in {h \in File : h > f /\ h \notin applied} : g <= h,
             file' = [file EXCEPT ![r] = g]
      PROVE  \A h \in File : h < file'[r] => h \in recorded'
  <2>1. file'[r] = g
    BY <1>2
  <2>2. QED  BY <1>2, <2>1, MigrationAssumption DEF File
<1>3. QED  BY <1>1, <1>2 DEF Proceed

LEMMA OrderInvStep ==
  ASSUME MigrationsInv, OrderInv, [MigrationsNext]_migrationsVars
  PROVE  OrderInv'
<1> USE DEF MigrationsInv, MigrationsTypeOK
<1>u. CASE UNCHANGED migrationsVars
  BY <1>u DEF OrderInv, RecordedInOrder, BeforeIsRecorded, migrationsVars, place, database
<1> SUFFICES ASSUME NEW r \in Runner, Step(r) \/ Fault(r)
             PROVE  OrderInv'
  BY <1>u DEF MigrationsNext
(* What keeps the order as long as nothing is recorded and r stays where   *)
(* it is, or stops.                                                        *)
<1>a. ASSUME UNCHANGED <<recorded, known, file>>,
             \A s \in Runner : \/ pc'[s] \notin {"apply", "blocked", "record"}
                               \/ pc[s] \in {"apply", "blocked", "record"}
      PROVE  OrderInv'
  BY <1>a DEF OrderInv, RecordedInOrder, BeforeIsRecorded
<1>b. ASSUME recorded \subseteq recorded', RecordedInOrder',
             \A s \in Runner \ {r} : pc'[s] = pc[s] /\ file'[s] = file[s] /\ known'[s] = known[s],
             known'[r] \subseteq recorded', pc'[r] \in {"apply", "done"},
             pc'[r] = "apply" => \A g \in File : g < file'[r] => g \in recorded'
      PROVE  OrderInv'
  <2>1. ASSUME NEW s \in Runner
        PROVE  /\ known'[s] \subseteq recorded'
               /\ pc'[s] \in {"apply", "blocked", "record"} =>
                    \A g \in File : g < file'[s] => g \in recorded'
    BY <1>b DEF OrderInv, BeforeIsRecorded
  <2>2. QED  BY <1>b, <2>1 DEF OrderInv, BeforeIsRecorded
<1>1. CASE \/ Prepare(r) \/ PgStatement(r) \/ PgUnblock(r) \/ MySqlStatement(r)
           \/ MySqlQueryEnds(r) \/ Restart(r) \/ Fault(r)
  <2>1. UNCHANGED <<recorded, known, file>>
    BY <1>1 DEF Prepare, PgStatement, PgUnblock, MySqlStatement, MySqlQueryEnds,
                Restart, Fault, database
  <2>2. \A s \in Runner : \/ pc'[s] \notin {"apply", "blocked", "record"}
                          \/ pc[s] \in {"apply", "blocked", "record"}
    BY <1>1 DEF Prepare, PgStatement, PgUnblock, MySqlStatement, MySqlQueryEnds,
                Restart, Fault
  <2>3. QED  BY <1>a, <2>1, <2>2
<1>2. CASE List(r)
  <2>1. /\ Proceed(r, 0, recorded) /\ recorded' = recorded
        /\ known' = [known EXCEPT ![r] = recorded]
    BY <1>2 DEF List, database
  <2>2. \A g \in File : g <= 0 => g \in recorded'
    BY MigrationAssumption DEF File
  <2>3. 0 \in 0 .. Len(Script)
    BY MigrationAssumption
  <2>4. pc'[r] = "apply" => \A g \in File : g < file'[r] => g \in recorded'
    BY <2>1, <2>2, <2>3, ProceedInOrder
  <2>5. RecordedInOrder'
    BY <2>1 DEF OrderInv, RecordedInOrder
  <2>6. QED  BY <1>b, <2>1, <2>4, <2>5, ProceedType
<1>3. CASE PgCommit(r) \/ MySqlRecord(r)
  <2>1. /\ Proceed(r, file[r], known[r])
        /\ pc[r] \in {"apply", "record"}
        /\ recorded' = recorded \cup {file[r]}
        /\ known' = known
    BY <1>3 DEF PgCommit, MySqlRecord
  <2>2. file[r] \in File /\ file[r] \in 0 .. Len(Script)
    BY <2>1 DEF AtFile
  <2>3. \A g \in File : g <= file[r] => g \in recorded'
    BY <2>1, <2>2, MigrationAssumption DEF OrderInv, BeforeIsRecorded, File
  <2>4. known[r] \subseteq recorded'
    BY <2>1 DEF OrderInv
  <2>5. pc'[r] = "apply" => \A g \in File : g < file'[r] => g \in recorded'
    BY <2>1, <2>2, <2>3, <2>4, ProceedInOrder
  <2>6. RecordedInOrder'
    <3>1. 1 .. file[r] \subseteq recorded'
      BY <2>2, <2>3, MigrationAssumption DEF File
    <3>2. QED  BY <2>1, <3>1 DEF OrderInv, RecordedInOrder
  <2>7. QED  BY <1>b, <2>1, <2>4, <2>5, <2>6, ProceedType
<1>4. QED  BY <1>1, <1>2, <1>3 DEF Step

(* On both databases files are recorded in the order of their names.       *)
THEOREM FilesAreRecordedInOrder == MigrationsSpec => []RecordedInOrder
<1>1. MigrationsInit => MigrationsInv /\ OrderInv
  BY MigrationsInvInit DEF MigrationsInit, OrderInv, RecordedInOrder
<1>2. MigrationsInv /\ OrderInv /\ [MigrationsNext]_migrationsVars => (MigrationsInv /\ OrderInv)'
  BY MigrationsInvStep, OrderInvStep
<1>3. OrderInv => RecordedInOrder
  BY DEF OrderInv
<1>4. QED  BY <1>1, <1>2, <1>3, PTL DEF MigrationsSpec

-----------------------------------------------------------------------------
(* MySQL: which indexes of a file exist, and who creates the rest.         *)
Indexes(f) == {i \in 1 .. Len(Script[f]) : Script[f][i] \notin IfNotExists}
Built(f) == Objects(f) \subseteq schema
Begun(f) == \E i \in Indexes(f) : Script[f][i] \in schema

(* The run that creates the indexes of f: only it can pass the first one   *)
(* that exists, all others end with ER_DUP_KEYNAME there.                  *)
Leads(r, f) ==
  /\ pc[r] = "apply" /\ file[r] = f
  /\ \A i \in Indexes(f) : Script[f][i] \in schema => i < pos[r]

PassedIsThere ==
  \A r \in Runner :
    /\ pc[r] # "blocked"
    /\ pc[r] = "apply" => \A i \in Passed(r) : Script[file[r]][i] \in schema

BegunIsLed ==
  \A f \in File : Begun(f) => Built(f) \/ f \in cut \/ \E r \in Runner : Leads(r, f)

(* A file that is recorded, or about to be, has been ended by its last     *)
(* statement or by an index that exists.                                   *)
EndedIsBegun ==
  /\ \A f \in recorded : Built(f) \/ Begun(f)
  /\ \A r \in Runner : pc[r] = "record" => Built(file[r]) \/ Begun(file[r])

MySqlInv == PassedIsThere /\ BegunIsLed /\ EndedIsBegun

LEMMA MySqlInit == ASSUME MigrationsInit PROVE MySqlInv
<1>1. \A r \in Runner : pc[r] = "prepare"
  BY DEF MigrationsInit
<1>2. PassedIsThere /\ EndedIsBegun
  BY <1>1 DEF MigrationsInit, PassedIsThere, EndedIsBegun
<1>3. PICK n \in 0 .. Len(Script) : schema = UNION {Objects(f) : f \in 1 .. n}
  BY DEF MigrationsInit
<1>4. \A f \in File : f <= n => Built(f)
  BY <1>3, MigrationAssumption DEF File, Built
<1>5. ASSUME NEW f \in File, Begun(f)
      PROVE  f <= n
  <2>1. PICK i \in Indexes(f) : Script[f][i] \in schema
    BY <1>5 DEF Begun
  <2>2. PICK g \in 1 .. n : Script[f][i] \in Objects(g)
    BY <1>3, <2>1
  <2>3. g \in 1 .. Len(Script) /\ f \in 1 .. Len(Script)
    BY MigrationAssumption DEF File
  <2>4. PICK j \in 1 .. Len(Script[g]) : Script[g][j] = Script[f][i]
    BY <2>2 DEF Objects
  <2>5. f = g
    BY <2>3, <2>4, IndexesOnce DEF Indexes
  <2>. QED
    BY <2>5
<1>6. BegunIsLed
  BY <1>4, <1>5 DEF BegunIsLed
<1>. QED
  BY <1>2, <1>6 DEF MySqlInv

(* Nothing is created, and no run ends its query, is cut short, or leaves  *)
(* a file that it is applying.                                             *)
LEMMA MySqlWaits ==
  ASSUME MigrationsInv, MySqlInv, NEW r \in Runner, UNCHANGED <<schema, recorded>>,
         pc[r] # "apply", pc'[r] # "record", pc'[r] # "blocked",
         pc'[r] = "apply" => pos'[r] = 1,
         \A s \in Runner \ {r} :
           /\ file'[s] = file[s] /\ pos'[s] = pos[s]
           /\ pc'[s] = pc[s] \/ (pc[s] = "prepare" /\ pc'[s] = "failed"),
         cut' = cut
  PROVE  MySqlInv'
<1>1. PassedIsThere'
  <2>1. pc'[r] = "apply" => Passed(r)' = {}
    BY NonePassed
  <2>2. ASSUME NEW s \in Runner \ {r}, pc'[s] = "apply"
        PROVE  Passed(s)' = Passed(s) /\ pc[s] = "apply"
    BY <2>2 DEF Passed
  <2>. QED
    BY <2>1, <2>2 DEF MySqlInv, PassedIsThere
<1>2. \A f : (Built(f)' <=> Built(f)) /\ (Begun(f)' <=> Begun(f))
  BY DEF Built, Begun
<1>3. EndedIsBegun'
  BY <1>2 DEF MySqlInv, EndedIsBegun
<1>4. \A f \in File, s \in Runner : Leads(s, f) => Leads(s, f)'
  BY DEF Leads
<1>5. BegunIsLed'
  BY <1>2, <1>4 DEF MySqlInv, BegunIsLed
<1>. QED
  BY <1>1, <1>3, <1>5 DEF MySqlInv

(* A run of a file that creates its next object.                           *)
LEMMA MySqlCreates ==
  ASSUME MigrationsInv, MySqlInv, NEW r \in Runner, MySqlStatement(r)
  PROVE  MySqlInv'
<1>. USE DEF MigrationsInv, MigrationsTypeOK, MySqlInv
<1>1. /\ pc[r] = "apply" /\ file[r] \in File /\ pos[r] \in 1 .. Len(Script[file[r]])
      /\ UNCHANGED <<recorded, pc, file, cut>>
      /\ schema' = schema \cup {Statement(r)}
      /\ Statement(r) \in schema => Statement(r) \in IfNotExists
      /\ pos' = [pos EXCEPT ![r] = pos[r] + 1]
  BY ObjectsAreObjects DEF MySqlStatement, EndOfFile, Advance, AtFile
<1>2. pos'[r] = pos[r] + 1 /\ \A s \in Runner \ {r} : pos'[s] = pos[s]
  BY <1>1
<1>3. schema \subseteq schema' /\ Script[file[r]][pos[r]] = Statement(r)
  BY <1>1 DEF Statement
<1>4. PassedIsThere'
  <2>1. \A i \in Passed(r)' : i \in Passed(r) \/ i = pos[r]
    BY <1>1, <1>2, ObjectsAreObjects DEF Passed
  <2>2. \A i \in Passed(r)' : Script[file'[r]][i] \in schema'
    BY <1>1, <1>3, <2>1 DEF PassedIsThere
  <2>3. ASSUME NEW s \in Runner \ {r}, pc'[s] = "apply"
        PROVE  \A i \in Passed(s)' : Script[file'[s]][i] \in schema'
    BY <1>1, <1>2, <1>3, <2>3 DEF PassedIsThere, Passed
  <2>. QED
    BY <1>1, <2>2, <2>3 DEF PassedIsThere
<1>5. \A f : (Built(f) => Built(f)') /\ (Begun(f) => Begun(f)')
  BY <1>3 DEF Built, Begun
<1>6. EndedIsBegun'
  BY <1>1, <1>5 DEF EndedIsBegun
<1>7. ASSUME NEW f \in File, Begun(f)'
      PROVE  Built(f)' \/ f \in cut' \/ \E s \in Runner : Leads(s, f)'
  <2>1. CASE \A i \in Indexes(f) : Script[f][i] \in schema' => Script[f][i] \in schema
    <3>1. Begun(f)
      BY <1>7, <2>1 DEF Begun
    <3>2. \A s \in Runner : Leads(s, f) => Leads(s, f)'
      <4>1. ASSUME NEW s \in Runner, Leads(s, f)
            PROVE  Leads(s, f)'
        <5>1. \A i \in Indexes(f) : Script[f][i] \in schema' => i < pos[s]
          BY <2>1, <4>1 DEF Leads
        <5>2. pos[s] \in Nat /\ pos'[s] \in {pos[s], pos[s] + 1}
          BY <1>2
        <5>3. \A i \in Indexes(f) : i \in Nat
          BY ObjectsAreObjects DEF Indexes
        <5>4. \A i \in Indexes(f) : Script[f][i] \in schema' => i < pos'[s]
          BY <5>1, <5>2, <5>3
        <5>. QED
          BY <1>1, <4>1, <5>4 DEF Leads
      <4>. QED
        BY <4>1
    <3>. QED
      BY <1>1, <1>5, <3>1, <3>2 DEF BegunIsLed
  <2>2. CASE ~\A i \in Indexes(f) : Script[f][i] \in schema' => Script[f][i] \in schema
    <3>1. PICK k \in Indexes(f) : Script[f][k] = Statement(r) /\ Statement(r) \notin schema
      BY <1>1, <2>2
    <3>2. f = file[r] /\ k = pos[r]
      BY <1>1, <1>3, <3>1, IndexesOnce DEF Indexes, File
    <3>3. ASSUME NEW i \in Indexes(f), Script[f][i] \in schema', i # k
          PROVE  i < pos[r] \/ f \in cut
      <4>1. Script[f][i] \in schema
        <5>1. Script[f][i] # Script[f][k]
          BY <3>3, IndexesOnce DEF Indexes, File
        <5>. QED
          BY <1>1, <3>1, <3>3, <5>1
      <4>2. ~Built(f)
        BY <1>1, <3>1, <3>2 DEF Built, Objects, Statement
      <4>3. f \in cut \/ \E s \in Runner : Leads(s, f)
        BY <4>1, <4>2 DEF Begun, BegunIsLed
      <4>4. ASSUME NEW s \in Runner, Leads(s, f)
            PROVE  i < pos[r]
        <5>1. i < pos[s] /\ pc[s] = "apply" /\ file[s] = f
          BY <4>1, <4>4 DEF Leads
        <5>2. ~(pos[r] < pos[s])
          BY <1>1, <1>3, <3>1, <3>2, <5>1 DEF PassedIsThere, Passed
        <5>3. i \in Nat /\ pos[r] \in Nat /\ pos[s] \in Nat
          BY ObjectsAreObjects DEF Indexes
        <5>. QED
          BY <5>1, <5>2, <5>3
      <4>. QED
        BY <4>3, <4>4
    <3>4. CASE f \in cut
      BY <1>1, <3>4
    <3>5. CASE f \notin cut
      <4>1. \A i \in Indexes(f) : Script[f][i] \in schema' => i < pos[r] + 1
        <5>1. \A i \in Indexes(f) : i \in Nat
          BY ObjectsAreObjects DEF Indexes
        <5>2. pos[r] \in Nat
          OBVIOUS
        <5>. QED
          BY <3>2, <3>3, <3>5, <5>1, <5>2
      <4>. QED
        BY <1>1, <1>2, <3>2, <4>1 DEF Leads
    <3>. QED
      BY <3>4, <3>5
  <2>. QED
    BY <2>1, <2>2
<1>. QED
  BY <1>4, <1>6, <1>7 DEF BegunIsLed

(* A run that leaves the file it was applying: the file is built, or cut   *)
(* short, or has an index that the run was stopped by, which is another's. *)
LEMMA MySqlLeaves ==
  ASSUME MigrationsInv, MySqlInv, NEW r \in Runner, pc[r] = "apply",
         UNCHANGED <<schema, recorded, file, pos>>, cut \subseteq cut',
         \A s \in Runner \ {r} : pc'[s] = pc[s],
         pc'[r] \in {"record", "failed"},
         pc'[r] = "record" => Built(file[r]) \/ Begun(file[r]),
         Leads(r, file[r]) /\ Begun(file[r]) => Built(file[r]) \/ file[r] \in cut'
  PROVE  MySqlInv'
<1>. USE DEF MigrationsInv, MigrationsTypeOK, MySqlInv
<1>1. PassedIsThere'
  BY DEF PassedIsThere, Passed
<1>2. \A f : (Built(f)' <=> Built(f)) /\ (Begun(f)' <=> Begun(f))
  BY DEF Built, Begun
<1>3. EndedIsBegun'
  BY <1>2 DEF EndedIsBegun
<1>4. ASSUME NEW f \in File, Begun(f)
      PROVE  Built(f) \/ f \in cut' \/ \E s \in Runner : Leads(s, f)'
  <2>1. Built(f) \/ f \in cut \/ \E s \in Runner : Leads(s, f)
    BY <1>4 DEF BegunIsLed
  <2>2. ASSUME NEW s \in Runner \ {r}, Leads(s, f)
        PROVE  Leads(s, f)'
    BY <2>2 DEF Leads
  <2>3. Leads(r, f) => f = file[r]
    BY DEF Leads
  <2>. QED
    BY <1>4, <2>1, <2>2, <2>3
<1>5. BegunIsLed'
  BY <1>2, <1>4 DEF BegunIsLed
<1>. QED
  BY <1>1, <1>3, <1>5

LEMMA MySqlInvStep ==
  ASSUME MigrationsInv, dialect = "mysql", MySqlInv, [MigrationsNext]_migrationsVars
  PROVE  MySqlInv'
<1>. USE DEF MigrationsInv, MigrationsTypeOK
<1>1. CASE UNCHANGED migrationsVars
  BY <1>1 DEF MySqlInv, PassedIsThere, Passed, BegunIsLed, EndedIsBegun, Built, Begun, Leads,
     migrationsVars, place, database
<1>. SUFFICES ASSUME NEW r \in Runner, Step(r) \/ Fault(r) PROVE MySqlInv'
  BY <1>1 DEF MigrationsNext
<1>2. CASE Prepare(r)
  <2>1. UNCHANGED <<schema, recorded, file, pos, cut>> /\ pc[r] = "prepare" /\ pc'[r] = "list"
        /\ \A s \in Runner \ {r} : pc'[s] = pc[s] \/ (pc[s] = "prepare" /\ pc'[s] = "failed")
    BY <1>2 DEF Prepare
  <2>. QED
    BY <2>1, MySqlWaits
<1>3. CASE List(r)
  <2>1. Proceed(r, 0, recorded) /\ UNCHANGED <<schema, recorded, cut>> /\ pc[r] = "list"
    BY <1>3 DEF List, database
  <2>2. \A s \in Runner \ {r} : pc'[s] = pc[s] /\ file'[s] = file[s] /\ pos'[s] = pos[s]
    BY <2>1, ProceedType
  <2>3. pc'[r] = "done" \/ (pc'[r] = "apply" /\ pos'[r] = 1)
    BY <2>1, ProceedPos
  <2>. QED
    BY <2>1, <2>2, <2>3, MySqlWaits
<1>4. ~PgStatement(r) /\ ~PgUnblock(r) /\ ~PgCommit(r)
  BY DEF PgStatement, PgUnblock, PgCommit, MySqlInv, PassedIsThere
<1>5. CASE MySqlQueryEnds(r)
  <2>1. /\ pc[r] = "apply" /\ pc' = [pc EXCEPT ![r] = "record"]
        /\ UNCHANGED <<schema, recorded, file, pos, cut>>
        /\ EndOfFile(r) \/ Statement(r) \in schema \ IfNotExists
    BY <1>5 DEF MySqlQueryEnds, database
  <2>2. file[r] \in File /\ pos[r] \in Nat \ {0}
    BY <2>1 DEF AtFile
  <2>3. CASE EndOfFile(r)
    <3>1. Built(file[r])
      <4>1. \A i \in 1 .. Len(Script[file[r]]) : i < pos[r]
        BY <2>2, <2>3, ObjectsAreObjects DEF EndOfFile
      <4>. QED
        BY <2>1, <4>1 DEF MySqlInv, PassedIsThere, Passed, Built, Objects
    <3>. QED
      BY <2>1, <3>1, MySqlLeaves
  <2>4. CASE ~EndOfFile(r)
    <3>1. pos[r] \in Indexes(file[r]) /\ Script[file[r]][pos[r]] \in schema
      BY <2>1, <2>2, <2>4, ObjectsAreObjects DEF EndOfFile, Indexes, Statement
    <3>2. Begun(file[r]) /\ ~Leads(r, file[r])
      BY <2>2, <3>1 DEF Begun, Leads
    <3>. QED
      BY <2>1, <3>2, MySqlLeaves
  <2>. QED
    BY <2>3, <2>4
<1>6. CASE MySqlRecord(r)
  <2>1. /\ Proceed(r, file[r], known[r]) /\ pc[r] = "record"
        /\ recorded' = recorded \cup {file[r]} /\ UNCHANGED <<schema, cut>>
    BY <1>6 DEF MySqlRecord
  <2>2. \A s \in Runner \ {r} : pc'[s] = pc[s] /\ file'[s] = file[s] /\ pos'[s] = pos[s]
    BY <2>1, ProceedType
  <2>3. pc'[r] = "done" \/ (pc'[r] = "apply" /\ Passed(r)' = {})
    BY <2>1, ProceedPos, NonePassed
  <2>4. \A f : (Built(f)' <=> Built(f)) /\ (Begun(f)' <=> Begun(f))
    BY <2>1 DEF Built, Begun
  <2>5. EndedIsBegun'
    BY <2>1, <2>2, <2>3, <2>4 DEF MySqlInv, EndedIsBegun
  <2>6. PassedIsThere'
    BY <2>1, <2>2, <2>3 DEF MySqlInv, PassedIsThere, Passed
  <2>7. \A s \in Runner, f \in File : Leads(s, f) => Leads(s, f)'
    BY <2>1, <2>2 DEF Leads
  <2>8. BegunIsLed'
    BY <2>1, <2>4, <2>7 DEF MySqlInv, BegunIsLed
  <2>. QED
    BY <2>5, <2>6, <2>8 DEF MySqlInv
<1>7. CASE Restart(r) \/ (Fault(r) /\ pc[r] # "apply")
  <2>1. UNCHANGED <<schema, recorded, file, pos, cut>> /\ pc[r] # "apply"
        /\ pc'[r] \in {"prepare", "failed"} /\ \A s \in Runner \ {r} : pc'[s] = pc[s]
    BY <1>7 DEF Restart, Fault, database
  <2>. QED
    BY <2>1, MySqlWaits
<1>8. CASE Fault(r) /\ pc[r] = "apply"
  <2>1. UNCHANGED <<schema, recorded, file, pos>>
        /\ pc'[r] = "failed" /\ (\A s \in Runner \ {r} : pc'[s] = pc[s])
        /\ cut \subseteq cut' /\ (pos[r] > 1 => file[r] \in cut')
    BY <1>8 DEF Fault, database
  <2>2. ASSUME Leads(r, file[r]), Begun(file[r])
        PROVE  file[r] \in cut'
    <3>1. PICK i \in Indexes(file[r]) : i < pos[r]
      BY <2>2 DEF Leads, Begun
    <3>2. i \in Nat \ {0} /\ pos[r] \in Nat
      BY <1>8, ObjectsAreObjects DEF Indexes, AtFile
    <3>. QED
      BY <2>1, <3>1, <3>2
  <2>. QED
    BY <1>8, <2>1, <2>2, MySqlLeaves
<1>. QED
  BY <1>2, <1>3, <1>4, <1>5, <1>6, <1>7, <1>8, MySqlCreates DEF Step

(* On both databases, for all scripts and runners, a recorded file lacks   *)
(* something only while the run that creates it goes on, or because a      *)
(* fault has cut that run short.                                           *)
THEOREM FilesAreCompleted == MigrationsSpec => []IncompleteOnlyIfCut
<1> DEFINE Inv == MigrationsInv /\ BuiltInv /\ (dialect = "mysql" => MySqlInv)
<1>1. MigrationsInit => Inv
  <2>. SUFFICES ASSUME MigrationsInit PROVE Inv
    OBVIOUS
  <2>1. BuiltInv
    BY DEF MigrationsInit, BuiltInv, PassedIsBuilt
  <2>. QED
    BY <2>1, MigrationsInvInit, MySqlInit
<1>2. Inv /\ [MigrationsNext]_migrationsVars => Inv'
  <2>. SUFFICES ASSUME Inv, [MigrationsNext]_migrationsVars PROVE Inv'
    OBVIOUS
  <2>1. dialect' = dialect
    BY DEF MigrationsNext, Step, Fault, Prepare, List, PgStatement, PgUnblock, PgCommit,
           MySqlStatement, MySqlQueryEnds, MySqlRecord, Restart, migrationsVars
  <2>. QED
    BY <2>1, MigrationsInvStep, BuiltInvStep, MySqlInvStep
<1>3. Inv => IncompleteOnlyIfCut
  <2>. SUFFICES ASSUME Inv, NEW f \in recorded
                PROVE  \/ Objects(f) \subseteq schema
                       \/ f \in cut
                       \/ \E r \in Runner : pc[r] = "apply" /\ file[r] = f
    BY DEF IncompleteOnlyIfCut
  <2>1. f \in File /\ dialect \in {"postgresql", "mysql"}
    BY DEF MigrationsInv, MigrationsTypeOK
  <2>2. CASE dialect = "postgresql"
    BY <2>2 DEF BuiltInv
  <2>3. CASE dialect = "mysql"
    BY <2>1, <2>3 DEF MySqlInv, EndedIsBegun, BegunIsLed, Built, Leads
  <2>. QED
    BY <2>1, <2>2, <2>3
<1>4. MigrationsSpec => []Inv
  <2> HIDE DEF Inv
  <2>. QED
    BY <1>1, <1>2, PTL DEF MigrationsSpec
<1>. QED
  BY <1>3, <1>4, PTL

=============================================================================
