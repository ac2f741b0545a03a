---------------------------- MODULE NotebookProofs ----------------------------
(***************************************************************************)
(* The migrations of notebooks.db, for any number of processes that open   *)
(* it and die as they please: no file claims a schema it does not have,    *)
(* and no migration costs a notebook.  That a file has what its version    *)
(* promises is not inductive: a process counts on what its own earlier     *)
(* statements made, which another's rollback must not take away.           *)
(*                                                                         *)
(* Then the open tables of notebooks, for any number of notebooks, lookups *)
(* and slots: no handle is older than an ingest that was announced.        *)
(***************************************************************************)
EXTENDS NotebookMigrations, NotebookTables, SequenceLemmas

-------------------------------------------------------------------------------
(* What each process counts on. *)

Files == [version : 0..SCHEMA_VERSION, schema : SUBSET Schema[SCHEMA_VERSION],
          rows : BOOLEAN]

\* A process stands at a statement of the ladder or at its end, and is in a
\* transaction from the statement after BEGIN to COMMIT.
OpenerTyped(w) ==
    /\ w \in [st : {"closed", "migrating", "serving", "refused"},
              rung : 1..(SCHEMA_VERSION + 1), at : Nat, txn : BOOLEAN]
    /\ w.rung \in Rungs => w.at \in DOMAIN Ladder[w.rung]
    /\ w.st = "migrating" => (w.txn <=> w.rung \in {5, 6} /\ w.at > 1)

\* What a process that has come to statement i of rung r has seen to.
Counted(r, i) == (UNION {Made(q) : q \in 1..(r - 1)}) \cup
                 (IF r \in Rungs THEN MadeBefore(r, i) ELSE {})

\* The file a process would find if every other one died now.
Mine(o) == IF writer = o THEN db ELSE saved

MigTyped ==
    /\ db \in Files /\ saved \in Files
    /\ writer \in Openers \cup {Nobody}
    /\ opener \in [Openers -> [st : {"closed", "migrating", "serving", "refused"},
                               rung : 1..(SCHEMA_VERSION + 1), at : Nat, txn : BOOLEAN]]
    /\ \A o \in Openers : OpenerTyped(opener[o])

\* Outside a transaction there is one file; inside one, a file that only grows.
LockInv ==
    /\ writer = Nobody => saved = db
    /\ \A o \in Openers : writer = o =>
          opener[o].st = "migrating" /\ opener[o].txn
    /\ \A o \in Openers : opener[o].st = "migrating" =>
          (opener[o].rung \in {5, 6} /\ opener[o].at > 2 => writer = o)
    /\ saved.schema \subseteq db.schema
    /\ db.rows => saved.rows

\* A file has the schema of its version, and a process what it counts on.
WholeInv ==
    /\ Schema[db.version] \subseteq db.schema
    /\ Schema[saved.version] \subseteq saved.schema
    /\ \A o \in Openers :
         /\ opener[o].st = "migrating" =>
               Counted(opener[o].rung, opener[o].at) \subseteq Mine(o).schema
         /\ opener[o].st = "serving" =>
               Schema[SCHEMA_VERSION] \subseteq saved.schema

\* A file without a schema has no rows, and whoever creates it is alone.
CreateInv ==
    /\ db.version = 0 => ~db.rows
    /\ saved.version = 0 <=> db.version = 0
    /\ \A o \in Openers :
         /\ opener[o].st = "serving" => saved.version # 0
         /\ opener[o].st = "migrating" =>
              IF opener[o].rung = 1
              THEN /\ db.version = 0
                   /\ \A p \in Openers \ {o} : opener[p].st \notin {"migrating", "serving"}
              ELSE saved.version # 0
    /\ ~SoleCreator => saved.version # 0

MigInv == MigTyped /\ LockInv /\ WholeInv /\ CreateInv

-------------------------------------------------------------------------------
(* The ladder. *)

\* Lengths of the rungs.
LEMMA RungLengths ==
    /\ Len(Ladder[1]) = 6 /\ Len(Ladder[2]) = 3 /\ Len(Ladder[3]) = 2
    /\ Len(Ladder[4]) = 4 /\ Len(Ladder[5]) = 5 /\ Len(Ladder[6]) = 4
    /\ \A r \in Rungs : DOMAIN Ladder[r] = 1..Len(Ladder[r]) /\ Len(Ladder[r]) \in Nat
<1> USE DEF Ladder, Drop, Create, Ensure, Add, Bump, Begin, Commit, Rungs, SCHEMA_VERSION
<1>1. Len(Ladder[1]) = 6 /\ DOMAIN Ladder[1] = 1..6
  OBVIOUS
<1>2. Len(Ladder[2]) = 3 /\ DOMAIN Ladder[2] = 1..3
  OBVIOUS
<1>3. Len(Ladder[3]) = 2 /\ DOMAIN Ladder[3] = 1..2
  OBVIOUS
<1>4. Len(Ladder[4]) = 4 /\ DOMAIN Ladder[4] = 1..4
  OBVIOUS
<1>5. Len(Ladder[5]) = 5 /\ DOMAIN Ladder[5] = 1..5
  OBVIOUS
<1>6. Len(Ladder[6]) = 4 /\ DOMAIN Ladder[6] = 1..4
  OBVIOUS
<1>7. \A r \in Rungs : r \in {1, 2, 3, 4, 5, 6}
  OBVIOUS
<1> HIDE DEF Ladder, Rungs
<1>8. ASSUME NEW r \in Rungs
      PROVE  DOMAIN Ladder[r] = 1..Len(Ladder[r]) /\ Len(Ladder[r]) \in Nat
  <2>1. CASE r = 1
    BY <1>1, <2>1
  <2>2. CASE r = 2
    BY <1>2, <2>2
  <2>3. CASE r = 3
    BY <1>3, <2>3
  <2>4. CASE r = 4
    BY <1>4, <2>4
  <2>5. CASE r = 5
    BY <1>5, <2>5
  <2>6. CASE r = 6
    BY <1>6, <2>6
  <2> QED BY <1>7, <2>1, <2>2, <2>3, <2>4, <2>5, <2>6
<1> QED BY <1>1, <1>2, <1>3, <1>4, <1>5, <1>6, <1>8

\* What kind of statement stands where: the transactions are the last two
\* rungs, only the first one drops, and each bumps to its own number.
RungFacts(r, i) ==
    LET st == Ladder[r][i] IN
    /\ st.do \in {"drop", "create", "ensure", "add", "bump", "begin", "commit"}
    /\ st.do = "drop" => r = 1 /\ i <= 2
    /\ st.do = "begin" <=> r \in {5, 6} /\ i = 1
    /\ st.do = "commit" <=> r \in {5, 6} /\ i = Len(Ladder[r])
    /\ st.do = "bump" => st.what = r
    /\ st.do = "bump" <=> i = Len(Ladder[r]) - (IF r \in {5, 6} THEN 1 ELSE 0)

LEMMA RungShape ==
    ASSUME NEW r \in Rungs, NEW i \in DOMAIN Ladder[r]
    PROVE  RungFacts(r, i)
<1>0. i \in 1..Len(Ladder[r])
  BY RungLengths
<1>1. CASE r = 1
  <2>1. Ladder[1][1] = [do |-> "drop", what |-> "notebook_papers"]
    BY DEF Ladder, Drop, Create, Ensure, Add, Bump, Begin, Commit
  <2>2. Ladder[1][2] = [do |-> "drop", what |-> "notebooks"]
    BY DEF Ladder, Drop, Create, Ensure, Add, Bump, Begin, Commit
  <2>3. Ladder[1][3] = [do |-> "create", what |-> "notebooks"]
    BY DEF Ladder, Drop, Create, Ensure, Add, Bump, Begin, Commit
  <2>4. Ladder[1][4] = [do |-> "create", what |-> "notebook_papers"]
    BY DEF Ladder, Drop, Create, Ensure, Add, Bump, Begin, Commit
  <2>5. Ladder[1][5] = [do |-> "create", what |-> "idx_papers"]
    BY DEF Ladder, Drop, Create, Ensure, Add, Bump, Begin, Commit
  <2>6. Ladder[1][6] = [do |-> "bump", what |-> 1]
    BY DEF Ladder, Drop, Create, Ensure, Add, Bump, Begin, Commit
  <2>0. i = 1 \/ i = 2 \/ i = 3 \/ i = 4 \/ i = 5 \/ i = 6
    BY <1>0, <1>1, RungLengths
  <2> QED
    BY <1>1, <2>0, <2>1, <2>2, <2>3, <2>4, <2>5, <2>6, RungLengths, SMTT(20) DEF RungFacts
<1>2. CASE r = 2
  <2>1. Ladder[2][1] = [do |-> "ensure", what |-> "ingest_runs"]
    BY DEF Ladder, Drop, Create, Ensure, Add, Bump, Begin, Commit
  <2>2. Ladder[2][2] = [do |-> "ensure", what |-> "idx_runs"]
    BY DEF Ladder, Drop, Create, Ensure, Add, Bump, Begin, Commit
  <2>3. Ladder[2][3] = [do |-> "bump", what |-> 2]
    BY DEF Ladder, Drop, Create, Ensure, Add, Bump, Begin, Commit
  <2>0. i = 1 \/ i = 2 \/ i = 3
    BY <1>0, <1>2, RungLengths
  <2> QED
    BY <1>2, <2>0, <2>1, <2>2, <2>3, RungLengths DEF RungFacts
<1>3. CASE r = 3
  <2>1. Ladder[3][1] = [do |-> "add", what |-> "notebook_kind"]
    BY DEF Ladder, Drop, Create, Ensure, Add, Bump, Begin, Commit
  <2>2. Ladder[3][2] = [do |-> "bump", what |-> 3]
    BY DEF Ladder, Drop, Create, Ensure, Add, Bump, Begin, Commit
  <2>0. i = 1 \/ i = 2
    BY <1>0, <1>3, RungLengths
  <2> QED
    BY <1>3, <2>0, <2>1, <2>2, RungLengths DEF RungFacts
<1>4. CASE r = 4
  <2>1. Ladder[4][1] = [do |-> "add", what |-> "parse_status"]
    BY DEF Ladder, Drop, Create, Ensure, Add, Bump, Begin, Commit
  <2>2. Ladder[4][2] = [do |-> "add", what |-> "parse_error"]
    BY DEF Ladder, Drop, Create, Ensure, Add, Bump, Begin, Commit
  <2>3. Ladder[4][3] = [do |-> "add", what |-> "parsed_html_path"]
    BY DEF Ladder, Drop, Create, Ensure, Add, Bump, Begin, Commit
  <2>4. Ladder[4][4] = [do |-> "bump", what |-> 4]
    BY DEF Ladder, Drop, Create, Ensure, Add, Bump, Begin, Commit
  <2>0. i = 1 \/ i = 2 \/ i = 3 \/ i = 4
    BY <1>0, <1>4, RungLengths
  <2> QED
    BY <1>4, <2>0, <2>1, <2>2, <2>3, <2>4, RungLengths DEF RungFacts
<1>5. CASE r = 5
  <2>1. Ladder[5][1] = [do |-> "begin", what |-> 0]
    BY DEF Ladder, Drop, Create, Ensure, Add, Bump, Begin, Commit
  <2>2. Ladder[5][2] = [do |-> "add", what |-> "discovery_category"]
    BY DEF Ladder, Drop, Create, Ensure, Add, Bump, Begin, Commit
  <2>3. Ladder[5][3] = [do |-> "add", what |-> "description"]
    BY DEF Ladder, Drop, Create, Ensure, Add, Bump, Begin, Commit
  <2>4. Ladder[5][4] = [do |-> "bump", what |-> 5]
    BY DEF Ladder, Drop, Create, Ensure, Add, Bump, Begin, Commit
  <2>5. Ladder[5][5] = [do |-> "commit", what |-> 0]
    BY DEF Ladder, Drop, Create, Ensure, Add, Bump, Begin, Commit
  <2>0. i = 1 \/ i = 2 \/ i = 3 \/ i = 4 \/ i = 5
    BY <1>0, <1>5, RungLengths
  <2> QED
    BY <1>5, <2>0, <2>1, <2>2, <2>3, <2>4, <2>5, RungLengths DEF RungFacts
<1>6. CASE r = 6
  <2>1. Ladder[6][1] = [do |-> "begin", what |-> 0]
    BY DEF Ladder, Drop, Create, Ensure, Add, Bump, Begin, Commit
  <2>2. Ladder[6][2] = [do |-> "ensure", what |-> "formal_releases"]
    BY DEF Ladder, Drop, Create, Ensure, Add, Bump, Begin, Commit
  <2>3. Ladder[6][3] = [do |-> "bump", what |-> 6]
    BY DEF Ladder, Drop, Create, Ensure, Add, Bump, Begin, Commit
  <2>4. Ladder[6][4] = [do |-> "commit", what |-> 0]
    BY DEF Ladder, Drop, Create, Ensure, Add, Bump, Begin, Commit
  <2>0. i = 1 \/ i = 2 \/ i = 3 \/ i = 4
    BY <1>0, <1>6, RungLengths
  <2> QED
    BY <1>6, <2>0, <2>1, <2>2, <2>3, <2>4, RungLengths DEF RungFacts
<1> QED BY <1>1, <1>2, <1>3, <1>4, <1>5, <1>6 DEF Rungs, SCHEMA_VERSION

-------------------------------------------------------------------------------
(* What a place on the ladder counts on. *)

\* One statement more adds what it makes.
LEMMA MadeNext ==
    ASSUME NEW r \in Rungs, NEW i \in DOMAIN Ladder[r]
    PROVE  MadeBefore(r, i + 1) = MadeBefore(r, i) \cup
              (IF Makes(Ladder[r][i]) THEN {Ladder[r][i].what} ELSE {})
<1>1. i \in Nat \ {0}
  BY RungLengths
<1>2. \A k : k \in 1..((i + 1) - 1) <=> k \in 1..(i - 1) \/ k = i
  BY <1>1
<1> QED BY <1>2 DEF MadeBefore

\* Nothing has been made before the first statement.
LEMMA MadeFirst == \A r \in Rungs : MadeBefore(r, 1) = {}
BY DEF MadeBefore

\* A rung makes all it makes, and no more, before it ends.
LEMMA MadeAll ==
    ASSUME NEW r \in Rungs, NEW i \in DOMAIN Ladder[r]
    PROVE  /\ MadeBefore(r, i) \subseteq Made(r)
           /\ Ladder[r][i].do = "bump" => Made(r) = MadeBefore(r, i)
           /\ Makes(Ladder[r][i]) => Ladder[r][i].what \in Made(r)
<1>1. /\ i \in 1..Len(Ladder[r]) /\ DOMAIN Ladder[r] = 1..Len(Ladder[r])
      /\ Len(Ladder[r]) \in Nat
  BY RungLengths
<1>2. \A k : k \in 1..((Len(Ladder[r]) + 1) - 1) <=> k \in 1..Len(Ladder[r])
  BY <1>1
<1>3. Ladder[r][i].do = "bump" =>
         \A k \in 1..Len(Ladder[r]) : Makes(Ladder[r][k]) => k \in 1..(i - 1)
  <2> SUFFICES ASSUME Ladder[r][i].do = "bump", NEW k \in 1..Len(Ladder[r]),
                      Makes(Ladder[r][k])
               PROVE  k \in 1..(i - 1)
    OBVIOUS
  <2>1. RungFacts(r, i) /\ RungFacts(r, k)
    BY <1>1, RungShape
  <2>2. k # i /\ ~(r \in {5, 6} /\ k = Len(Ladder[r]))
    BY <2>1 DEF RungFacts, Makes
  <2>3. i = Len(Ladder[r]) - (IF r \in {5, 6} THEN 1 ELSE 0)
    BY <2>1 DEF RungFacts
  <2> QED BY <1>1, <2>2, <2>3
<1>4. \A k \in 1..(i - 1) : k \in 1..Len(Ladder[r])
  BY <1>1
<1> QED BY <1>1, <1>2, <1>3, <1>4 DEF Made, MadeBefore

\* What the first v rungs make is the schema of version v.
LEMMA SchemaIs == \A v \in 0..SCHEMA_VERSION : Schema[v] = UNION {Made(q) : q \in 1..v}
BY DEF Schema

LEMMA SchemaNext == \A r \in Rungs : Schema[r] = Schema[r - 1] \cup Made(r)
<1> SUFFICES ASSUME NEW r \in Rungs PROVE Schema[r] = Schema[r - 1] \cup Made(r)
  OBVIOUS
<1>1. r \in 0..SCHEMA_VERSION /\ r - 1 \in 0..SCHEMA_VERSION
  BY DEF Rungs, SCHEMA_VERSION
<1>2. \A q : q \in 1..r <=> q \in 1..(r - 1) \/ q = r
  BY DEF Rungs, SCHEMA_VERSION
<1> QED BY <1>1, <1>2, SchemaIs

\* Higher versions have all of the schema of lower ones.
LEMMA SchemaGrows ==
    \A v \in 0..SCHEMA_VERSION : Schema[v] \subseteq Schema[SCHEMA_VERSION]
BY SchemaIs DEF SCHEMA_VERSION

LEMMA CountedAt ==
    ASSUME NEW r \in 1..(SCHEMA_VERSION + 1), NEW i
    PROVE  /\ r \in Rungs => Counted(r, i) = Schema[r - 1] \cup MadeBefore(r, i)
           /\ r \notin Rungs => Counted(r, i) = Schema[SCHEMA_VERSION]
<1>1. r - 1 \in 0..SCHEMA_VERSION
  BY DEF SCHEMA_VERSION
<1>2. r \notin Rungs => r - 1 = SCHEMA_VERSION
  BY DEF Rungs, SCHEMA_VERSION
<1> DEFINE U == UNION {Made(q) : q \in 1..(r - 1)}
<1>3. /\ r \in Rungs => Counted(r, i) = U \cup MadeBefore(r, i)
      /\ r \notin Rungs => Counted(r, i) = U
  BY DEF Counted
<1>4. Schema[r - 1] = U
  BY <1>1, SchemaIs
<1> HIDE DEF U
<1> QED BY <1>2, <1>3, <1>4

\* Whoever opens a file counts on the schema of its version.
LEMMA CountedFirst ==
    \A v \in 0..SCHEMA_VERSION : Counted(v + 1, 1) = Schema[v]
<1> SUFFICES ASSUME NEW v \in 0..SCHEMA_VERSION PROVE Counted(v + 1, 1) = Schema[v]
  OBVIOUS
<1>1. /\ v + 1 \in 1..(SCHEMA_VERSION + 1)
      /\ (v + 1) - 1 = v
      /\ v + 1 \notin Rungs => v = SCHEMA_VERSION
  BY DEF SCHEMA_VERSION, Rungs
<1> QED BY <1>1, CountedAt, MadeFirst

\* A statement done adds what it makes, whether or not its rung goes on.
LEMMA CountedNext ==
    ASSUME NEW r \in Rungs, NEW i \in DOMAIN Ladder[r]
    PROVE  LET made == IF Makes(Ladder[r][i]) THEN {Ladder[r][i].what} ELSE {} IN
           /\ i < Len(Ladder[r]) => Counted(r, i + 1) = Counted(r, i) \cup made
           /\ i = Len(Ladder[r]) => Counted(r + 1, 1) = Counted(r, i) \cup made
<1> DEFINE made == IF Makes(Ladder[r][i]) THEN {Ladder[r][i].what} ELSE {}
<1>1. r \in 1..(SCHEMA_VERSION + 1) /\ r \in 0..SCHEMA_VERSION
  BY DEF Rungs, SCHEMA_VERSION
<1>2. Counted(r, i) = Schema[r - 1] \cup MadeBefore(r, i)
  BY <1>1, CountedAt
<1>3. Counted(r, i + 1) = Schema[r - 1] \cup MadeBefore(r, i + 1)
  BY <1>1, CountedAt
<1>4. MadeBefore(r, i + 1) = MadeBefore(r, i) \cup made
  BY MadeNext
<1>5. Counted(r + 1, 1) = Schema[r - 1] \cup Made(r)
  BY <1>1, CountedFirst, SchemaNext
<1>6. i = Len(Ladder[r]) => Made(r) = MadeBefore(r, i + 1)
  BY DEF Made
<1> HIDE DEF made
<1>7. /\ i < Len(Ladder[r]) => Counted(r, i + 1) = Counted(r, i) \cup made
      /\ i = Len(Ladder[r]) => Counted(r + 1, 1) = Counted(r, i) \cup made
  BY <1>2, <1>3, <1>4, <1>5, <1>6
<1> QED BY <1>7 DEF made

\* Before a bump stands all of the schema it promises; everything counted on is
\* of the schema; who is about to drop counts on nothing, now and after.
LEMMA CountedBounds ==
    ASSUME NEW r \in Rungs, NEW i \in DOMAIN Ladder[r]
    PROVE  /\ Ladder[r][i].do = "bump" => Schema[r] = Counted(r, i)
           /\ Makes(Ladder[r][i]) => Ladder[r][i].what \in Schema[SCHEMA_VERSION]
           /\ Ladder[r][i].do = "drop" => Counted(r, i) = {}
<1>1. r \in 1..(SCHEMA_VERSION + 1) /\ r \in 0..SCHEMA_VERSION
  BY DEF Rungs, SCHEMA_VERSION
<1>2. Counted(r, i) = Schema[r - 1] \cup MadeBefore(r, i)
  BY <1>1, CountedAt
<1>3. Schema[r] = Schema[r - 1] \cup Made(r) /\ Schema[r] \subseteq Schema[SCHEMA_VERSION]
  BY <1>1, SchemaNext, SchemaGrows
<1>4. Ladder[r][i].do = "drop" => Counted(r, i) = {}
  <2> SUFFICES ASSUME Ladder[r][i].do = "drop" PROVE Counted(r, i) = {}
    OBVIOUS
  <2>1. r = 1 /\ i <= 2 /\ i \in Nat \ {0}
    <3>1. RungFacts(r, i)
      BY RungShape
    <3> QED BY <3>1, RungLengths DEF RungFacts
  <2>2. MadeBefore(1, 1) = {} /\ (2 \in DOMAIN Ladder[1] => MadeBefore(1, 2) = {})
    <3>1. 1 \in Rungs /\ 1 \in DOMAIN Ladder[1]
      BY RungLengths DEF Rungs, SCHEMA_VERSION
    <3>2. MadeBefore(1, 1) = {}
      BY <3>1, MadeFirst
    <3>3. MadeBefore(1, 1 + 1) = MadeBefore(1, 1)
      <4>1. ~Makes(Ladder[1][1])
        BY DEF Ladder, Drop, Makes
      <4>2. MadeBefore(1, 1 + 1) = MadeBefore(1, 1) \cup
               (IF Makes(Ladder[1][1]) THEN {Ladder[1][1].what} ELSE {})
        BY <3>1, MadeNext
      <4> QED BY <4>1, <4>2
    <3> QED BY <3>2, <3>3
  <2>3. Schema[0] = {}
    BY SchemaIs DEF SCHEMA_VERSION
  <2>4. i = 1 \/ i = 2
    BY <2>1
  <2> QED BY <1>2, <2>1, <2>2, <2>3, <2>4
<1> QED BY <1>2, <1>3, <1>4, MadeAll

-------------------------------------------------------------------------------
(* The invariant. *)

LEMMA MigTypedInitially == ASSUME MigInit PROVE MigTyped
<1>1. PICK v \in Released, r \in BOOLEAN :
         db = [version |-> v, schema |-> Schema[v], rows |-> r /\ v > 0]
  BY DEF MigInit
<1>2. v \in 0..SCHEMA_VERSION
  BY MigrationConstants DEF SCHEMA_VERSION
<1>3. saved = db /\ writer = Nobody /\ opener = [o \in Openers |-> Idle]
  BY DEF MigInit
<1>4. OpenerTyped(Idle)
  <2>1. Len(Ladder[1]) = 6 /\ DOMAIN Ladder[1] = 1..Len(Ladder[1])
    BY RungLengths DEF Rungs, SCHEMA_VERSION
  <2> QED BY <2>1 DEF OpenerTyped, Idle, SCHEMA_VERSION, Rungs
<1>5. db \in Files
  BY <1>1, <1>2, SchemaGrows DEF Files
<1> QED BY <1>3, <1>4, <1>5 DEF MigTyped, OpenerTyped

LEMMA MigInitially == ASSUME SoleCreator \/ 0 \notin Released, MigInit PROVE MigInv
<1>1. PICK v \in Released, r \in BOOLEAN :
         db = [version |-> v, schema |-> Schema[v], rows |-> r /\ v > 0]
  BY DEF MigInit
<1>2. v \in 0..SCHEMA_VERSION
  BY MigrationConstants DEF SCHEMA_VERSION
<1>3. saved = db /\ writer = Nobody /\ opener = [o \in Openers |-> Idle]
  BY DEF MigInit
<1>5. MigTyped
  BY MigTypedInitially
<1>6. LockInv
  BY <1>3, MigrationConstants DEF LockInv, Idle
<1>7. WholeInv
  BY <1>1, <1>2, <1>3 DEF WholeInv, Idle
<1>8. CreateInv
  <2>1. db.version = v /\ saved.version = v /\ db.rows = (r /\ v > 0)
    BY <1>1, <1>3
  <2>2. \A o \in Openers : opener[o].st = "closed"
    BY <1>3 DEF Idle
  <2>3. ~SoleCreator => v # 0
    OBVIOUS
  <2>4. v = 0 => ~(r /\ v > 0)
    BY <1>2 DEF SCHEMA_VERSION
  <2>5. db.version = 0 => ~db.rows
    BY <2>1, <2>4
  <2> QED BY <2>1, <2>2, <2>3, <2>5 DEF CreateInv
<1> QED BY <1>5, <1>6, <1>7, <1>8 DEF MigInv

\* Where a running process stands, and where it stands next.
LEMMA RunningAt ==
    ASSUME MigTyped, NEW o \in Openers, Running(o)
    PROVE  LET r == opener[o].rung  i == opener[o].at  w == Advanced(o) IN
           /\ r \in Rungs /\ i \in DOMAIN Ladder[r] /\ i \in Nat \ {0}
           /\ Upcoming(o) = Ladder[r][i] /\ RungFacts(r, i)
           /\ w.st = "migrating" /\ w.txn = opener[o].txn
           /\ w.rung \in 1..(SCHEMA_VERSION + 1) /\ w.at \in Nat \ {0}
           /\ w \in [st : {"closed", "migrating", "serving", "refused"},
                     rung : 1..(SCHEMA_VERSION + 1), at : Nat, txn : BOOLEAN]
           /\ w.rung \in Rungs => w.at \in DOMAIN Ladder[w.rung]
           /\ \/ i < Len(Ladder[r]) /\ w.rung = r /\ w.at = i + 1
              \/ i = Len(Ladder[r]) /\ w.rung = r + 1 /\ w.at = 1
           /\ Counted(w.rung, w.at) = Counted(r, i) \cup
                (IF Makes(Upcoming(o)) THEN {Upcoming(o).what} ELSE {})
<1> DEFINE r == opener[o].rung
           i == opener[o].at
           w == Advanced(o)
           Rec == [st : {"closed", "migrating", "serving", "refused"},
                   rung : 1..(SCHEMA_VERSION + 1), at : Nat, txn : BOOLEAN]
<1>1. /\ r \in Rungs /\ opener[o].st = "migrating" /\ i \in DOMAIN Ladder[r]
      /\ opener[o] \in Rec
  BY DEF MigTyped, OpenerTyped, Running
<1>2. /\ DOMAIN Ladder[r] = 1..Len(Ladder[r]) /\ Len(Ladder[r]) \in Nat
      /\ i \in Nat \ {0} /\ i <= Len(Ladder[r])
  BY <1>1, RungLengths
<1>3. Upcoming(o) = Ladder[r][i] /\ RungFacts(r, i)
  BY <1>1, RungShape DEF Upcoming
<1>4. CASE i < Len(Ladder[r])
  <2>1. w = [opener[o] EXCEPT !.at = @ + 1]
    BY <1>4 DEF Advanced
  <2>2. /\ w \in Rec /\ w.rung = r /\ w.at = i + 1
        /\ w.st = opener[o].st /\ w.txn = opener[o].txn
    BY <1>1, <1>2, <2>1
  <2>3. w.at \in DOMAIN Ladder[w.rung]
    BY <1>2, <1>4, <2>2
  <2>4. Counted(w.rung, w.at) = Counted(r, i) \cup
            (IF Makes(Upcoming(o)) THEN {Upcoming(o).what} ELSE {})
    BY <1>1, <1>3, <1>4, <2>2, CountedNext
  <2> QED BY <1>1, <1>2, <1>3, <1>4, <2>2, <2>3, <2>4, SMTT(20)
<1>5. CASE i = Len(Ladder[r])
  <2>1. w = [opener[o] EXCEPT !.rung = @ + 1, !.at = 1]
    BY <1>2, <1>5 DEF Advanced
  <2>2. /\ w \in Rec /\ w.rung = r + 1 /\ w.at = 1
        /\ w.st = opener[o].st /\ w.txn = opener[o].txn
    <3>1. opener[o].rung \in 1..6 /\ opener[o].rung + 1 \in 1..(SCHEMA_VERSION + 1)
      BY <1>1 DEF Rungs, SCHEMA_VERSION
    <3>2. \A x \in Rec : \A n \in 1..(SCHEMA_VERSION + 1) :
             LET y == [x EXCEPT !.rung = n, !.at = 1] IN
             y \in Rec /\ y.rung = n /\ y.at = 1 /\ y.st = x.st /\ y.txn = x.txn
      OBVIOUS
    <3>3. w = [opener[o] EXCEPT !.rung = r + 1, !.at = 1]
      BY <2>1
    <3> HIDE DEF w, Rec
    <3> QED BY <1>1, <3>1, <3>2, <3>3
  <2>3. w.rung \in Rungs => w.at \in DOMAIN Ladder[w.rung]
    <3> SUFFICES ASSUME w.rung \in Rungs PROVE 1 \in DOMAIN Ladder[w.rung]
      BY <2>2
    <3>1. w.rung \in {1, 2, 3, 4, 5, 6}
      BY DEF Rungs, SCHEMA_VERSION
    <3> HIDE DEF w
    <3> QED BY <3>1, RungLengths DEF Rungs, SCHEMA_VERSION
  <2>4. Counted(w.rung, w.at) = Counted(r, i) \cup
            (IF Makes(Upcoming(o)) THEN {Upcoming(o).what} ELSE {})
    BY <1>1, <1>3, <1>5, <2>2, CountedNext
  <2> QED BY <1>1, <1>2, <1>3, <1>5, <2>2, <2>3, <2>4
<1> QED BY <1>2, <1>4, <1>5

-------------------------------------------------------------------------------
(* The steps. *)

MigStates == {"closed", "migrating", "serving", "refused"}
OpenerRecords == [st : MigStates, rung : 1..(SCHEMA_VERSION + 1), at : Nat, txn : BOOLEAN]

LEMMA OpenKeeps == ASSUME MigInv, NEW o \in Openers, Open(o) PROVE MigInv'
<1> DEFINE v == saved.version
           w == [st |-> "migrating", at |-> 1, txn |-> FALSE, rung |-> 1 + v]
<1> USE DEF MigInv
<1>1. UNCHANGED <<db, saved, writer>> /\ opener[o].st = "closed"
  BY DEF Open
<1>2. writer # o
  BY <1>1 DEF LockInv
<1>3. opener' = [opener EXCEPT ![o] = w]
  <2>1. writer = Nobody => db.version = v
    BY DEF LockInv
  <2> QED BY <2>1 DEF Open
<1>4. v \in 0..SCHEMA_VERSION
  BY DEF MigTyped, Files
<1>5. Counted(1 + v, 1) = Schema[v]
  BY <1>4, CountedFirst DEF SCHEMA_VERSION
<1>6. /\ opener' \in [Openers -> OpenerRecords]
      /\ \A p \in Openers : opener'[p] = IF p = o THEN w ELSE opener[p]
  <2>1. w \in OpenerRecords
    BY <1>4 DEF OpenerRecords, MigStates, SCHEMA_VERSION
  <2> HIDE DEF w
  <2> QED BY <1>3, <2>1 DEF MigTyped, OpenerRecords, MigStates
<1>7. MigTyped'
  <2>1. OpenerTyped(w)
    <3>1. 1 + v \in Rungs => 1 \in DOMAIN Ladder[1 + v]
      <4>1. 1 + v \in Rungs => 1 + v \in {1, 2, 3, 4, 5, 6}
        BY <1>4 DEF Rungs, SCHEMA_VERSION
      <4> QED BY <4>1, RungLengths
    <3> QED BY <1>4, <3>1 DEF OpenerTyped, SCHEMA_VERSION
  <2> HIDE DEF w
  <2> QED BY <1>1, <1>6, <2>1 DEF MigTyped, OpenerRecords, MigStates
<1>8. LockInv'
  BY <1>1, <1>2, <1>6 DEF LockInv
<1>9. WholeInv'
  <2>1. \A p \in Openers : Mine(p)' = Mine(p)
    BY <1>1 DEF Mine
  <2>2. Mine(o) = saved
    BY <1>2 DEF Mine
  <2> QED BY <1>1, <1>5, <1>6, <2>1, <2>2 DEF WholeInv
<1>10. CreateInv'
  <2>1. v = 0 => \A p \in Openers \ {o} : opener[p].st \notin {"migrating", "serving"}
    BY DEF CreateInv, Open, BeingCreated
  <2>2. \A p \in Openers \ {o} : opener[p].st = "migrating" => (opener[p].rung = 1 <=> v = 0)
    BY DEF CreateInv
  <2>3. v \in Int /\ (1 + v = 1 <=> v = 0)
    BY <1>4
  <2> QED BY <1>1, <1>6, <2>1, <2>2, <2>3 DEF CreateInv
<1> QED BY <1>7, <1>8, <1>9, <1>10

LEMMA BeginKeeps == ASSUME MigInv, NEW o \in Openers, BeginTxn(o) PROVE MigInv'
<1> DEFINE a == Advanced(o)
           w == [a EXCEPT !.txn = TRUE]
<1> USE DEF MigInv
<1>1. UNCHANGED <<db, saved, writer>> /\ Running(o) /\ opener' = [opener EXCEPT ![o] = w]
  BY DEF BeginTxn
<1>2. /\ opener[o].rung \in {5, 6} /\ opener[o].at = 1 /\ opener[o].st = "migrating"
      /\ ~Makes(Upcoming(o))
  BY <1>1, RunningAt DEF BeginTxn, RungFacts, Running, Makes
<1>3. /\ a \in OpenerRecords /\ a.st = "migrating" /\ a.rung = opener[o].rung /\ a.at = 2
      /\ a.at \in DOMAIN Ladder[a.rung]
      /\ Counted(a.rung, a.at) = Counted(opener[o].rung, opener[o].at)
  BY <1>1, <1>2, RunningAt, RungLengths DEF OpenerRecords, MigStates, Rungs, SCHEMA_VERSION
<1>4. /\ w \in OpenerRecords /\ w.st = "migrating" /\ w.rung = a.rung /\ w.at = 2 /\ w.txn
  <2> HIDE DEF a
  <2> QED BY <1>3 DEF OpenerRecords
<1>5. /\ opener' \in [Openers -> OpenerRecords]
      /\ \A p \in Openers : opener'[p] = IF p = o THEN w ELSE opener[p]
  <2> HIDE DEF w
  <2> QED BY <1>1, <1>4 DEF MigTyped, OpenerRecords, MigStates
<1>6. MigTyped'
  <2>1. OpenerTyped(w)
    BY <1>2, <1>3, <1>4 DEF OpenerTyped, OpenerRecords, MigStates
  <2> HIDE DEF w
  <2> QED BY <1>1, <1>5, <2>1 DEF MigTyped, OpenerRecords, MigStates
<1> HIDE DEF a, w
<1>7. LockInv'
  BY <1>1, <1>2, <1>3, <1>4, <1>5 DEF LockInv
<1>8. WholeInv'
  <2>1. \A p \in Openers : Mine(p)' = Mine(p)
    BY <1>1 DEF Mine
  <2> QED BY <1>1, <1>2, <1>3, <1>4, <1>5, <2>1 DEF WholeInv
<1>9. CreateInv'
  BY <1>1, <1>2, <1>3, <1>4, <1>5 DEF CreateInv
<1> QED BY <1>6, <1>7, <1>8, <1>9

\* What a statement does to the file: only the first rung takes anything away,
\* only a bump changes the version, and none touches the rows but by a drop.
LEMMA EffectIs ==
    ASSUME MigTyped, NEW o \in Openers, Running(o), Upcoming(o).do \notin {"begin", "commit"}
    PROVE  LET r == opener[o].rung  st == Upcoming(o)  e == Effect(st) IN
           /\ e \in Files
           /\ st.do # "drop" => e.rows = db.rows
           /\ e.rows => db.rows
           /\ e.version = IF st.do = "bump" THEN r ELSE db.version
           /\ st.do # "drop" => e.schema = db.schema \cup (IF Makes(st) THEN {st.what} ELSE {})
<1> DEFINE r == opener[o].rung
           st == Upcoming(o)
           i == opener[o].at
<1>1. r \in Rungs /\ i \in DOMAIN Ladder[r] /\ st = Ladder[r][i] /\ RungFacts(r, i)
  BY RunningAt
<1>2. /\ Makes(st) => st.what \in Schema[SCHEMA_VERSION]
      /\ st.do \in {"drop", "create", "ensure", "add", "bump"}
      /\ st.do = "bump" => st.what = r
  BY <1>1, CountedBounds DEF RungFacts
<1>3. db \in Files
  BY DEF MigTyped
<1> HIDE DEF st
<1>4. CASE st.do = "drop"
  <2> DEFINE gone == IF st.what = "notebooks" THEN Columns \cup {"notebooks"}
                     ELSE {"notebook_papers", "idx_papers"}
  <2>1. Effect(st) = [db EXCEPT !.schema = @ \ gone, !.rows = @ /\ st.what # "notebooks"]
    BY <1>4 DEF Effect
  <2> HIDE DEF gone
  <2>2. (db.rows /\ st.what # "notebooks") \in BOOLEAN
    OBVIOUS
  <2>3. Effect(st) \in Files /\ Effect(st).version = db.version
    BY <1>3, <2>1, <2>2 DEF Files
  <2>4. Effect(st).rows => db.rows
    BY <1>3, <2>1 DEF Files
  <2> QED BY <1>4, <2>3, <2>4 DEF Makes, st
<1>5. CASE Makes(st)
  <2>1. Effect(st) = [db EXCEPT !.schema = @ \cup {st.what}] /\ st.do \notin {"drop", "bump"}
    BY <1>5 DEF Effect, Makes
  <2>2. Effect(st) \in Files
    BY <1>2, <1>3, <1>5, <2>1 DEF Files
  <2> QED BY <1>3, <1>5, <2>1, <2>2 DEF Files, st
<1>6. CASE st.do = "bump"
  <2>1. Effect(st) = [db EXCEPT !.version = r] /\ ~Makes(st)
    BY <1>2, <1>6 DEF Effect, Makes
  <2>2. r \in 0..SCHEMA_VERSION
    BY <1>1 DEF Rungs, SCHEMA_VERSION
  <2> QED BY <1>3, <1>6, <2>1, <2>2 DEF Files, st
<1> QED BY <1>2, <1>4, <1>5, <1>6 DEF Makes, st

LEMMA ExecuteKeeps == ASSUME MigInv, NEW o \in Openers, Execute(o) PROVE MigInv'
<1> DEFINE r == opener[o].rung
           i == opener[o].at
           st == Upcoming(o)
           w == Advanced(o)
           made == IF Makes(st) THEN {st.what} ELSE {}
<1> USE DEF MigInv
<1>1. /\ Running(o) /\ st.do \notin {"begin", "commit"} /\ writer \in {Nobody, o}
      /\ db' = Effect(st)
      /\ writer' = IF opener[o].txn THEN o ELSE Nobody
      /\ saved' = IF opener[o].txn THEN (IF writer = o THEN saved ELSE db) ELSE db'
      /\ opener' = [opener EXCEPT ![o] = w]
  BY DEF Execute
<1>2. /\ r \in Rungs /\ i \in DOMAIN Ladder[r] /\ i \in Nat /\ st = Ladder[r][i]
      /\ RungFacts(r, i) /\ opener[o].st = "migrating"
      /\ w \in OpenerRecords /\ w.st = "migrating" /\ w.txn = opener[o].txn
      /\ w.rung \in Rungs => w.at \in DOMAIN Ladder[w.rung]
      /\ Counted(w.rung, w.at) = Counted(r, i) \cup made
      /\ \/ i < Len(Ladder[r]) /\ w.rung = r /\ w.at = i + 1
         \/ i = Len(Ladder[r]) /\ w.rung = r + 1 /\ w.at = 1
  BY <1>1, RunningAt DEF Running, OpenerRecords, MigStates
<1>3. /\ i >= 1 /\ opener[o].txn = (r \in {5, 6} /\ i > 1)
      /\ opener[o].txn <=> r \in {5, 6}
      /\ opener[o].txn => w.rung = r /\ w.at = i + 1 /\ i > 1
  <2>1. i \in 1..Len(Ladder[r])
    BY <1>2, RungLengths
  <2>2. opener[o].txn \in BOOLEAN /\ (opener[o].txn <=> r \in {5, 6} /\ i > 1)
    BY <1>2 DEF MigTyped, OpenerTyped
  <2>3. (r \in {5, 6} => i # 1 /\ i # Len(Ladder[r]))
    BY <1>1, <1>2 DEF RungFacts
  <2> QED BY <1>2, <2>1, <2>2, <2>3
<1>4. /\ Effect(st) \in Files
      /\ st.do # "drop" => Effect(st).rows = db.rows
      /\ Effect(st).rows => db.rows
      /\ Effect(st).version = IF st.do = "bump" THEN r ELSE db.version
      /\ st.do # "drop" => Effect(st).schema = db.schema \cup made
  BY <1>1, EffectIs
<1>5. /\ st.do = "bump" => Schema[r] = Counted(r, i)
      /\ st.do = "drop" => Counted(r, i) = {} /\ ~Makes(st) /\ r = 1
  BY <1>2, CountedBounds DEF RungFacts, Makes
<1>6. Mine(o) = db /\ (writer = Nobody => saved = db)
  BY <1>1 DEF Mine, LockInv
<1> HIDE DEF st, w, made
<1>7. \A p \in Openers : opener'[p] = IF p = o THEN w ELSE opener[p]
  BY <1>1 DEF MigTyped
\* the statement is in a transaction, or there is none
<1>8. o # Nobody
  BY MigrationConstants
<1>9. ~opener[o].txn => writer = Nobody
  BY <1>1 DEF LockInv
<1>10. MigTyped'
  <2>1. OpenerTyped(w)
    BY SMTT(30), <1>2, <1>3, RungLengths DEF OpenerTyped, OpenerRecords, MigStates, Rungs, SCHEMA_VERSION
  <2>2. opener' \in [Openers -> OpenerRecords]
    BY <1>1, <1>2 DEF MigTyped, OpenerRecords, MigStates
  <2>3. db' \in Files /\ saved' \in Files
    BY <1>1, <1>4 DEF MigTyped
  <2>4. writer' \in Openers \cup {Nobody}
    BY <1>1
  <2> QED BY <1>7, <2>1, <2>2, <2>3, <2>4 DEF MigTyped, OpenerRecords, MigStates
\* a transaction of the last two rungs only adds
<1>11. /\ saved'.schema \subseteq db'.schema
       /\ db'.rows => saved'.rows
       /\ opener[o].txn => saved' = saved /\ st.do # "drop"
  <2>1. opener[o].txn => saved' = saved
    BY <1>1, <1>6
  <2>2. opener[o].txn => st.do # "drop"
    BY <1>3, <1>5
  <2> QED BY <1>1, <1>4, <1>9, <2>1, <2>2 DEF LockInv
<1>12. LockInv'
  <2>1. writer' = Nobody => saved' = db'
    BY <1>1, <1>8
  <2>2. \A p \in Openers : writer' = p => opener'[p].st = "migrating" /\ opener'[p].txn
    BY <1>1, <1>2, <1>7, <1>8, MigrationConstants
  <2>3. \A p \in Openers : opener'[p].st = "migrating" =>
           (opener'[p].rung \in {5, 6} /\ opener'[p].at > 2 => writer' = p)
    <3> SUFFICES ASSUME NEW p \in Openers, opener'[p].st = "migrating",
                        opener'[p].rung \in {5, 6}, opener'[p].at > 2
                 PROVE  writer' = p
      OBVIOUS
    <3>1. CASE p = o
      <4>1. w.rung \in {5, 6} /\ w.at > 2
        BY <1>7, <3>1
      <4>2. i < Len(Ladder[r]) /\ w.rung = r
        BY <1>2, <4>1
      <4> QED BY <1>1, <1>3, <3>1, <4>1, <4>2
    <3>2. CASE p # o
      BY <1>1, <1>7, <3>2, MigrationConstants DEF LockInv
    <3> QED BY <3>1, <3>2
  <2> QED BY <1>11, <2>1, <2>2, <2>3 DEF LockInv
\* every other process finds what COMMIT has kept
<1>13. /\ Mine(o)' = db'
       /\ \A p \in Openers \ {o} : Mine(p) = saved /\ Mine(p)' = saved'
       /\ ~opener[o].txn => saved' = db' /\ saved = db
  BY <1>1, <1>6, <1>8, <1>9, MigrationConstants DEF Mine
<1>14. /\ r = 1 => db.version = 0 /\ saved.version = 0
       /\ r = 1 => \A p \in Openers \ {o} : opener[p].st \notin {"migrating", "serving"}
       /\ r # 1 => saved.version # 0
  BY <1>2 DEF CreateInv
<1>15. WholeInv'
  <2>1. CASE st.do = "drop"
    <3>1. ~opener[o].txn /\ r = 1 /\ made = {}
      BY <1>5, <1>11, <2>1 DEF made
    <3>2. db'.version = 0 /\ saved'.version = 0
      BY <1>1, <1>4, <1>13, <1>14, <2>1, <3>1
    <3>3. Schema[0] = {}
      BY SchemaIs DEF SCHEMA_VERSION
    <3>4. Counted(w.rung, w.at) = {}
      BY <1>2, <1>5, <2>1, <3>1
    <3> QED BY <1>2, <1>7, <1>14, <3>1, <3>2, <3>3, <3>4 DEF WholeInv
  <2>2. CASE st.do # "drop"
    <3>1. db'.schema = db.schema \cup made /\ saved.schema \subseteq saved'.schema
      BY <1>1, <1>4, <1>11, <1>13, <2>2
    <3>2. Counted(r, i) \subseteq db.schema
      BY <1>2, <1>6 DEF WholeInv
    <3>3. Schema[db'.version] \subseteq db'.schema
      BY <1>1, <1>4, <1>5, <3>1, <3>2 DEF WholeInv
    <3>4. Schema[saved'.version] \subseteq saved'.schema
      BY <1>11, <1>13, <3>3 DEF WholeInv
    <3>5. Counted(w.rung, w.at) \subseteq db'.schema
      BY <1>2, <3>1, <3>2
    <3> QED BY <1>2, <1>7, <1>13, <3>1, <3>3, <3>4, <3>5 DEF WholeInv
  <2> QED BY <2>1, <2>2
<1>16. CreateInv'
  <2>1. /\ saved.version # 0 => saved'.version # 0
        /\ r = 1 /\ st.do = "bump" => saved'.version # 0
        /\ st.do = "bump" => db'.version # 0
        /\ st.do # "bump" => db'.version = db.version
    <3>1. r # 0
      BY <1>2 DEF Rungs
    <3>2. r = 1 => ~opener[o].txn
      BY <1>3
    <3> QED BY <1>1, <1>4, <1>11, <1>13, <3>1, <3>2
  <2>2. db'.version = 0 => ~db'.rows
    BY <1>1, <1>4, <2>1 DEF CreateInv
  <2>3. saved'.version = 0 <=> db'.version = 0
    <3>1. CASE opener[o].txn
      <4>1. r # 1
        BY <1>3, <3>1
      <4> QED BY <1>11, <1>14, <2>1, <3>1, <4>1 DEF CreateInv
    <3> QED BY <1>13, <3>1
  <2>4. w.rung = 1 => r = 1 /\ st.do # "bump"
    <3>1. r \in 1..6 /\ (w.rung = 1 => r = 1 /\ i < Len(Ladder[1]))
      BY <1>2 DEF Rungs, SCHEMA_VERSION
    <3>2. st.do = "bump" => i = Len(Ladder[r]) - (IF r \in {5, 6} THEN 1 ELSE 0)
      BY <1>2 DEF RungFacts
    <3>3. Len(Ladder[1]) = 6
      BY RungLengths
    <3>4. ASSUME r = 1, st.do = "bump" PROVE i = 6
      <4>1. Ladder[r] = Ladder[1] /\ r \notin {5, 6}
        BY <3>4
      <4>2. Len(Ladder[r]) = 6
        BY <3>3, <4>1
      <4>3. (IF r \in {5, 6} THEN 1 ELSE 0) = 0
        BY <4>1
      <4>4. i = Len(Ladder[r]) - 0
        BY <3>2, <3>4, <4>3
      <4> QED BY <4>2, <4>4
    <3> QED BY <3>1, <3>3, <3>4
  <2>5. w.rung # 1 => saved'.version # 0
    <3>1. CASE r = 1 /\ w.rung # 1
      <4>1. i = Len(Ladder[1])
        BY <1>2, <3>1
      <4>2. st.do = "bump"
        BY <1>2, <3>1, <4>1, RungLengths DEF RungFacts
      <4> QED BY <2>1, <3>1, <4>2
    <3> QED BY <1>14, <2>1, <3>1
  <2>6. \A p \in Openers \ {o} : opener[p].st = "migrating" =>
           opener[p].rung # 1 /\ saved.version # 0
    BY <1>2 DEF CreateInv
  <2>7. \A p \in Openers : opener'[p].st = "serving" => p # o /\ saved.version # 0
    BY <1>2, <1>7 DEF CreateInv
  <2>8. ~SoleCreator => saved.version # 0
    BY DEF CreateInv
  <2>9. w.rung = 1 => /\ db'.version = 0
                      /\ \A p \in Openers \ {o} : opener'[p].st \notin {"migrating", "serving"}
    BY <1>7, <1>14, <2>1, <2>4
  <2> QED BY <1>2, <1>7, <2>1, <2>2, <2>3, <2>5, <2>6, <2>7, <2>8, <2>9 DEF CreateInv
<1> QED BY <1>10, <1>12, <1>15, <1>16

LEMMA CommitKeeps == ASSUME MigInv, NEW o \in Openers, CommitTxn(o) PROVE MigInv'
<1> DEFINE r == opener[o].rung
           i == opener[o].at
           a == Advanced(o)
           w == [a EXCEPT !.txn = FALSE]
<1> USE DEF MigInv
<1>1. /\ Running(o) /\ Upcoming(o).do = "commit"
      /\ writer' = Nobody /\ saved' = db /\ db' = db /\ opener' = [opener EXCEPT ![o] = w]
  BY DEF CommitTxn
<1>2. /\ r \in {5, 6} /\ i = Len(Ladder[r]) /\ i > 2
      /\ opener[o].st = "migrating" /\ ~Makes(Upcoming(o))
  <2>1. /\ RungFacts(r, i) /\ Upcoming(o) = Ladder[r][i] /\ r \in Rungs
    BY <1>1, RunningAt
  <2>2. r \in {5, 6} /\ i = Len(Ladder[r])
    BY <1>1, <2>1 DEF RungFacts
  <2>3. Len(Ladder[5]) = 5 /\ Len(Ladder[6]) = 4
    BY RungLengths
  <2>4. i > 2
    <3>1. CASE r = 5
      <4>1. i = Len(Ladder[5])
        BY <2>2, <3>1
      <4> QED BY <2>3, <4>1
    <3>2. CASE r = 6
      <4>1. i = Len(Ladder[6])
        BY <2>2, <3>2
      <4> QED BY <2>3, <4>1
    <3> QED BY <2>2, <3>1, <3>2
  <2> QED BY <1>1, <2>2, <2>4 DEF Running, Makes
\* by now the transaction has written, and holds the lock
<1>3. writer = o /\ Mine(o) = db
  BY <1>2 DEF LockInv, Mine
<1>4. /\ a \in OpenerRecords /\ a.st = "migrating" /\ a.rung = r + 1 /\ a.at = 1
      /\ a.rung \in Rungs => a.at \in DOMAIN Ladder[a.rung]
      /\ Counted(a.rung, a.at) = Counted(r, i)
  <2>1. i \in Nat /\ ~(i < Len(Ladder[r]))
    BY <1>2, RungLengths
  <2> HIDE DEF a
  <2>2. /\ a \in OpenerRecords /\ a.st = "migrating" /\ a.rung = r + 1 /\ a.at = 1
        /\ a.rung \in Rungs => a.at \in DOMAIN Ladder[a.rung]
        /\ Counted(a.rung, a.at) = Counted(r, i) \cup
             (IF Makes(Upcoming(o)) THEN {Upcoming(o).what} ELSE {})
    BY <1>1, <2>1, RunningAt DEF OpenerRecords, MigStates, a
  <2> QED BY <1>2, <2>2
<1>5. /\ w \in OpenerRecords /\ w.st = "migrating" /\ w.rung = a.rung /\ w.at = 1 /\ ~w.txn
  <2> HIDE DEF a
  <2> QED BY <1>4 DEF OpenerRecords
<1>6. /\ opener' \in [Openers -> OpenerRecords]
      /\ \A p \in Openers : opener'[p] = IF p = o THEN w ELSE opener[p]
  <2> HIDE DEF w
  <2> QED BY <1>1, <1>5 DEF MigTyped, OpenerRecords, MigStates
<1>7. OpenerTyped(w)
  <2> HIDE DEF w, a
  <2> QED BY <1>4, <1>5 DEF OpenerTyped, OpenerRecords, MigStates
<1> HIDE DEF w, a
<1>8. MigTyped'
  BY <1>1, <1>6, <1>7 DEF MigTyped, OpenerRecords, MigStates
<1>9. LockInv'
  <2>1. \A p \in Openers \ {o} : ~(opener[p].st = "migrating" /\ opener[p].rung \in {5, 6}
                                   /\ opener[p].at > 2)
    BY <1>3 DEF LockInv
  <2> QED BY <1>1, <1>4, <1>5, <1>6, <2>1, MigrationConstants DEF LockInv
<1>10. WholeInv'
  <2>1. \A p \in Openers : Mine(p)' = db /\ Mine(p).schema \subseteq db.schema
    BY <1>1 DEF Mine, LockInv
  <2>2. Counted(w.rung, w.at) \subseteq db.schema
    BY <1>2, <1>3, <1>4, <1>5 DEF WholeInv
  <2>3. saved.schema \subseteq db.schema
    BY DEF LockInv
  <2> QED BY <1>1, <1>5, <1>6, <2>1, <2>2, <2>3 DEF WholeInv
<1>11. CreateInv'
  <2>1. w.rung # 1 /\ saved.version # 0 /\ db.version # 0
    BY <1>2, <1>4, <1>5 DEF CreateInv
  <2>2. \A p \in Openers : opener[p].st = "migrating" => opener[p].rung # 1
    BY <2>1 DEF CreateInv
  <2> QED BY <1>1, <1>5, <1>6, <2>1, <2>2 DEF CreateInv
<1> QED BY <1>8, <1>9, <1>10, <1>11

\* What a process leaves undone was in no other process's sight.
LEMMA LeaveKeeps ==
    ASSUME MigInv, NEW o \in Openers, NEW how \in {"closed", "refused"}, Leave(o, how)
    PROVE  MigInv'
<1> DEFINE w == [Idle EXCEPT !.st = how]
<1> USE DEF MigInv
<1>1. /\ opener' = [opener EXCEPT ![o] = w]
      /\ saved' = saved
      /\ db' = (IF writer = o THEN saved ELSE db)
      /\ writer' = IF writer = o THEN Nobody ELSE writer
  BY MigrationConstants DEF Leave, Mine
<1>2. w \in OpenerRecords /\ OpenerTyped(w) /\ w.st = how
  <2>1. /\ Idle \in OpenerRecords /\ Idle.rung = 1 /\ Idle.at = 1 /\ ~Idle.txn
    BY DEF Idle, OpenerRecords, MigStates, SCHEMA_VERSION
  <2>2. 1 \in DOMAIN Ladder[1]
    BY RungLengths DEF Rungs, SCHEMA_VERSION
  <2>3. /\ w \in OpenerRecords /\ w.rung = 1 /\ w.at = 1 /\ ~w.txn /\ w.st = how
    BY <2>1 DEF OpenerRecords, MigStates
  <2> HIDE DEF w
  <2> QED BY <2>2, <2>3 DEF OpenerRecords, MigStates, OpenerTyped
<1> HIDE DEF w
<1>3. /\ opener' \in [Openers -> OpenerRecords]
      /\ \A p \in Openers : opener'[p] = IF p = o THEN w ELSE opener[p]
  BY <1>1, <1>2 DEF MigTyped, OpenerRecords, MigStates
<1>4. MigTyped'
  BY <1>1, <1>2, <1>3 DEF MigTyped, OpenerRecords, MigStates
<1>5. LockInv'
  BY <1>1, <1>2, <1>3, MigrationConstants DEF LockInv
<1>6. WholeInv'
  <2>1. \A p \in Openers \ {o} : Mine(p)' = Mine(p)
    BY <1>1, MigrationConstants DEF Mine
  <2> QED BY <1>1, <1>2, <1>3, <2>1 DEF WholeInv
<1>7. CreateInv'
  <2>1. writer = o => saved.version # 0
    <3>1. writer = o => opener[o].st = "migrating" /\ opener[o].rung \in {5, 6}
      BY DEF MigTyped, OpenerTyped, LockInv
    <3> QED BY <3>1 DEF CreateInv
  <2>2. db'.version = 0 <=> db.version = 0
    BY <1>1, <2>1 DEF CreateInv
  <2>3. db'.version = 0 => ~db'.rows
    BY <1>1, <2>1, <2>2 DEF CreateInv
  <2> QED BY <1>1, <1>2, <1>3, <2>2, <2>3 DEF CreateInv
<1> QED BY <1>4, <1>5, <1>6, <1>7

LEMMA ServeKeeps == ASSUME MigInv, NEW o \in Openers, Serve(o) PROVE MigInv'
<1> DEFINE w == [opener[o] EXCEPT !.st = "serving"]
<1> USE DEF MigInv
<1>1. /\ opener[o].st = "migrating" /\ opener[o].rung \notin Rungs
      /\ UNCHANGED <<db, saved, writer>> /\ opener' = [opener EXCEPT ![o] = w]
  BY DEF Serve, Running
<1>2. /\ opener[o] \in OpenerRecords /\ ~opener[o].txn /\ opener[o].rung = SCHEMA_VERSION + 1
  BY <1>1 DEF MigTyped, OpenerTyped, OpenerRecords, MigStates, Rungs, SCHEMA_VERSION
<1>3. w \in OpenerRecords /\ OpenerTyped(w) /\ w.st = "serving"
  BY <1>1, <1>2 DEF OpenerRecords, MigStates, OpenerTyped
<1> HIDE DEF w
<1>4. /\ opener' \in [Openers -> OpenerRecords]
      /\ \A p \in Openers : opener'[p] = IF p = o THEN w ELSE opener[p]
  BY <1>1, <1>3 DEF MigTyped, OpenerRecords, MigStates
\* the whole schema, and none of it in a transaction of its own
<1>5. writer # o /\ Schema[SCHEMA_VERSION] \subseteq saved.schema
  <2>1. writer # o
    BY <1>2 DEF LockInv
  <2>2. Counted(opener[o].rung, opener[o].at) = Schema[SCHEMA_VERSION]
    BY <1>1, <1>2, CountedAt DEF OpenerRecords
  <2>3. Mine(o) = saved
    BY <2>1 DEF Mine
  <2> QED BY <1>1, <2>1, <2>2, <2>3 DEF WholeInv
<1>6. MigTyped'
  BY <1>1, <1>3, <1>4 DEF MigTyped, OpenerRecords, MigStates
<1>7. LockInv'
  BY <1>1, <1>3, <1>4, <1>5 DEF LockInv
<1>8. WholeInv'
  <2>1. \A p \in Openers : Mine(p)' = Mine(p)
    BY <1>1 DEF Mine
  <2> QED BY <1>1, <1>3, <1>4, <1>5, <2>1 DEF WholeInv
<1>9. CreateInv'
  <2>1. saved.version # 0 /\ opener[o].rung # 1
    BY <1>1, <1>2 DEF CreateInv, SCHEMA_VERSION
  <2> QED BY <1>1, <1>3, <1>4, <2>1 DEF CreateInv
<1> QED BY <1>6, <1>7, <1>8, <1>9

LEMMA CreateNotebookKeeps ==
    ASSUME MigInv, NEW o \in Openers, CreateNotebook(o) PROVE MigInv'
<1> USE DEF MigInv
<1>1. /\ opener[o].st = "serving" /\ writer = Nobody /\ UNCHANGED <<writer, opener>>
      /\ db' = [db EXCEPT !.rows = TRUE] /\ saved' = db'
  BY DEF CreateNotebook
<1>2. saved = db /\ db \in Files
  BY <1>1 DEF LockInv, MigTyped
<1>3. /\ db' \in Files /\ db'.version = db.version /\ db'.schema = db.schema
  BY <1>1, <1>2 DEF Files
<1>4. \A p \in Openers : Mine(p)' = db' /\ Mine(p) = db
  BY <1>1, <1>2 DEF Mine
<1>5. MigTyped'
  BY <1>1, <1>3 DEF MigTyped
<1>6. LockInv'
  BY <1>1, <1>2, <1>3 DEF LockInv
<1>7. WholeInv'
  BY <1>1, <1>2, <1>3, <1>4 DEF WholeInv
<1>8. CreateInv'
  BY <1>1, <1>2, <1>3 DEF CreateInv
<1> QED BY <1>5, <1>6, <1>7, <1>8

LEMMA MigStep == ASSUME MigInv, [MigNext]_migVars PROVE MigInv'
<1>1. CASE UNCHANGED migVars
  BY <1>1 DEF MigInv, MigTyped, LockInv, WholeInv, CreateInv, Mine, migVars
<1>2. ASSUME NEW o \in Openers,
             Raise(o) \/ Busy(o) \/ Stop(o)
      PROVE  MigInv'
  <2>1. \E how \in {"closed", "refused"} : Leave(o, how)
    BY <1>2 DEF Raise, Busy, Stop
  <2> QED BY <2>1, LeaveKeeps
<1> QED BY <1>1, <1>2, OpenKeeps, BeginKeeps, ExecuteKeeps, CommitKeeps, ServeKeeps,
           CreateNotebookKeeps DEF MigNext

-------------------------------------------------------------------------------
(* The theorems. *)

\* open_sync: wherever the processes that open a notebooks.db died and however
\* their statements fell between each other's, the file has what its version
\* claims, and whoever's open has returned finds every table and column there:
\* for files made by a release that had a schema, and for new ones if a single
\* process creates them.
THEOREM ServesWholeHolds ==
    ASSUME SoleCreator \/ 0 \notin Released
    PROVE  MigSpec => []ServesWhole
<1>1. MigInit => MigInv
  BY MigInitially
<1>2. MigInv /\ [MigNext]_migVars => MigInv'
  BY MigStep
<1>3. MigInv => ServesWhole
  BY SchemaGrows DEF MigInv, WholeInv, LockInv, ServesWhole
<1> QED BY <1>1, <1>2, <1>3, PTL DEF MigSpec

\* The migrations of open_sync never cost a user's notebooks, whichever version
\* they start from and whether they end, are undone or die half way.
THEOREM RowsKeptHolds ==
    ASSUME SoleCreator \/ 0 \notin Released
    PROVE  MigSpec => RowsKept
<1>1. MigInit => MigInv
  BY MigInitially
<1>2. MigInv /\ [MigNext]_migVars => MigInv'
  BY MigStep
<1>3. MigInv /\ [MigNext]_migVars => [db.rows => db'.rows]_migVars
  <2> SUFFICES ASSUME MigInv, MigNext, db.rows PROVE db'.rows
    BY DEF MigNext
  <2>1. db.version # 0 /\ saved.rows
    BY DEF MigInv, LockInv, CreateInv
  <2>2. ASSUME NEW o \in Openers, Execute(o) PROVE db'.rows
    <3>1. Running(o) /\ db' = Effect(Upcoming(o)) /\ Upcoming(o).do \notin {"begin", "commit"}
      BY <2>2 DEF Execute
    <3>2. opener[o].rung # 1
      BY <2>1, <3>1 DEF MigInv, CreateInv, Running
    <3>3. Upcoming(o).do # "drop"
      BY <3>1, <3>2, RunningAt DEF MigInv, RungFacts
    <3> QED BY <3>1, <3>3, EffectIs DEF MigInv
  <2>3. ASSUME NEW o \in Openers,
               Raise(o) \/ Busy(o) \/ Stop(o)
        PROVE  db'.rows
    BY <2>1, <2>3 DEF Raise, Busy, Stop, Leave
  <2>4. ASSUME NEW o \in Openers,
               Open(o) \/ BeginTxn(o) \/ CommitTxn(o) \/ Serve(o)
        PROVE  db'.rows
    BY <2>4 DEF Open, BeginTxn, CommitTxn, Serve
  <2>5. ASSUME NEW o \in Openers, CreateNotebook(o) PROVE db'.rows
    BY <2>5 DEF CreateNotebook, MigInv, MigTyped, Files
  <2> QED BY <2>2, <2>3, <2>4, <2>5 DEF MigNext
<1> QED BY <1>1, <1>2, <1>3, PTL DEF MigSpec, RowsKept

-------------------------------------------------------------------------------
(***************************************************************************)
(* Types, also where two processes create one file: there the file may     *)
(* lack what its version promises, but the lock still has a holder in a    *)
(* transaction, and every process stands at a statement of the ladder.     *)
(***************************************************************************)
HolderInv == \A o \in Openers : writer = o => opener[o].st = "migrating" /\ opener[o].txn
EndInv    == \A o \in Openers : opener[o].rung \notin Rungs => opener[o].at = 1

MigTypeInv == MigTyped /\ HolderInv /\ EndInv

\* One process moves, and with it at most the file and the lock.
LEMMA OneMoves ==
    ASSUME MigTypeInv, NEW o \in Openers, NEW w \in OpenerRecords,
           OpenerTyped(w), w.rung \notin Rungs => w.at = 1,
           opener' = [opener EXCEPT ![o] = w],
           db' \in Files, saved' \in Files, writer' \in {writer, Nobody, o},
           writer' = o => w.st = "migrating" /\ w.txn
    PROVE  MigTypeInv'
<1>1. /\ opener' \in [Openers -> OpenerRecords]
      /\ \A p \in Openers : opener'[p] = IF p = o THEN w ELSE opener[p]
  BY DEF MigTypeInv, MigTyped, OpenerRecords, MigStates
<1>2. MigTyped'
  BY <1>1 DEF MigTypeInv, MigTyped, OpenerRecords, MigStates
<1>3. HolderInv'
  BY <1>1, MigrationConstants DEF MigTypeInv, HolderInv
<1>4. EndInv'
  BY <1>1 DEF MigTypeInv, EndInv
<1> QED BY <1>2, <1>3, <1>4 DEF MigTypeInv

\* A process that opens the file, climbs, and is through.
LEMMA OpenTypes == ASSUME MigTypeInv, NEW o \in Openers, Open(o) PROVE MigTypeInv'
<1>1. PICK v \in {db.version, saved.version} :
         opener' = [opener EXCEPT ![o] = [st |-> "migrating", at |-> 1, txn |-> FALSE, rung |-> 1 + v]]
  BY DEF Open
<1> DEFINE w == [st |-> "migrating", at |-> 1, txn |-> FALSE, rung |-> 1 + v]
<1>2. v \in 0..6
  BY DEF MigTypeInv, MigTyped, Files, SCHEMA_VERSION
<1>3. w \in OpenerRecords /\ w.st = "migrating" /\ w.at = 1 /\ ~w.txn /\ w.rung = 1 + v
  BY <1>2 DEF OpenerRecords, MigStates, SCHEMA_VERSION
<1>4. 1 + v \in Rungs => 1 \in DOMAIN Ladder[1 + v]
  <2>1. 1 + v \in Rungs => 1 + v \in {1, 2, 3, 4, 5, 6}
    BY <1>2 DEF Rungs, SCHEMA_VERSION
  <2> QED BY <2>1, RungLengths
<1> HIDE DEF w
<1>5. OpenerTyped(w)
  BY <1>2, <1>3, <1>4 DEF OpenerTyped, OpenerRecords, MigStates
<1>6. UNCHANGED <<db, saved, writer>> /\ writer # o
  BY DEF Open, MigTypeInv, HolderInv
<1>7. opener' = [opener EXCEPT ![o] = w]
  BY <1>1 DEF w
<1> QED BY <1>3, <1>5, <1>6, <1>7, OneMoves DEF MigTypeInv, MigTyped

LEMMA ClimbTypes ==
    ASSUME MigTypeInv, NEW o \in Openers, BeginTxn(o) \/ Execute(o) \/ CommitTxn(o)
    PROVE  MigTypeInv'
<1> DEFINE r == opener[o].rung
           i == opener[o].at
           a == Advanced(o)
<1>1. /\ Running(o) /\ opener[o].st = "migrating" /\ opener[o].txn \in BOOLEAN
      /\ opener[o].txn <=> r \in {5, 6} /\ i > 1
  BY DEF BeginTxn, Execute, CommitTxn, Running, MigTypeInv, MigTyped, OpenerTyped
<1>2. /\ r \in Rungs /\ i \in 1..Len(Ladder[r]) /\ Len(Ladder[r]) \in Nat /\ RungFacts(r, i)
      /\ Upcoming(o) = Ladder[r][i]
      /\ a \in OpenerRecords /\ a.st = "migrating" /\ a.txn = opener[o].txn
      /\ a.rung \in Rungs => a.at \in DOMAIN Ladder[a.rung]
      /\ \/ i < Len(Ladder[r]) /\ a.rung = r /\ a.at = i + 1
         \/ i = Len(Ladder[r]) /\ a.rung = r + 1 /\ a.at = 1
  BY <1>1, RunningAt, RungLengths DEF MigTypeInv, OpenerRecords, MigStates
<1>3. a.rung \notin Rungs => a.at = 1
  BY <1>2
<1> HIDE DEF a
<1>4. Len(Ladder[5]) = 5 /\ Len(Ladder[6]) = 4 /\ r \in 1..6
  BY <1>2, RungLengths DEF Rungs, SCHEMA_VERSION
<1>5. CASE BeginTxn(o)
  <2> DEFINE w == [a EXCEPT !.txn = TRUE]
  <2>1. r \in {5, 6} /\ i = 1
    BY <1>2, <1>5 DEF BeginTxn, RungFacts
  <2>2. a.rung = r /\ a.at = 2
    <3> DEFINE n == Len(Ladder[r])
    <3>1. n \in Nat /\ n > 1
      <4>1. CASE r = 5
        <5>1. n = Len(Ladder[5])
          BY <4>1
        <5> QED BY <1>4, <5>1
      <4>2. CASE r = 6
        <5>1. n = Len(Ladder[6])
          BY <4>2
        <5> QED BY <1>4, <5>1
      <4> QED BY <2>1, <4>1, <4>2
    <3>2. \/ i < n /\ a.rung = r /\ a.at = i + 1
          \/ i = n /\ a.rung = r + 1 /\ a.at = 1
      BY <1>2
    <3> HIDE DEF n
    <3> QED BY <2>1, <3>1, <3>2
  <2>3. w \in OpenerRecords /\ w.st = "migrating" /\ w.txn /\ w.rung = a.rung /\ w.at = a.at
    BY <1>2 DEF OpenerRecords
  <2>4. opener' = [opener EXCEPT ![o] = w] /\ UNCHANGED <<db, saved, writer>>
    BY <1>5 DEF BeginTxn, a
  <2> HIDE DEF w
  <2>5. OpenerTyped(w)
    BY <1>2, <2>1, <2>2, <2>3 DEF OpenerTyped, OpenerRecords, MigStates
  <2> QED BY <1>3, <2>3, <2>4, <2>5, OneMoves DEF MigTypeInv, MigTyped
<1>6. CASE CommitTxn(o)
  <2> DEFINE w == [a EXCEPT !.txn = FALSE]
  <2>1. r \in {5, 6} /\ i = Len(Ladder[r])
    BY <1>2, <1>6 DEF CommitTxn, RungFacts
  <2>2. a.rung = r + 1 /\ a.at = 1
    BY <1>2, <2>1
  <2>3. w \in OpenerRecords /\ w.st = "migrating" /\ ~w.txn /\ w.rung = a.rung /\ w.at = a.at
    BY <1>2 DEF OpenerRecords
  <2>4. opener' = [opener EXCEPT ![o] = w] /\ db' = db /\ saved' = db /\ writer' = Nobody
    BY <1>6 DEF CommitTxn, a
  <2> HIDE DEF w
  <2>5. OpenerTyped(w)
    BY <1>2, <2>2, <2>3 DEF OpenerTyped, OpenerRecords, MigStates
  <2> QED BY <1>3, <2>3, <2>4, <2>5, OneMoves, MigrationConstants DEF MigTypeInv, MigTyped
<1>7. CASE Execute(o)
  <2>1. /\ Upcoming(o).do \notin {"begin", "commit"} /\ db' = Effect(Upcoming(o))
        /\ writer' = IF opener[o].txn THEN o ELSE Nobody
        /\ saved' = IF opener[o].txn THEN (IF writer = o THEN saved ELSE db) ELSE db'
        /\ opener' = [opener EXCEPT ![o] = a]
    BY <1>7 DEF Execute, a
  <2>2. db' \in Files
    BY <1>1, <2>1, EffectIs DEF MigTypeInv
  <2>3. saved' \in Files
    BY <2>1, <2>2 DEF MigTypeInv, MigTyped
  <2>4. r \in {5, 6} => i # 1 /\ i # Len(Ladder[r])
    BY <1>2, <2>1 DEF RungFacts
  <2>5. a.txn <=> a.rung \in {5, 6} /\ a.at > 1
    <3>1. CASE r \in {5, 6}
      <4>1. a.rung = r /\ a.at = i + 1 /\ i > 1
        BY <1>2, <2>4, <3>1
      <4> QED BY <1>1, <1>2, <3>1, <4>1
    <3>2. CASE r \notin {5, 6}
      <4>1. a.rung = r \/ a.at = 1
        BY <1>2
      <4> QED BY <1>1, <1>2, <3>2, <4>1
    <3> QED BY <3>1, <3>2
  <2>6. OpenerTyped(a)
    BY <1>2, <2>5 DEF OpenerTyped, OpenerRecords, MigStates
  <2>7. writer' = o => a.st = "migrating" /\ a.txn
    BY <1>2, <2>1, MigrationConstants
  <2>8. writer' \in {writer, Nobody, o}
    BY <2>1
  <2> QED BY <1>2, <1>3, <2>1, <2>2, <2>3, <2>6, <2>7, <2>8, OneMoves
<1> QED BY <1>5, <1>6, <1>7

\* A process that lets go, is through, or uses the file.
LEMMA EndTypes ==
    ASSUME MigTypeInv, NEW o \in Openers,
           Raise(o) \/ Busy(o) \/ Stop(o) \/ Serve(o) \/ CreateNotebook(o)
    PROVE  MigTypeInv'
<1>1. ASSUME NEW how \in {"closed", "refused"}, Leave(o, how) PROVE MigTypeInv'
  <2> DEFINE w == [Idle EXCEPT !.st = how]
  <2>1. /\ Idle \in OpenerRecords /\ Idle.rung = 1 /\ Idle.at = 1 /\ ~Idle.txn
    BY DEF Idle, OpenerRecords, MigStates, SCHEMA_VERSION
  <2>2. 1 \in DOMAIN Ladder[1] /\ 1 \in Rungs
    BY RungLengths DEF Rungs, SCHEMA_VERSION
  <2>3. w \in OpenerRecords /\ w.rung = 1 /\ w.at = 1 /\ ~w.txn /\ w.st = how
    BY <2>1 DEF OpenerRecords, MigStates
  <2>4. /\ opener' = [opener EXCEPT ![o] = w] /\ saved' = saved
        /\ db' = IF writer = o THEN saved ELSE db
        /\ writer' = IF writer = o THEN Nobody ELSE writer
    BY <1>1 DEF Leave
  <2> HIDE DEF w
  <2>5. OpenerTyped(w)
    BY <2>2, <2>3 DEF OpenerTyped, OpenerRecords, MigStates
  <2>6. db' \in Files /\ saved' \in Files /\ writer' \in {writer, Nobody, o} /\ writer' # o
    BY <2>4, MigrationConstants DEF MigTypeInv, MigTyped
  <2> QED BY <2>2, <2>3, <2>4, <2>5, <2>6, OneMoves
<1>2. CASE Serve(o)
  <2> DEFINE w == [opener[o] EXCEPT !.st = "serving"]
  <2>1. /\ opener[o].rung \notin Rungs /\ opener[o].st = "migrating" /\ opener[o] \in OpenerRecords
        /\ opener[o].at = 1 /\ ~opener[o].txn
    BY <1>2 DEF Serve, Running, MigTypeInv, MigTyped, OpenerTyped, EndInv, OpenerRecords, MigStates
  <2>2. /\ w \in OpenerRecords /\ w.st = "serving" /\ w.rung = opener[o].rung
        /\ w.at = opener[o].at /\ w.txn = opener[o].txn
    BY <2>1 DEF OpenerRecords, MigStates
  <2>3. opener' = [opener EXCEPT ![o] = w] /\ UNCHANGED <<db, saved, writer>>
    BY <1>2 DEF Serve
  <2> HIDE DEF w
  <2>4. OpenerTyped(w)
    BY <2>1, <2>2 DEF OpenerTyped, OpenerRecords, MigStates
  <2>5. writer # o
    BY <2>1 DEF MigTypeInv, HolderInv
  <2> QED BY <2>1, <2>2, <2>3, <2>4, <2>5, OneMoves DEF MigTypeInv, MigTyped
<1>3. CASE CreateNotebook(o)
  <2>1. /\ db' = [db EXCEPT !.rows = TRUE] /\ saved' = db' /\ UNCHANGED <<writer, opener>>
    BY <1>3 DEF CreateNotebook
  <2>2. db' \in Files
    BY <2>1 DEF MigTypeInv, MigTyped, Files
  <2> QED BY <2>1, <2>2 DEF MigTypeInv, MigTyped, HolderInv, EndInv
<1>4. Raise(o) \/ Busy(o) \/ Stop(o) => \E how \in {"closed", "refused"} : Leave(o, how)
  BY DEF Raise, Busy, Stop
<1> QED BY <1>1, <1>2, <1>3, <1>4

\* open_sync: whoever opens, climbs, dies or is refused, and whether or not one
\* process is alone in creating the file, versions and schemas are those of the
\* ladder, and the write lock belongs to nobody or to a process in a transaction.
THEOREM MigTypeCorrect == MigSpec => []MigTypeOK
<1>1. MigInit => MigTypeInv
  BY MigTypedInitially, MigrationConstants
     DEF MigInit, MigTypeInv, HolderInv, EndInv, Idle, Rungs, SCHEMA_VERSION
<1>2. MigTypeInv /\ [MigNext]_migVars => MigTypeInv'
  <2> SUFFICES ASSUME MigTypeInv, [MigNext]_migVars PROVE MigTypeInv'
    OBVIOUS
  <2>1. CASE UNCHANGED migVars
    BY <2>1 DEF MigTypeInv, MigTyped, HolderInv, EndInv, migVars
  <2> QED BY <2>1, OpenTypes, ClimbTypes, EndTypes DEF MigNext
<1>3. MigTypeInv => MigTypeOK
  <2> SUFFICES ASSUME MigTypeInv PROVE MigTypeOK
    OBVIOUS
  <2>1. ASSUME NEW o \in Openers PROVE opener[o].rung \in 1..7 /\ opener[o].at \in 1..6
    <3>1. /\ opener[o].rung \in 1..7
          /\ opener[o].rung \in Rungs => opener[o].at \in DOMAIN Ladder[opener[o].rung]
          /\ opener[o].rung \notin Rungs => opener[o].at = 1
      BY DEF MigTypeInv, MigTyped, OpenerTyped, EndInv, SCHEMA_VERSION
    <3>2. \A r \in Rungs : r \in {1, 2, 3, 4, 5, 6}
      BY DEF Rungs, SCHEMA_VERSION
    <3>3. \A r \in {1, 2, 3, 4, 5, 6} : r \in Rungs /\ Len(Ladder[r]) \in 1..6
      BY RungLengths DEF Rungs, SCHEMA_VERSION
    <3>4. \A r \in Rungs : DOMAIN Ladder[r] = 1..Len(Ladder[r]) /\ Len(Ladder[r]) \in 1..6
      BY <3>2, <3>3, RungLengths
    <3> QED BY <3>1, <3>4
  <2> QED BY <2>1 DEF MigTypeInv, MigTyped, HolderInv, MigTypeOK, Files, SCHEMA_VERSION
<1> QED BY <1>1, <1>2, <1>3, PTL DEF MigSpec

-------------------------------------------------------------------------------
(* The tables: an announced ingest and the handles of its notebook. *)

\* A directory on disk never goes back behind an edition it has shown.
Reached(d, e) == d.dir > e.dir \/ (d.dir = e.dir /\ (d.number = 0 \/ d.number >= e.number))

\* While a lookup holds the lock, nothing is announced: what it has read is no
\* older than what has been, and what it probes stays in the registry.
TabInv ==
    /\ TabTypeOK
    /\ lru \in Seq(Slugbooks)
    /\ \A s \in Slugbooks : Reached(disk[s], promised[s]) /\ Reached(disk[s], notice[s])
    /\ \A c \in Searchers :
         LET l == lookup[c] IN
         /\ l.pc # "idle" => tableLock = c
         /\ l.pc = "probe" => Cached(l.slug)
         /\ l.pc = "open" =>
              /\ l.told > 0
              /\ AtLeast([dir |-> disk[l.slug].dir, number |-> l.told], promised[l.slug])
    /\ FreshAfterIngest

\* A key dropped is gone, and the others stay.
LEMMA DroppedIs ==
    ASSUME TabInv, NEW s \in Slugbooks
    PROVE  /\ Dropped(s) \in Seq(Slugbooks) /\ OnceEach(Dropped(s))
           /\ Len(Dropped(s)) <= Len(lru)
           /\ Cached(s) => Len(Dropped(s)) = Len(lru) - 1
           /\ \A j \in DOMAIN Dropped(s) : Dropped(s)[j] # s /\ Cached(Dropped(s)[j])
<1> DEFINE q == RemoveFirst(lru, s)
<1>1. lru \in Seq(Slugbooks) /\ OnceEach(lru) /\ \A x : Cached(x) <=> Has(lru, x)
  BY DEF TabInv, TabTypeOK, OnceEach, Cached, Has
<1>2. /\ q \in Seq(Slugbooks) /\ OnceEach(q)
      /\ Has(lru, s) => Len(q) = Len(lru) - 1
      /\ \A x : Has(q, x) <=> x # s /\ Has(lru, x)
  BY <1>1, LeavesIt
<1>3. ~Has(lru, s) => q = lru
  BY <1>1, FirstIs
<1>4. Dropped(s) = q
  BY DEF Dropped
<1> HIDE DEF q
<1>5. Len(lru) \in Nat /\ Len(q) <= Len(lru)
  BY <1>1, <1>2, <1>3
<1>6. \A j \in DOMAIN q : q[j] # s /\ Cached(q[j])
  BY <1>1, <1>2 DEF Has
<1> QED BY <1>1, <1>2, <1>4, <1>5, <1>6

\* A key touched is there, once, and nothing else is new.
LEMMA TouchIs ==
    ASSUME TabInv, NEW s \in Slugbooks
    PROVE  /\ Touch(s) \in Seq(Slugbooks) /\ OnceEach(Touch(s))
           /\ Len(Touch(s)) = Len(Dropped(s)) + 1
           /\ Touch(s)[Len(Touch(s))] = s /\ Len(Touch(s)) \in DOMAIN Touch(s)
           /\ \A j \in DOMAIN Touch(s) : Touch(s)[j] = s \/ Cached(Touch(s)[j])
<1> DEFINE q == Dropped(s)
<1>1. /\ q \in Seq(Slugbooks) /\ OnceEach(q) /\ ~Has(q, s)
      /\ \A j \in DOMAIN q : Cached(q[j])
  BY DroppedIs DEF Has
<1>2. Touch(s) = Append(q, s)
  BY DEF Touch
<1> HIDE DEF q
<1>3. Append(q, s) \in Seq(Slugbooks) /\ OnceEach(Append(q, s))
  BY <1>1, PutBehind
<1>4. /\ Len(Append(q, s)) = Len(q) + 1
      /\ Len(q) \in Nat /\ DOMAIN q = 1..Len(q) /\ DOMAIN Append(q, s) = 1..(Len(q) + 1)
      /\ \A j \in 1..(Len(q) + 1) : Append(q, s)[j] = IF j = Len(q) + 1 THEN s ELSE q[j]
  BY <1>1
<1>5. \A j \in 1..(Len(q) + 1) : Append(q, s)[j] = s \/ Cached(Append(q, s)[j])
  BY <1>1, <1>4
<1> QED BY <1>2, <1>3, <1>4, <1>5 DEF q

\* Editions of the disk only move forward.
LEMMA DiskForward ==
    ASSUME NEW d \in Editions, NEW f \in Editions, NEW e \in Editions,
           Reached(d, e),
           \/ f.dir = d.dir /\ (d.number = 0 => f.number = 0)
                            /\ (f.number = 0 \/ f.number >= d.number)
           \/ f.dir > d.dir
    PROVE  /\ Reached(f, e)
           /\ \A n \in Nat : AtLeast([dir |-> d.dir, number |-> n], e) =>
                             AtLeast([dir |-> f.dir, number |-> n], e)
BY DEF Reached, AtLeast, Editions

LEMMA TabInitially == ASSUME TabInit PROVE TabInv
<1>1. Nothing \in Editions
  BY TablesAssumption DEF Nothing, Editions
<1>2. lru = <<>> /\ lru \in Seq(Slugbooks) /\ Len(lru) = 0 /\ DOMAIN lru = {}
  BY DEF TabInit
<1>3. (CHOOSE s \in Slugbooks : TRUE) \in Slugbooks
  BY TablesAssumption
<1>4. TabTypeOK
  <2>1. lookup \in [Searchers -> [pc : {"idle", "probe", "marker", "open"}, slug : Slugbooks,
                                  told : 0..MaxNumber]]
    BY <1>3, TablesAssumption DEF TabInit
  <2>2. Len(lru) <= Slots
    BY <1>2, TablesAssumption
  <2> QED BY <1>1, <1>2, <2>1, <2>2 DEF TabTypeOK, TabInit
<1>5. \A s \in Slugbooks : Reached(disk[s], promised[s]) /\ Reached(disk[s], notice[s])
  BY DEF TabInit, Reached, Nothing
<1>6. \A c \in Searchers : lookup[c].pc = "idle"
  BY DEF TabInit
<1> QED BY <1>2, <1>4, <1>5, <1>6 DEF TabInv, FreshAfterIngest, Cached

LEMMA DiskMovesKeep ==
    ASSUME TabInv, NEW s \in Slugbooks,
           DeleteTables(s) \/ \E ours \in BOOLEAN : IngestNotebook(s, ours)
    PROVE  TabInv'
<1> USE DEF TabInv
<1> DEFINE d == disk[s]
           f == disk'[s]
<1>1. /\ UNCHANGED <<registryVars, lookup, tableLock, promised>>
      /\ disk \in [Slugbooks -> Editions] /\ notice \in [Slugbooks -> Editions]
      /\ promised \in [Slugbooks -> Editions]
  BY DEF DeleteTables, IngestNotebook, TabTypeOK
<1>2. /\ disk' \in [Slugbooks -> Editions]
      /\ \A t \in Slugbooks \ {s} : disk'[t] = disk[t]
      /\ \/ f.dir = d.dir /\ (d.number = 0 => f.number = 0)
                          /\ (f.number = 0 \/ f.number >= d.number)
         \/ f.dir > d.dir
  <2>1. CASE DeleteTables(s)
    <3> DEFINE g == [disk[s] EXCEPT !.number = 0]
    <3>1. disk' = [disk EXCEPT ![s] = g]
      BY <2>1 DEF DeleteTables
    <3>2. \A e \in Editions : LET h == [e EXCEPT !.number = 0] IN
             h \in Editions /\ h.dir = e.dir /\ h.number = 0
      BY TablesAssumption DEF Editions
    <3>3. disk[s] \in Editions
      BY <1>1
    <3>4. g \in Editions /\ g.dir = disk[s].dir /\ g.number = 0
      BY <3>2, <3>3
    <3> HIDE DEF g
    <3> QED BY <1>1, <3>1, <3>4
  <2>2. CASE \E ours \in BOOLEAN : IngestNotebook(s, ours)
    <3> DEFINE g == [dir |-> IF d.number = 0 THEN d.dir + 1 ELSE d.dir,
                     number |-> d.number + 1]
    <3>1. /\ disk' = [disk EXCEPT ![s] = g]
          /\ d.number < MaxNumber /\ (d.number > 0 \/ d.dir < MaxDirs)
      BY <2>2 DEF IngestNotebook
    <3>2. g \in Editions
      BY SMTT(30), <1>1, <3>1, TablesAssumption DEF Editions
    <3>3. g.dir = IF d.number = 0 THEN d.dir + 1 ELSE d.dir
      OBVIOUS
    <3>4. g.number = d.number + 1
      OBVIOUS
    <3>5. d.number \in Nat /\ d.dir \in Nat
      BY <1>1 DEF Editions
    <3> HIDE DEF g
    <3> QED BY <1>1, <3>1, <3>2, <3>3, <3>4, <3>5
  <2> QED BY <2>1, <2>2
<1>3. /\ notice' \in [Slugbooks -> Editions]
      /\ \A t \in Slugbooks : notice'[t] = notice[t] \/ (t = s /\ notice'[t] = f)
  <2>1. notice' \in {notice, [notice EXCEPT ![s] = f]}
    BY DEF DeleteTables, IngestNotebook
  <2>2. f \in Editions
    BY <1>2
  <2> HIDE DEF f
  <2> QED BY <1>1, <2>1, <2>2
<1>4. \A t \in Slugbooks : Reached(disk'[t], promised[t]) /\ Reached(disk'[t], notice[t])
  <2>1. ASSUME NEW t \in Slugbooks, t # s PROVE Reached(disk'[t], promised[t]) /\ Reached(disk'[t], notice[t])
    BY <1>2, <2>1
  <2>2. Reached(f, promised[s]) /\ Reached(f, notice[s])
    BY <1>1, <1>2, DiskForward
  <2> QED BY <2>1, <2>2
<1>5. \A t \in Slugbooks : Reached(disk'[t], notice'[t])
  <2>1. Reached(f, f)
    BY <1>2 DEF Reached, Editions
  <2> QED BY <1>3, <1>4, <2>1
<1>6. \A c \in Searchers : lookup[c].pc = "open" =>
        AtLeast([dir |-> disk'[lookup[c].slug].dir, number |-> lookup[c].told],
                promised[lookup[c].slug])
  <2> SUFFICES ASSUME NEW c \in Searchers, lookup[c].pc = "open"
               PROVE  AtLeast([dir |-> disk'[lookup[c].slug].dir, number |-> lookup[c].told],
                              promised[lookup[c].slug])
    OBVIOUS
  <2>1. lookup[c].slug \in Slugbooks /\ lookup[c].told \in Nat
    BY DEF TabTypeOK
  <2>2. CASE lookup[c].slug = s
    <3>1. Reached(d, promised[s]) /\ d \in Editions /\ f \in Editions /\ promised[s] \in Editions
      BY <1>1, <1>2
    <3>2. \A n \in Nat : AtLeast([dir |-> d.dir, number |-> n], promised[s]) =>
                         AtLeast([dir |-> f.dir, number |-> n], promised[s])
      BY <1>2, <3>1, DiskForward
    <3>3. AtLeast([dir |-> d.dir, number |-> lookup[c].told], promised[s])
      BY <2>2
    <3> QED BY <2>1, <2>2, <3>2, <3>3
  <2>3. CASE lookup[c].slug # s
    BY <1>2, <2>1, <2>3
  <2> QED BY <2>2, <2>3
<1>7. TabTypeOK'
  BY <1>1, <1>2, <1>3 DEF TabTypeOK, registryVars
<1>8. FreshAfterIngest' /\ \A t : Cached(t)' = Cached(t)
  BY <1>1 DEF FreshAfterIngest, registryVars, Cached
<1> QED BY <1>1, <1>4, <1>5, <1>6, <1>7, <1>8 DEF registryVars

\* Whoever has the lock reads the marker: the edition of the moment.
LEMMA MarkerRead ==
    ASSUME TabInv, NEW c \in Searchers, NEW s \in Slugbooks, ReadMarker(c, s),
           tableLock \in {Free, c}
    PROVE  /\ \A b \in Searchers \ {c} : lookup'[b].pc = "idle"
           /\ lookup'[c].pc \in {"idle", "open"}
           /\ lookup'[c].pc = "open" =>
                /\ tableLock' = c /\ lookup'[c].slug = s /\ lookup'[c].told = disk[s].number
                /\ lookup'[c].told > 0
                /\ AtLeast([dir |-> disk[s].dir, number |-> disk[s].number], promised[s])
           /\ lookup' \in [Searchers -> [pc : {"idle", "probe", "marker", "open"},
                                         slug : Slugbooks, told : 0..MaxNumber]]
           /\ tableLock' \in Searchers \cup {Free}
<1> USE DEF TabInv
<1>1. \A b \in Searchers \ {c} : lookup[b].pc = "idle"
  BY TablesAssumption
<1>2. /\ disk[s] \in Editions /\ promised[s] \in Editions
      /\ lookup \in [Searchers -> [pc : {"idle", "probe", "marker", "open"}, slug : Slugbooks,
                                   told : 0..MaxNumber]]
  BY DEF TabTypeOK
<1>3. 0 \in 0..MaxNumber
  BY TablesAssumption
<1>4. CASE disk[s].number = 0
  <2>1. /\ lookup' = [lookup EXCEPT ![c] = [pc |-> "idle", slug |-> s, told |-> 0]]
        /\ tableLock' = Free
    BY <1>4 DEF ReadMarker, CallTo
  <2> QED BY <1>1, <1>2, <1>3, <2>1
<1>5. CASE disk[s].number # 0
  <2>1. /\ lookup' = [lookup EXCEPT ![c] = [pc |-> "open", slug |-> s, told |-> disk[s].number]]
        /\ tableLock' = c
    BY <1>5 DEF ReadMarker, CallTo
  <2>2. disk[s].number > 0 /\ disk[s].number \in 0..MaxNumber
    BY <1>2, <1>5 DEF Editions
  <2>3. AtLeast([dir |-> disk[s].dir, number |-> disk[s].number], promised[s])
    BY <1>2, <1>5 DEF Reached, AtLeast, Editions
  <2> QED BY <1>1, <1>2, <2>1, <2>2, <2>3
<1> QED BY <1>4, <1>5

\* A lookup that ends, or goes on under its lock to something other than an open.
LEMMA CallGoes ==
    ASSUME TabInv, NEW c \in Searchers, NEW s \in Slugbooks, tableLock \in {Free, c},
           NEW pc \in {"idle", "probe", "marker"}, CallTo(c, pc, s, 0)
    PROVE  /\ \A b \in Searchers : lookup'[b].pc = IF b = c THEN pc ELSE "idle"
           /\ lookup'[c].slug = s
           /\ lookup' \in [Searchers -> [pc : {"idle", "probe", "marker", "open"},
                                         slug : Slugbooks, told : 0..MaxNumber]]
<1>1. \A b \in Searchers \ {c} : lookup[b].pc = "idle"
  BY TablesAssumption DEF TabInv
<1>2. lookup \in [Searchers -> [pc : {"idle", "probe", "marker", "open"}, slug : Slugbooks,
                                told : 0..MaxNumber]]
  BY DEF TabInv, TabTypeOK
<1>3. 0 \in 0..MaxNumber
  BY TablesAssumption
<1>4. lookup' = [lookup EXCEPT ![c] = [pc |-> pc, slug |-> s, told |-> 0]]
  BY DEF CallTo
<1> QED BY <1>1, <1>2, <1>3, <1>4

LEMMA FindKeeps ==
    ASSUME TabInv, NEW c \in Searchers, NEW s \in Slugbooks, FindTable(c, s)
    PROVE  TabInv'
<1> USE DEF TabInv
<1>1. /\ lookup[c].pc = "idle" /\ tableLock = Free
      /\ UNCHANGED <<disk, memo, gate, notice, promised>>
  BY DEF FindTable
<1>2. CASE Cached(s) /\ gate[s] = "checked"
  <2>1. lru' = Touch(s) /\ UNCHANGED <<lookup, tableLock>>
    BY <1>2 DEF FindTable
  <2>2. /\ lru' \in Seq(Slugbooks) /\ OnceEach(lru') /\ Len(lru') <= Slots
        /\ \A t \in Slugbooks : Cached(t)' => Cached(t)
    <3>1. Len(lru) \in Nat /\ Len(lru) <= Slots /\ Slots \in Nat
      BY TablesAssumption DEF TabTypeOK
    <3>2. Len(Touch(s)) = Len(lru)
      BY <1>2, <3>1, TouchIs, DroppedIs
    <3>3. \A t \in Slugbooks : Cached(t)' => Cached(t)
      BY <1>2, <2>1, TouchIs DEF Cached
    <3> QED BY <2>1, <3>1, <3>2, <3>3, TouchIs
  <2>3. \A b \in Searchers : lookup[b].pc = "idle"
    BY <1>1, TablesAssumption
  <2> QED BY <1>1, <2>1, <2>2, <2>3 DEF TabTypeOK, OnceEach, FreshAfterIngest
<1>3. CASE Cached(s) /\ gate[s] # "checked"
  <2>1. CallTo(c, "probe", s, 0) /\ tableLock' = c /\ lru' = lru
    BY <1>3 DEF FindTable
  <2>2. /\ \A b \in Searchers : lookup'[b].pc = IF b = c THEN "probe" ELSE "idle"
        /\ lookup'[c].slug = s
        /\ lookup' \in [Searchers -> [pc : {"idle", "probe", "marker", "open"},
                                      slug : Slugbooks, told : 0..MaxNumber]]
    BY <1>1, <2>1, CallGoes
  <2>3. Cached(s)' /\ \A t : Cached(t)' = Cached(t)
    BY <1>3, <2>1 DEF Cached
  <2> QED BY <1>1, <2>1, <2>2, <2>3 DEF TabTypeOK, FreshAfterIngest
<1>4. CASE ~Cached(s)
  <2>1. ReadMarker(c, s) /\ lru' = lru
    BY <1>4 DEF FindTable
  <2>2. \A t : Cached(t)' = Cached(t)
    BY <2>1 DEF Cached
  <2>3. TabTypeOK' /\ FreshAfterIngest'
    <3>1. /\ lookup' \in [Searchers -> [pc : {"idle", "probe", "marker", "open"},
                                        slug : Slugbooks, told : 0..MaxNumber]]
          /\ tableLock' \in Searchers \cup {Free}
      BY <1>1, <2>1, MarkerRead
    <3>2. TabTypeOK'
      BY <1>1, <2>1, <3>1 DEF TabTypeOK
    <3>3. FreshAfterIngest'
      BY <1>1, <2>2 DEF FreshAfterIngest
    <3> QED BY <3>2, <3>3
  <2>4. \A b \in Searchers \ {c} : lookup'[b].pc = "idle"
    BY <1>1, <2>1, MarkerRead
  <2>5. /\ lookup'[c].pc \in {"idle", "open"}
        /\ lookup'[c].pc = "open" =>
              /\ tableLock' = c /\ lookup'[c].slug = s /\ lookup'[c].told = disk[s].number
              /\ lookup'[c].told > 0
              /\ AtLeast([dir |-> disk[s].dir, number |-> disk[s].number], promised[s])
    BY <1>1, <2>1, MarkerRead
  <2>6. lru' \in Seq(Slugbooks)
    BY <2>1
  <2> QED BY <1>1, <2>3, <2>4, <2>5, <2>6
<1> QED BY <1>2, <1>3, <1>4

LEMMA ProbeKeeps == ASSUME TabInv, NEW c \in Searchers, ProbeTable(c) PROVE TabInv'
<1> USE DEF TabInv
<1> DEFINE s == lookup[c].slug
<1>1. /\ lookup[c].pc = "probe" /\ tableLock = c /\ s \in Slugbooks /\ Cached(s)
      /\ UNCHANGED <<disk, memo, notice, promised>>
      /\ \/ /\ gate' = [gate EXCEPT ![s] = "checked"] /\ lru' = Touch(s)
            /\ CallTo(c, "idle", s, 0) /\ tableLock' = Free
         \/ /\ gate' = [gate EXCEPT ![s] = "due"] /\ lru' = Dropped(s)
            /\ CallTo(c, "marker", s, 0) /\ UNCHANGED tableLock
  BY DEF ProbeTable, TabTypeOK
<1> HIDE DEF s
<1>2. Len(lru) \in Nat /\ Len(lru) <= Slots /\ Slots \in Nat
  BY TablesAssumption DEF TabTypeOK
<1>3. CASE /\ gate' = [gate EXCEPT ![s] = "checked"] /\ lru' = Touch(s)
           /\ CallTo(c, "idle", s, 0) /\ tableLock' = Free
  <2>1. /\ lru' \in Seq(Slugbooks) /\ OnceEach(lru') /\ Len(lru') <= Slots
        /\ \A t \in Slugbooks : Cached(t)' => Cached(t)
    <3>1. Len(Touch(s)) = Len(lru)
      BY <1>1, <1>2, TouchIs, DroppedIs
    <3>2. \A t \in Slugbooks : Cached(t)' => Cached(t)
      BY <1>1, <1>3, TouchIs DEF Cached
    <3> QED BY <1>1, <1>2, <1>3, <3>1, <3>2, TouchIs
  <2>2. /\ \A b \in Searchers : lookup'[b].pc = "idle"
        /\ lookup' \in [Searchers -> [pc : {"idle", "probe", "marker", "open"},
                                      slug : Slugbooks, told : 0..MaxNumber]]
    <3>1. "idle" \in {"idle", "probe", "marker"} /\ tableLock \in {Free, c}
      BY <1>1
    <3> QED BY <1>1, <1>3, <3>1, CallGoes
  <2> QED BY <1>1, <1>3, <2>1, <2>2 DEF TabTypeOK, OnceEach, FreshAfterIngest
<1>4. CASE /\ gate' = [gate EXCEPT ![s] = "due"] /\ lru' = Dropped(s)
           /\ CallTo(c, "marker", s, 0) /\ UNCHANGED tableLock
  <2>1. /\ lru' \in Seq(Slugbooks) /\ OnceEach(lru') /\ Len(lru') <= Slots
        /\ \A t \in Slugbooks : Cached(t)' => Cached(t)
    <3>1. \A t \in Slugbooks : Cached(t)' => Cached(t)
      BY <1>1, <1>4, DroppedIs DEF Cached
    <3> QED BY <1>1, <1>2, <1>4, <3>1, DroppedIs
  <2>2. /\ \A b \in Searchers : lookup'[b].pc = IF b = c THEN "marker" ELSE "idle"
        /\ lookup' \in [Searchers -> [pc : {"idle", "probe", "marker", "open"},
                                      slug : Slugbooks, told : 0..MaxNumber]]
    <3>1. "marker" \in {"idle", "probe", "marker"} /\ tableLock \in {Free, c}
      BY <1>1
    <3> QED BY <1>1, <1>4, <3>1, CallGoes
  <2> QED BY <1>1, <1>4, <2>1, <2>2 DEF TabTypeOK, OnceEach, FreshAfterIngest
<1> QED BY <1>1, <1>3, <1>4

LEMMA ReadAgainKeeps == ASSUME TabInv, NEW c \in Searchers, ReadAgain(c) PROVE TabInv'
<1> USE DEF TabInv
<1> DEFINE s == lookup[c].slug
<1>1. /\ lookup[c].pc = "marker" /\ tableLock = c /\ s \in Slugbooks
      /\ UNCHANGED <<disk, lru, memo, gate, notice, promised>> /\ ReadMarker(c, s)
  BY DEF ReadAgain, registryVars, TabTypeOK
<1> HIDE DEF s
<1>2. \A t : Cached(t)' = Cached(t)
  BY <1>1 DEF Cached
<1>3. TabTypeOK' /\ FreshAfterIngest'
  <2>1. /\ lookup' \in [Searchers -> [pc : {"idle", "probe", "marker", "open"},
                                      slug : Slugbooks, told : 0..MaxNumber]]
        /\ tableLock' \in Searchers \cup {Free}
    BY <1>1, MarkerRead
  <2>2. TabTypeOK'
    BY <1>1, <2>1 DEF TabTypeOK
  <2>3. FreshAfterIngest'
    BY <1>1, <1>2 DEF FreshAfterIngest
  <2> QED BY <2>2, <2>3
<1>4. \A b \in Searchers \ {c} : lookup'[b].pc = "idle"
  BY <1>1, MarkerRead
<1>5. /\ lookup'[c].pc \in {"idle", "open"}
      /\ lookup'[c].pc = "open" =>
            /\ tableLock' = c /\ lookup'[c].slug = s /\ lookup'[c].told = disk[s].number
            /\ lookup'[c].told > 0
            /\ AtLeast([dir |-> disk[s].dir, number |-> disk[s].number], promised[s])
  BY <1>1, MarkerRead
<1> QED BY <1>1, <1>3, <1>4, <1>5

LEMMA OpenTableKeeps == ASSUME TabInv, NEW c \in Searchers, OpenTable(c) PROVE TabInv'
<1> USE DEF TabInv
<1> DEFINE s == lookup[c].slug
           n == lookup[c].told
           keys == Touch(s)
           e == [dir |-> disk[s].dir, number |-> n]
<1>1. /\ lookup[c].pc = "open" /\ tableLock = c /\ s \in Slugbooks /\ n \in 0..MaxNumber
      /\ memo' = [memo EXCEPT ![s] = e]
      /\ lru' = IF Len(keys) > Slots THEN Tail(keys) ELSE keys
      /\ gate' = [t \in Slugbooks |->
             IF t = s THEN "checked"
             ELSE IF Len(keys) > Slots /\ t = Head(keys) THEN "none" ELSE gate[t]]
      /\ CallTo(c, "idle", s, 0) /\ tableLock' = Free
      /\ UNCHANGED <<disk, notice, promised>>
      /\ AtLeast(e, promised[s])
  BY DEF OpenTable, TabTypeOK
<1> HIDE DEF s, n
<1>2. e \in Editions
  BY <1>1 DEF TabTypeOK, Editions
<1> HIDE DEF e
<1>3. /\ Len(lru) \in Nat /\ Len(lru) <= Slots /\ Slots \in Nat /\ Slots > 0
      /\ keys \in Seq(Slugbooks) /\ OnceEach(keys) /\ Len(keys) <= Len(lru) + 1
      /\ Len(keys) \in Nat /\ Len(keys) > 0
      /\ \A j \in DOMAIN keys : keys[j] = s \/ Cached(keys[j])
  <2>1. Len(lru) \in Nat /\ Len(lru) <= Slots /\ Slots \in Nat /\ Slots > 0
    BY TablesAssumption DEF TabTypeOK
  <2>2. Len(Dropped(s)) \in Nat /\ Len(Dropped(s)) <= Len(lru) /\ Len(keys) = Len(Dropped(s)) + 1
    BY <1>1, DroppedIs, TouchIs
  <2>3. Len(keys) <= Len(lru) + 1 /\ Len(keys) \in Nat /\ Len(keys) > 0
    BY <2>1, <2>2
  <2> QED BY <1>1, <2>1, <2>3, TouchIs
<1> HIDE DEF keys
<1>4. /\ lru' \in Seq(Slugbooks) /\ OnceEach(lru') /\ Len(lru') <= Slots
      /\ \A t \in Slugbooks : Cached(t)' => Cached(t) \/ t = s
  <2>1. CASE Len(keys) > Slots
    <3>1. /\ Tail(keys) \in Seq(Slugbooks) /\ Len(Tail(keys)) = Len(keys) - 1
          /\ \A i \in 1..(Len(keys) - 1) : Tail(keys)[i] = keys[i + 1]
          /\ DOMAIN Tail(keys) = 1..(Len(keys) - 1) /\ DOMAIN keys = 1..Len(keys)
      BY <1>3
    <3>2. OnceEach(Tail(keys))
      BY <1>3, <3>1 DEF OnceEach
    <3>3. \A j \in DOMAIN Tail(keys) : Tail(keys)[j] = s \/ Cached(Tail(keys)[j])
      BY <1>3, <3>1
    <3> QED BY <1>1, <1>3, <2>1, <3>1, <3>2, <3>3 DEF Cached
  <2>2. CASE ~(Len(keys) > Slots)
    BY <1>1, <1>3, <2>2 DEF Cached
  <2> QED BY <2>1, <2>2
<1>5. /\ \A b \in Searchers : lookup'[b].pc = "idle"
      /\ lookup' \in [Searchers -> [pc : {"idle", "probe", "marker", "open"},
                                    slug : Slugbooks, told : 0..MaxNumber]]
  <2>1. "idle" \in {"idle", "probe", "marker"} /\ tableLock \in {Free, c}
    BY <1>1
  <2> QED BY <1>1, <2>1, CallGoes
<1>6. /\ gate' \in [Slugbooks -> {"none", "checked", "due"}]
      /\ memo' \in [Slugbooks -> Editions]
  BY <1>1, <1>2 DEF TabTypeOK
<1>7. TabTypeOK'
  BY <1>1, <1>4, <1>5, <1>6 DEF TabTypeOK, OnceEach
<1>8. FreshAfterIngest'
  BY <1>1, <1>4 DEF FreshAfterIngest, TabTypeOK
<1> QED BY <1>1, <1>4, <1>5, <1>7, <1>8

LEMMA OpenFailsKeeps == ASSUME TabInv, NEW c \in Searchers, OpenFails(c) PROVE TabInv'
<1> USE DEF TabInv
<1> DEFINE s == lookup[c].slug
<1>1. /\ lookup[c].pc = "open" /\ tableLock = c /\ s \in Slugbooks
      /\ UNCHANGED <<disk, lru, memo, gate, notice, promised>>
      /\ CallTo(c, "idle", s, 0) /\ tableLock' = Free
  BY DEF OpenFails, registryVars, TabTypeOK
<1> HIDE DEF s
<1>2. /\ \A b \in Searchers : lookup'[b].pc = "idle"
      /\ lookup' \in [Searchers -> [pc : {"idle", "probe", "marker", "open"},
                                    slug : Slugbooks, told : 0..MaxNumber]]
  <2>1. "idle" \in {"idle", "probe", "marker"} /\ tableLock \in {Free, c}
    BY <1>1
  <2> QED BY <1>1, <2>1, CallGoes
<1>3. TabTypeOK' /\ FreshAfterIngest'
  BY <1>1, <1>2 DEF TabTypeOK, FreshAfterIngest, Cached
<1> QED BY <1>1, <1>2, <1>3

LEMMA InvalidateKeeps ==
    ASSUME TabInv, NEW s \in Slugbooks, Invalidate(s) PROVE TabInv'
<1> USE DEF TabInv
<1>1. /\ tableLock = Free /\ lru' = Dropped(s)
      /\ gate' = [gate EXCEPT ![s] = "none"]
      /\ notice' = [notice EXCEPT ![s] = Nothing]
      /\ promised' = [promised EXCEPT ![s] = notice[s]]
      /\ UNCHANGED <<disk, memo, lookup, tableLock>>
  BY DEF Invalidate
<1>2. \A b \in Searchers : lookup[b].pc = "idle"
  BY <1>1, TablesAssumption
<1>3. Nothing \in Editions /\ \A d \in Editions : Reached(d, Nothing)
  BY TablesAssumption DEF Nothing, Editions, Reached
<1>4. /\ lru' \in Seq(Slugbooks) /\ OnceEach(lru') /\ Len(lru') <= Slots
      /\ ~Cached(s)' /\ \A t \in Slugbooks : Cached(t)' => Cached(t)
  <2>1. Len(lru) \in Nat /\ Len(lru) <= Slots /\ Slots \in Nat
    BY TablesAssumption DEF TabTypeOK
  <2>2. /\ Dropped(s) \in Seq(Slugbooks) /\ OnceEach(Dropped(s))
        /\ Len(Dropped(s)) <= Len(lru) /\ Len(Dropped(s)) \in Nat
        /\ \A j \in DOMAIN Dropped(s) : Dropped(s)[j] # s /\ Cached(Dropped(s)[j])
    BY DroppedIs
  <2> QED BY <1>1, <2>1, <2>2 DEF Cached
<1>5. TabTypeOK'
  BY <1>1, <1>3, <1>4 DEF TabTypeOK, OnceEach
<1>6. FreshAfterIngest'
  BY <1>1, <1>4 DEF FreshAfterIngest, TabTypeOK
<1>7. \A t \in Slugbooks : Reached(disk'[t], promised'[t]) /\ Reached(disk'[t], notice'[t])
  BY <1>1, <1>3 DEF TabTypeOK
<1> QED BY <1>1, <1>2, <1>4, <1>5, <1>6, <1>7

LEMMA IntervalKeeps ==
    ASSUME TabInv, NEW s \in Slugbooks, IntervalPasses(s) PROVE TabInv'
<1>1. UNCHANGED <<disk, lru, memo, lookup, tableLock, notice, promised>>
  BY DEF IntervalPasses
<1>2. gate' \in [Slugbooks -> {"none", "checked", "due"}]
  BY DEF IntervalPasses, TabInv, TabTypeOK
<1> QED BY <1>1, <1>2 DEF TabInv, TabTypeOK, FreshAfterIngest, Cached

LEMMA TabStep == ASSUME TabInv, [TabNext]_tabVars PROVE TabInv'
<1>1. CASE UNCHANGED tabVars
  BY <1>1 DEF tabVars, TabInv, TabTypeOK, FreshAfterIngest, Cached
<1>2. CASE TabNext
  BY <1>2, DiskMovesKeep, FindKeeps, ProbeKeeps, ReadAgainKeeps, OpenTableKeeps,
     OpenFailsKeeps, InvalidateKeeps, IntervalKeeps DEF TabNext
<1> QED BY <1>1, <1>2

\* notebook_table and invalidate_notebook_table: once the daemon has announced
\* an ingest of a notebook, no handle of the registry is older than that
\* ingest, though a probe knows a version by its number alone and directories
\* come and go under every lookup.
THEOREM FreshAfterIngestHolds == TabSpec => []FreshAfterIngest
<1>1. TabInit => TabInv
  BY TabInitially
<1>2. TabInv /\ [TabNext]_tabVars => TabInv'
  BY TabStep
<1>3. TabInv => FreshAfterIngest
  BY DEF TabInv
<1> QED BY <1>1, <1>2, <1>3, PTL DEF TabSpec

\* The registry never holds more than MAX_NOTEBOOK_TABLE_SLOTS handles, nor two
\* of one notebook, and its lock is some lookup's or nobody's.
THEOREM TablesTyped == TabSpec => []TabTypeOK
<1>1. TabInit => TabInv
  BY TabInitially
<1>2. TabInv /\ [TabNext]_tabVars => TabInv'
  BY TabStep
<1>3. TabInv => TabTypeOK
  BY DEF TabInv
<1> QED BY <1>1, <1>2, <1>3, PTL DEF TabSpec
===============================================================================
