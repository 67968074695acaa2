----------------------------- MODULE Migrations -----------------------------
(***************************************************************************)
(* pkg/db/migrate: `goflex db create, migrate, rollback', run by any number *)
(* of processes against one directory and one database.  A migration and    *)
(* its record in schema_migrations are two transactions; a process may end  *)
(* between any two of its steps, by a crash or by an error it returns.      *)
(***************************************************************************)
EXTENDS Integers, Sequences, FiniteSets

CONSTANTS
  Proc, Name,
  First, Last,    \* bound: versions First..Last; Create numbers them on from First
  Strict,         \* Up fails if what it creates exists, Down if it does not
  Understood,     \* the driver takes "?" placeholders (sqlite, mysql; not pgx)
  Depth,          \* directories between the root of Config.FS and the files
  DownAlone,      \* operators roll back only when no other process migrates
  MaxAborts, MaxDowns   \* bounds: crashes and failing queries; rollbacks

Version == First..Last
File == [version: Version, name: Name]

ASSUME MigrationsAssumption ==
  /\ First \in Nat \ {0} /\ Last \in Nat /\ First <= Last
  /\ {Strict, Understood, DownAlone} \subseteq BOOLEAN
  /\ {Depth, MaxAborts, MaxDowns} \subseteq Nat

VARIABLES
  disk,      \* files with an Up
  down,      \* those whose Down is not blank
  recorded,  \* schema_migrations
  schema,    \* how often the effect of each file is in the schema
  proc,      \* processes
  aborts, downs,
  torn       \* history: versions whose process ended between the two transactions

vars == <<disk, down, recorded, schema, proc, aborts, downs, torn>>

Idle == [at |-> "idle", todo |-> <<>>, files |-> {}, new |-> {}]
Places == {"idle", "check", "exec", "record", "down", "unrecord", "writeUp", "writeDown"}
ProcRecord == [at: Places, todo: Seq(Version), files: SUBSET File, new: SUBSET File]

Init ==
  /\ disk = {} /\ down = {} /\ recorded = {}
  /\ schema = [f \in File |-> 0]
  /\ proc = [p \in Proc |-> Idle]
  /\ aborts = 0 /\ downs = 0 /\ torn = {}

(***************************************************************************)
(* Versions are compared as strings.  Create pads them to three digits, so  *)
(* from 1000 on "1000" comes before "999".                                  *)
(***************************************************************************)
Less(v, w) ==
  CASE v < 1000 /\ w >= 1000 -> v <= w \div 10
    [] v >= 1000 /\ w < 1000 -> v \div 10 < w
    [] OTHER -> v < w

\* The versions of a set in that order; with duplicates once each, as all of a
\* version are skipped once it is recorded.
Sorted(vs) ==
  CHOOSE s \in [1..Cardinality(vs) -> vs] : \A i, j \in DOMAIN s : i < j => Less(s[i], s[j])
Reversed(s) == [i \in DOMAIN s |-> s[Len(s) + 1 - i]]
\* Wrong: rollbacks begin with the oldest version (InOrder).
OldestFirst(s) == s

NewestFirst(s) == Reversed(s)

VersionsOf(fs) == {f.version : f \in fs}

\* loadMigrations.  In a file system, "**" matches one directory.
Loaded == IF Depth > 1 THEN {} ELSE disk

Begin(p, at, todo) == proc' = [proc EXCEPT ![p] = [Idle EXCEPT !.at = at, !.todo = todo, !.files = Loaded]]
Goes(p, at) == proc' = [proc EXCEPT ![p].at = at]
Skips(p, at) == proc' = [proc EXCEPT ![p].at = at, ![p].todo = Tail(@)]
Ends(p) == proc' = [proc EXCEPT ![p] = Idle]
Todo(p, at) == proc[p].at = at /\ proc[p].todo # <<>>
Busy(places) == {p \in Proc : proc[p].at \in places}
Down == {"down", "unrecord"}
Files(p) == {f \in proc[p].files : f.version = Head(proc[p].todo)}

(***************************************************************************)
(* Create: the next number after the greatest on disk, then two files.  Two *)
(* developers may take the same number.                                     *)
(***************************************************************************)
Create(p) ==
  LET next == CHOOSE n \in First..(Last + 1) :
                /\ \A v \in VersionsOf(disk) : v < n
                /\ n = First \/ n - 1 \in VersionsOf(disk)
  IN
  /\ proc[p].at = "idle" /\ next <= Last
  /\ \E name \in Name :
       proc' = [proc EXCEPT ![p] = [Idle EXCEPT !.at = "writeUp", !.new = {[version |-> next, name |-> name]}]]
  /\ UNCHANGED <<disk, down, recorded, schema, aborts, downs, torn>>

WriteUp(p) ==
  /\ proc[p].at = "writeUp"
  /\ disk' = disk \cup proc[p].new
  /\ Goes(p, "writeDown")
  /\ UNCHANGED <<down, recorded, schema, aborts, downs, torn>>

WriteDown(p) ==
  /\ proc[p].at = "writeDown"
  /\ down' = down \cup proc[p].new
  /\ Ends(p)
  /\ UNCHANGED <<disk, recorded, schema, aborts, downs, torn>>

(***************************************************************************)
(* UpWith.                                                                  *)
(***************************************************************************)
StartUp(p) ==
  /\ proc[p].at = "idle"
  /\ DownAlone => Busy(Down) = {}
  /\ Begin(p, "check", Sorted(VersionsOf(Loaded)))
  /\ UNCHANGED <<disk, down, recorded, schema, aborts, downs, torn>>

\* Wrong: the ledger is not consulted (Converges).
AppliedNever(v) == FALSE

\* Any error of the query counts as not applied.
Applied(v) == Understood /\ v \in recorded

CheckApplied(p) ==
  /\ Todo(p, "check")
  /\ IF Applied(Head(proc[p].todo)) THEN Skips(p, "check") ELSE Goes(p, "exec")
  /\ UNCHANGED <<disk, down, recorded, schema, aborts, downs, torn>>

\* A single query that fails, of a version that is recorded or not.
QueryFails(p) ==
  /\ Todo(p, "check") /\ aborts < MaxAborts
  /\ aborts' = aborts + 1
  /\ Goes(p, "exec")
  /\ UNCHANGED <<disk, down, recorded, schema, downs, torn>>

ExecUp(p) ==
  /\ proc[p].at = "exec"
  /\ \E f \in Files(p) :
       /\ Strict => schema[f] = 0   \* else Refused
       /\ schema' = [schema EXCEPT ![f] = @ + 1]
  /\ Goes(p, "record")
  /\ UNCHANGED <<disk, down, recorded, aborts, downs, torn>>

\* The version is the primary key.
Record(p) ==
  LET v == Head(proc[p].todo) IN
  /\ proc[p].at = "record" /\ Understood /\ v \notin recorded
  /\ recorded' = recorded \cup {v}
  /\ Skips(p, "check")
  /\ UNCHANGED <<disk, down, schema, aborts, downs, torn>>

Finished(p) ==
  /\ proc[p].at \in {"check", "down"} /\ proc[p].todo = <<>>
  /\ Ends(p)
  /\ UNCHANGED <<disk, down, recorded, schema, aborts, downs, torn>>

(***************************************************************************)
(* DownWith(step): the last `step' records, chosen before any is undone.    *)
(***************************************************************************)
StartDown(p, step) ==
  LET newest == NewestFirst(Sorted(recorded)) IN
  /\ proc[p].at = "idle" /\ downs < MaxDowns /\ step <= Cardinality(recorded)
  /\ DownAlone => \A q \in Proc : proc[q].at = "idle"
  /\ Begin(p, "down", SubSeq(newest, 1, step))
  /\ downs' = downs + 1
  /\ UNCHANGED <<disk, down, recorded, schema, aborts, torn>>

\* Of several files with one version byVersion keeps any, which may have no Down.
SkipDown(p) ==
  /\ Todo(p, "down")
  /\ Files(p) = {} \/ ~(Files(p) \subseteq down)
  /\ Skips(p, "down")
  /\ UNCHANGED <<disk, down, recorded, schema, aborts, downs, torn>>

ExecDown(p) ==
  /\ Todo(p, "down")
  /\ \E f \in Files(p) \cap down :
       /\ Strict => schema[f] > 0   \* else Refused
       /\ schema' = [schema EXCEPT ![f] = IF @ = 0 THEN 0 ELSE @ - 1]
  /\ Goes(p, "unrecord")
  /\ UNCHANGED <<disk, down, recorded, aborts, downs, torn>>

\* Wrong: a rollback leaves the version recorded (LedgerExact).
UnrecordNot(p) ==
  /\ proc[p].at = "unrecord"
  /\ Skips(p, "down")
  /\ UNCHANGED <<disk, down, recorded, schema, aborts, downs, torn>>

Unrecord(p) ==
  /\ proc[p].at = "unrecord"
  /\ recorded' = recorded \ {Head(proc[p].todo)}
  /\ Skips(p, "down")
  /\ UNCHANGED <<disk, down, schema, aborts, downs, torn>>

(***************************************************************************)
(* Errors of the database, and the end of the process at any point.         *)
(***************************************************************************)
Torn(p) == IF proc[p].at \in {"record", "unrecord"} THEN {Head(proc[p].todo)} ELSE {}

Refused(p) ==
  /\ \/ Strict /\ proc[p].at = "exec" /\ \E f \in Files(p) : schema[f] > 0
     \/ Strict /\ Todo(p, "down") /\ \E f \in Files(p) \cap down : schema[f] = 0
     \/ proc[p].at = "record" /\ (Understood => Head(proc[p].todo) \in recorded)
  /\ torn' = torn \cup Torn(p)
  /\ Ends(p)
  /\ UNCHANGED <<disk, down, recorded, schema, aborts, downs>>

Abort(p) ==
  /\ proc[p].at # "idle" /\ aborts < MaxAborts
  /\ aborts' = aborts + 1
  /\ torn' = torn \cup Torn(p)
  /\ Ends(p)
  /\ UNCHANGED <<disk, down, recorded, schema, downs>>

CreateStep(p) == Create(p) \/ WriteUp(p) \/ WriteDown(p)
UpStep(p) == CheckApplied(p) \/ ExecUp(p) \/ Record(p)
DownStep(p) == SkipDown(p) \/ ExecDown(p) \/ Unrecord(p)
Runs(p) == WriteUp(p) \/ WriteDown(p) \/ UpStep(p) \/ DownStep(p) \/ Finished(p) \/ Refused(p)

Next == \E p \in Proc :
  \/ CreateStep(p) \/ StartUp(p) \/ UpStep(p)
  \/ \E step \in 1..Cardinality(Version) : StartDown(p, step)
  \/ DownStep(p) \/ Finished(p) \/ Refused(p) \/ QueryFails(p) \/ Abort(p)

Spec == Init /\ [][Next]_vars

\* Processes go on, and operators migrate again until there is nothing to migrate.
FairSpec == Spec /\ \A p \in Proc : WF_vars(Runs(p)) /\ WF_vars(VersionsOf(disk) # recorded /\ StartUp(p))

-----------------------------------------------------------------------------
\* Types of files, records and processes.
TypeOK ==
  /\ disk \subseteq File /\ down \subseteq disk
  /\ recorded \subseteq Version
  /\ schema \in [File -> Nat]
  /\ proc \in [Proc -> ProcRecord]
  /\ aborts \in 0..MaxAborts /\ downs \in 0..MaxDowns /\ torn \subseteq Version

Between(v) == \E p \in Proc : proc[p].at \in {"record", "unrecord"} /\ Head(proc[p].todo) = v

\* schema_migrations tells the schema: a version is recorded exactly if one migration of
\* it is applied, but while a process is between the two transactions of that version,
\* and for the versions where one has ended there.
LedgerExact ==
  \A v \in Version \ torn :
    ~Between(v) => (v \in recorded <=> \E f \in File : f.version = v /\ schema[f] = 1)

\* Broken by the code, see the README.  No migration is applied twice.
AppliedOnce == \A f \in File : schema[f] <= 1

\* Broken by the code, see the README.  A recorded version has all its files applied.
NoneSkipped == \A f \in disk : f.version \in recorded \ torn /\ ~Between(f.version) => schema[f] = 1

\* Broken by the code, see the README.  Without a crash, no process ends between the two
\* transactions.
OnlyAbortsTear == aborts = 0 => torn = {}

\* Migrations are applied in the order of their numbers and undone in the opposite
\* one: an Up finds all lower ones recorded, a Down no higher one, unless without a Down.
InOrder ==
  [][\A f \in File :
       /\ schema'[f] > schema[f] => \A g \in disk : g.version < f.version => g.version \in recorded
       /\ schema'[f] < schema[f] =>
            \A v \in recorded : v > f.version => \E g \in disk \ down : g.version = v]_vars

\* Whatever was interrupted, and whoever else migrates: migrating again ends with every
\* version recorded, unless a process has ended between the two transactions.
Converges == <>[](torn # {} \/ VersionsOf(disk) = recorded)

=============================================================================
