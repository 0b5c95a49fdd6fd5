----------------------------- MODULE Durability -----------------------------
(***************************************************************************)
(* The engine on a persistent backend: write-ahead log, snapshots, the     *)
(* event store, crashes and recovery.  One step is one SQL statement or    *)
(* one change in memory; the process may die between any two, and a        *)
(* writing statement may fail.  A statement takes effect whole or not at   *)
(* all, and reading succeeds.                                              *)
(*                                                                         *)
(* `kept', `gap', `diary', `torn' and `missed' are no part of the program: *)
(* they record what the disk ought to stand for.                           *)
(***************************************************************************)
EXTENDS Commands, FiniteSetsExt

CONSTANTS
  DriverId, JobId, OfferId,
  MaxSeq,          \* bound: commands the engine numbers (see Room)
  MaxFailures,     \* bound: statements that fail
  SnapshotAt,      \* bound: the numbers at which the snapshot timer fires
  NoCommand

ASSUME NoCommandAssumption == NoCommand \notin Commands(DriverId, JobId, OfferId)
ASSUME BoundAssumption == MaxSeq \in Nat /\ MaxFailures \in Nat /\ SnapshotAt \subseteq Nat

VARIABLES
  mode,            \* of the process: down, loading (in recover) or up
  state, seq,      \* the engine in memory: its state and wal_sequence
  spatial,         \* the spatial index in memory
  pending,         \* the command numbered and not yet applied
  unstored,        \* events pushed and not yet inserted
  task,            \* what create_snapshot still has to do
  wal,             \* table wal: sequence -> command
  snapshots,       \* table snapshots: sequence -> state
  stored,          \* table job_events
  failures,        \* statements that failed so far
  kept,            \* the state the disk stands for
  gap,             \* has a command been executed that the disk does not have?
  diary,           \* every event a command led to
  torn,            \* has a crash ever lost an executed command?
  missed           \* events whose insertion failed

engineVars == <<state, seq, spatial>>
ghostVars == <<kept, gap, diary, torn, missed>>
vars == <<mode, state, seq, spatial, pending, unstored, task, wal, snapshots,
          stored, failures, kept, gap, diary, torn, missed>>

-----------------------------------------------------------------------------
(* The statements of the backends. *)

Latest(table) == IF DOMAIN table = {} THEN 0 ELSE Max(DOMAIN table)

Keep(table, keys) == [k \in keys |-> table[k]]

(* SELECT ... ORDER BY seq DESC LIMIT 1 *)
LoadSnapshot ==
  IF DOMAIN snapshots = {} THEN EmptyState ELSE snapshots[Latest(snapshots)]

(* SELECT ... WHERE seq > ? *)
WalAfter(n) == {m \in DOMAIN wal : m > n}

(* DELETE ... WHERE seq NOT IN (the two latest) *)
TwoLatest(keys) == {n \in keys : Cardinality({m \in keys : m > n}) < 2}

(* INSERT INTO job_events: the primary key refuses a number used before.   *)
Insert(table, rows) ==
  table \cup {r \in rows :
                ~ \E x \in table : x.job = r.job /\ x.sequence = r.sequence}

-----------------------------------------------------------------------------
(* Commands. *)

(* Fault: the mutex is free while a snapshot is being written. *)
IdleOrSaving == mode = "up" /\ pending = NoCommand /\ unstored = <<>>

Idle == mode = "up" /\ pending = NoCommand /\ unstored = <<>> /\ task = "none"

Fail == failures < MaxFailures /\ failures' = failures + 1

(* Bound: a statement that failed takes the place of two commands. *)
Room == seq + 2 * failures < MaxSeq

Command == Commands(DriverId, JobId, OfferId)

Number(c) ==
  /\ Idle /\ Room
  /\ Issued(state, diary, c)
  /\ seq' = seq + 1
  /\ pending' = c
  /\ UNCHANGED <<mode, state, spatial, unstored, task, snapshots, stored,
                 diary, torn, missed>>

(* append_and_apply, first half: the log.  A failure is passed over. *)
AppendWal(c) ==
  /\ Number(c)
  /\ wal' = With(wal, seq + 1, c)
  /\ kept' = ApplyCommand(kept, c)
  /\ UNCHANGED <<failures, gap>>

AppendWalFails(c) ==
  /\ Number(c)
  /\ Fail
  /\ gap' = TRUE
  /\ UNCHANGED <<wal, kept>>

(* apply_command, which pushes the events one by one. *)
Apply(c) ==
  /\ state' = ApplyCommand(state, c)
  /\ spatial' = IndexAfter(spatial, c)
  /\ unstored' \in EventsOf(state, c)

News == {unstored'[i] : i \in DOMAIN unstored'}

Perform ==
  /\ pending # NoCommand
  /\ Apply(pending)
  /\ diary' = diary \cup News
  /\ pending' = NoCommand
  /\ UNCHANGED <<mode, seq, task, wal, snapshots, stored, failures, kept, gap, torn, missed>>

(* push_job_event drops whatever error append_job_event returns. *)
StoreEvent ==
  /\ unstored # <<>>
  /\ unstored' = Tail(unstored)
  /\ \/ /\ stored' = Insert(stored, {Head(unstored)})
        /\ UNCHANGED <<failures, missed>>
     \/ /\ Fail
        /\ missed' = missed \cup {Head(unstored)}
        /\ UNCHANGED stored
  /\ UNCHANGED <<mode, engineVars, pending, task, wal, snapshots, kept, gap, diary, torn>>

-----------------------------------------------------------------------------
(* create_snapshot, from the snapshot task or before the process exits.    *)

(* Fault: the numbers of the jobs' events are left out of the snapshot. *)
WithoutSequences == [state EXCEPT !.sequences = <<>>]

ToSnapshot == state

Due == Idle /\ seq \in SnapshotAt

WriteSnapshot ==
  /\ Due
  /\ snapshots' = With(snapshots, seq, ToSnapshot)
  /\ task' = "trim"
  /\ kept' = state
  /\ gap' = FALSE
  /\ UNCHANGED <<mode, engineVars, pending, unstored, wal, stored, failures,
                 diary, torn, missed>>

(* Fault: the log is compacted though the snapshot was not written. *)
CompactAllTheSame ==
  /\ Due
  /\ Fail
  /\ task' = "compact"
  /\ UNCHANGED <<mode, engineVars, pending, unstored, wal, snapshots, stored, ghostVars>>

(* Nothing is deleted after a statement that failed: this one ...          *)
WriteSnapshotFails ==
  /\ Due
  /\ Fail
  /\ UNCHANGED <<mode, engineVars, pending, unstored, task, wal, snapshots, stored, ghostVars>>

TrimSnapshots ==
  /\ task = "trim"
  /\ \/ /\ snapshots' = Keep(snapshots, TwoLatest(DOMAIN snapshots))
        /\ task' = "compact"
        /\ UNCHANGED failures
     \/ /\ Fail
        /\ task' = "none"
        /\ UNCHANGED snapshots
  /\ UNCHANGED <<mode, engineVars, pending, unstored, wal, stored, ghostVars>>

(* ... nor does it matter whether the log is compacted. *)
CompactWal ==
  /\ task = "compact"
  /\ task' = "none"
  /\ \/ /\ wal' = Keep(wal, WalAfter(seq))
        /\ UNCHANGED failures
     \/ /\ Fail
        /\ UNCHANGED wal
  /\ UNCHANGED <<mode, engineVars, pending, unstored, snapshots, stored, ghostVars>>

-----------------------------------------------------------------------------
(* Crash and recovery. *)

Crash ==
  /\ mode # "down"
  /\ mode' = "down"
  /\ state' = EmptyState /\ seq' = 0 /\ spatial' = EmptyIndex
  /\ pending' = NoCommand /\ unstored' = <<>> /\ task' = "none"
  /\ torn' = (torn \/ gap)
  /\ gap' = FALSE
  /\ UNCHANGED <<wal, snapshots, stored, failures, kept, diary, missed>>

(* Fault: the index of a recovered engine starts out empty. *)
NoRebuild(fleet) == EmptyIndex

(* Every driver of the snapshot is put back into the index. *)
RebuiltIndex(fleet) ==
  FoldSet(LAMBDA d, index : UpsertIntoIndex(index, d, fleet[d].position),
          EmptyIndex, DOMAIN fleet)

(* Fault: the log is read from its beginning, snapshot or not. *)
FromTheBeginning == 0

LastCovered == Latest(snapshots)

(* recover: the latest snapshot, or nothing, then the log after it. *)
Start ==
  /\ mode = "down"
  /\ mode' = "loading"
  /\ state' = LoadSnapshot
  /\ seq' = LastCovered
  /\ spatial' = RebuiltIndex(state'.drivers)
  /\ UNCHANGED <<pending, unstored, task, wal, snapshots, stored, failures, ghostVars>>

ReplayOne ==
  /\ mode = "loading" /\ unstored = <<>>
  /\ WalAfter(seq) # {}
  /\ seq' = Min(WalAfter(seq))
  /\ Apply(wal[seq'])
  /\ diary' = Insert(diary, News)
  /\ UNCHANGED <<mode, pending, task, wal, snapshots, stored, failures, kept, gap, torn, missed>>

Serve ==
  /\ mode = "loading" /\ unstored = <<>>
  /\ WalAfter(seq) = {}
  /\ mode' = "up"
  /\ UNCHANGED <<engineVars, pending, unstored, task, wal, snapshots, stored,
                 failures, ghostVars>>

-----------------------------------------------------------------------------
Init ==
  /\ mode = "down" /\ state = EmptyState /\ seq = 0 /\ spatial = EmptyIndex
  /\ pending = NoCommand /\ unstored = <<>> /\ task = "none"
  /\ wal = <<>> /\ snapshots = <<>> /\ stored = {}
  /\ failures = 0
  /\ kept = EmptyState /\ gap = FALSE /\ diary = {} /\ torn = FALSE /\ missed = {}

Next ==
  \/ \E c \in Command : AppendWal(c) \/ AppendWalFails(c)
  \/ Perform \/ StoreEvent
  \/ WriteSnapshot \/ WriteSnapshotFails \/ TrimSnapshots \/ CompactWal
  \/ Crash \/ Start \/ ReplayOne \/ Serve

Spec == Init /\ [][Next]_vars

-----------------------------------------------------------------------------
TypeOK ==
  /\ mode \in {"down", "loading", "up"}
  /\ task \in {"none", "trim", "compact"}
  /\ seq \in Nat /\ failures \in Nat
  /\ DOMAIN wal \subseteq Nat \ {0} /\ DOMAIN snapshots \subseteq Nat
  /\ gap \in BOOLEAN /\ torn \in BOOLEAN
  /\ mode # "up" => pending = NoCommand /\ task = "none"
  /\ pending # NoCommand => unstored = <<>> /\ task = "none"
  /\ task # "none" => unstored = <<>>

(* What clients know of: a command that was numbered counts, since nobody  *)
(* sees the engine before it is applied; while the process is not up, the  *)
(* state it comes up with.                                                 *)
View ==
  IF mode # "up" THEN kept
  ELSE IF pending = NoCommand THEN state
  ELSE ApplyCommand(state, pending)

Promise == INSTANCE DurableEngine WITH state <- View

(* Recovery is exact: wherever the process died, between a command's log   *)
(* entry and its effect, between a snapshot and the compaction behind it,  *)
(* or during recovery itself, it comes up with the state the last snapshot *)
(* and the log stand for; every step is one of DurableEngine or changes    *)
(* nothing a client sees.                                                  *)
ImplementsPromise == Promise!Spec

(* A failed append loses its command only if the process dies before the   *)
(* next snapshot.                                                          *)
OnlyUnkeptIsLost == Promise!OnlyUnkeptIsLost

(* Offers withdrawn by one command are cancelled in hash order, and replay *)
(* may take another: which of them a cancellation names is left out.       *)
Anonymous(event) ==
  IF event.kind = "OfferCancelled" THEN About(event.kind, NoOffer) ELSE event

Gist(row) == [job |-> row.job, sequence |-> row.sequence, event |-> Anonymous(row.event)]

Gists(rows) == {Gist(row) : row \in rows}

(* Number by number the stored timeline has the events of the commands,    *)
(* each of them once and nothing else, however often replay pushed them    *)
(* again; only insertions that failed may be missing.  This ends with the  *)
(* first command ever lost.                                                *)
TimelineSurvives ==
  (Idle /\ ~ torn) => /\ Gists(diary) \ Gists(missed) \subseteq Gists(stored)
                      /\ Gists(stored) \subseteq Gists(diary)

(* spatiad-storage/src/lib.rs: "Each variant captures all arguments needed *)
(* to replay the mutation deterministically": what replay inserts is what  *)
(* the command led to when it was executed.                                *)
ReplayIsDeterministic == (Idle /\ ~ torn) => stored \subseteq diary

(* The rebuilt index mirrors the recovered drivers, and replay keeps it so. *)
IndexSurvives == Mirrors(spatial, state.drivers)

=============================================================================
