-------------------------- MODULE DurabilityProofs --------------------------
(***************************************************************************)
(* Durability implements DurableEngine, whatever a command does to a       *)
(* state.  The argument: there is a history h of states such that h[n] is  *)
(* what the commands up to number n have led to, according to the disk:    *)
(* it begins with the latest snapshot, makes one command's step at each    *)
(* entry of the log, stands still between entries, and ends in `kept'.     *)
(* Numbers whose append failed have no entry, so nothing is said about     *)
(* one number and the next, only about one entry and the next.             *)
(*                                                                         *)
(* The same history carries the timeline: the rows of entry n are those of *)
(* its command in h[n - 1].  A command that withdraws several offers has   *)
(* several orders to push its events in, and they differ only in which     *)
(* cancellation names which offer: the rows have one list of gists, and    *)
(* replay pushes the gists that live execution pushed.  For this the       *)
(* commands need their effects typed: Data says what states, log and       *)
(* snapshots hold, Account joins all of it.                                *)
(***************************************************************************)
EXTENDS Durability, SharedLemmas, TLAPS, FiniteSetTheorems, SequenceTheorems

(* The log has no entry from p + 1 to q. *)
NoEntry(p, q) == \A m \in DOMAIN wal : ~ (p < m /\ m <= q)

FollowsLog(h) ==
  /\ h[Latest(snapshots)] = LoadSnapshot
  /\ \A p \in Nat : \A q \in DOMAIN wal :
       (Latest(snapshots) <= p /\ p < q /\ NoEntry(p, q - 1)) =>
         h[q] = ApplyCommand(h[p], wal[q])
  /\ \A p, q \in Nat :
       (Latest(snapshots) <= p /\ p <= q /\ NoEntry(p, q)) => h[q] = h[p]
  /\ \A n \in Nat : (Latest(snapshots) <= n /\ WalAfter(n) = {}) => h[n] = kept
  /\ mode = "loading" => state = h[seq]

HasLatest(keys) == keys = {} \/ \E m \in keys : \A n \in keys : n <= m

Types ==
  /\ seq \in Nat
  /\ DOMAIN wal \subseteq Nat /\ DOMAIN snapshots \subseteq Nat
  /\ HasLatest(DOMAIN snapshots)

Phases ==
  /\ mode = "loading" => Latest(snapshots) <= seq
  /\ mode = "up" => Latest(snapshots) <= seq /\ \A n \in DOMAIN wal : n <= seq
  /\ task # "none" => mode = "up" /\ Latest(snapshots) = seq
  /\ mode # "up" => pending = NoCommand /\ gap = FALSE
  /\ gap \/ kept = View

Follows(h) == Types /\ Phases /\ FollowsLog(h)

IInv == \E h : Follows(h)

-----------------------------------------------------------------------------
(* The greatest element of a set of numbers, and the least. *)
LEMMA MaxIs ==
  ASSUME NEW S \in SUBSET Nat, NEW m \in S, \A n \in S : n <= m
  PROVE  Max(S) = m
<1>1. Max(S) = CHOOSE x \in S : \A y \in S : x >= y
  BY DEF Max
<1>2. m \in S /\ \A n \in S : m >= n
  OBVIOUS
<1>3. Max(S) \in S /\ \A n \in S : Max(S) >= n
  BY <1>1, <1>2
<1>4. Max(S) \in Nat /\ m \in Nat /\ Max(S) >= m /\ m >= Max(S)
  BY <1>2, <1>3
<1> QED BY <1>4

LEMMA MinIs ==
  ASSUME NEW S \in SUBSET Nat, S # {}
  PROVE  Min(S) \in S /\ \A n \in S : Min(S) <= n
<1>1. \E m \in S : \A n \in S : m <= n
  BY HasLeast
<1>2. Min(S) = CHOOSE x \in S : \A y \in S : x <= y
  BY DEF Min
<1> QED BY <1>1, <1>2

LEMMA LatestType ==
  ASSUME Types
  PROVE  /\ Latest(snapshots) \in Nat
         /\ DOMAIN snapshots # {} => Latest(snapshots) \in DOMAIN snapshots
         /\ \A n \in DOMAIN snapshots : n <= Latest(snapshots)
<1>1. CASE DOMAIN snapshots = {}
  BY <1>1 DEF Latest
<1>2. CASE DOMAIN snapshots # {}
  <2>1. PICK m \in DOMAIN snapshots : \A n \in DOMAIN snapshots : n <= m
    BY <1>2 DEF Types, HasLatest
  <2>2. Latest(snapshots) = m
    BY <1>2, <2>1, MaxIs DEF Latest, Types
  <2> QED BY <2>1, <2>2 DEF Types
<1> QED BY <1>1, <1>2

LEMMA LatestOf ==
  ASSUME NEW table, DOMAIN table \subseteq Nat, NEW m \in DOMAIN table,
         \A n \in DOMAIN table : n <= m
  PROVE  Latest(table) = m /\ HasLatest(DOMAIN table)
<1>1. Max(DOMAIN table) = m
  BY MaxIs
<1> QED BY <1>1 DEF Latest, HasLatest

-----------------------------------------------------------------------------
LEMMA Initially == Init => IInv /\ Promise!Init
<1> SUFFICES ASSUME Init PROVE IInv /\ Promise!Init
  OBVIOUS
<1>1. /\ mode = "down" /\ seq = 0 /\ pending = NoCommand /\ task = "none"
      /\ wal = <<>> /\ snapshots = <<>> /\ kept = EmptyState /\ gap = FALSE
  BY DEF Init
<1>2. DOMAIN wal = {} /\ DOMAIN snapshots = {}
  BY <1>1
<1>3. Types
  BY <1>1, <1>2 DEF Types, HasLatest
<1>4. View = kept
  BY <1>1 DEF View
<1>5. Phases
  BY <1>1, <1>4 DEF Phases
<1>6. Latest(snapshots) = 0 /\ LoadSnapshot = EmptyState
  BY <1>2 DEF Latest, LoadSnapshot
<1>7. FollowsLog([n \in Nat |-> EmptyState])
  BY <1>1, <1>2, <1>6 DEF FollowsLog
<1>8. Promise!Init
  BY <1>1, <1>4 DEF Promise!Init
<1> QED BY <1>3, <1>5, <1>7, <1>8 DEF IInv, Follows

(* A command is numbered; it is logged, or not. *)
LEMMA LoggedStep ==
  ASSUME NEW h, Follows(h), NEW c \in Command, AppendWal(c)
  PROVE  /\ Promise!Execute(c)
         /\ \E g : /\ Follows(g)'
                   /\ \A m \in Nat : m <= seq => g[m] = h[m]
                   /\ \A m \in Nat : ~ (m <= seq) => g[m] = ApplyCommand(kept, c)
<1>1. /\ mode = "up" /\ pending = NoCommand /\ task = "none"
      /\ seq' = seq + 1 /\ pending' = c /\ mode' = mode /\ state' = state
      /\ task' = task /\ snapshots' = snapshots /\ gap' = gap
      /\ wal' = With(wal, seq + 1, c) /\ kept' = ApplyCommand(kept, c)
  BY DEF AppendWal, Number, Idle
<1>2. c # NoCommand
  BY NoCommandAssumption DEF Command
<1>3. View = state /\ View' = ApplyCommand(state, c)
  BY <1>1, <1>2 DEF View
<1>4. Types /\ Phases
  BY DEF Follows
<1>5. /\ seq \in Nat /\ seq + 1 \in Nat /\ DOMAIN wal \subseteq Nat
      /\ DOMAIN wal' = DOMAIN wal \cup {seq + 1} /\ wal'[seq + 1] = c
      /\ \A n \in DOMAIN wal : n <= seq /\ wal'[n] = wal[n]
  BY <1>1, <1>4 DEF Types, Phases, With
<1>6. Latest(snapshots) \in Nat /\ Latest(snapshots) <= seq
  BY <1>1, <1>4, LatestType DEF Phases
<1>7. Latest(snapshots)' = Latest(snapshots) /\ LoadSnapshot' = LoadSnapshot
  BY <1>1 DEF Latest, LoadSnapshot
<1>8. Types'
  BY <1>1, <1>4, <1>5 DEF Types
<1>9. Phases'
  <2>1. Latest(snapshots)' <= seq' /\ \A n \in DOMAIN wal' : n <= seq'
    BY <1>1, <1>5, <1>6, <1>7
  <2>2. gap' \/ kept' = View'
    BY <1>1, <1>3, <1>4 DEF Phases
  <2> QED BY <1>1, <2>1, <2>2 DEF Phases
<1>10. \E g : /\ FollowsLog(g)'
              /\ \A m \in Nat : m <= seq => g[m] = h[m]
              /\ \A m \in Nat : ~ (m <= seq) => g[m] = ApplyCommand(kept, c)
  <2>1. FollowsLog(h)
    BY DEF Follows
  <2>2. PICK g : /\ \A m \in Nat : m <= seq => g[m] = h[m]
                 /\ \A m \in Nat : ~ (m <= seq) => g[m] = ApplyCommand(kept, c)
    <3> DEFINE G == [m \in Nat |-> IF m <= seq THEN h[m] ELSE ApplyCommand(kept, c)]
    <3>1. /\ \A m \in Nat : m <= seq => G[m] = h[m]
          /\ \A m \in Nat : ~ (m <= seq) => G[m] = ApplyCommand(kept, c)
      OBVIOUS
    <3> HIDE DEF G
    <3> QED BY <3>1
  <2>3. g[Latest(snapshots)'] = LoadSnapshot'
    BY <1>6, <1>7, <2>1, <2>2 DEF FollowsLog
  <2>4. ASSUME NEW p \in Nat, NEW q \in DOMAIN wal',
               Latest(snapshots)' <= p, p < q, NoEntry(p, q - 1)'
        PROVE  g[q] = ApplyCommand(g[p], wal'[q])
    <3>1. NoEntry(p, q - 1)
      BY <1>5, <2>4 DEF NoEntry
    <3>2. CASE q = seq + 1
      <4>1. p <= seq /\ q - 1 = seq
        BY <1>5, <2>4, <3>2
      <4>2. WalAfter(p) = {}
        BY <1>5, <3>1, <4>1 DEF NoEntry, WalAfter
      <4>3. h[p] = kept
        BY <1>7, <2>1, <2>4, <4>2 DEF FollowsLog
      <4>4. g[p] = kept /\ g[q] = ApplyCommand(kept, c)
        BY <1>5, <2>2, <3>2, <4>1, <4>3
      <4> QED BY <1>5, <3>2, <4>4
    <3>3. CASE q # seq + 1
      <4>1. q \in DOMAIN wal /\ q <= seq /\ p <= seq /\ q \in Nat /\ wal'[q] = wal[q]
        BY <1>5, <2>4, <3>3
      <4>2. h[q] = ApplyCommand(h[p], wal[q])
        BY <1>7, <2>1, <2>4, <3>1, <4>1 DEF FollowsLog
      <4> QED BY <2>2, <4>1, <4>2
    <3> QED BY <3>2, <3>3
  <2>5. ASSUME NEW p \in Nat, NEW q \in Nat,
               Latest(snapshots)' <= p, p <= q, NoEntry(p, q)'
        PROVE  g[q] = g[p]
    <3>1. NoEntry(p, q)
      BY <1>5, <2>5 DEF NoEntry
    <3>2. CASE q <= seq
      <4>1. p <= seq
        BY <1>5, <2>5, <3>2
      <4>2. h[q] = h[p]
        BY <1>7, <2>1, <2>5, <3>1 DEF FollowsLog
      <4> QED BY <2>2, <3>2, <4>1, <4>2
    <3>3. CASE ~ (q <= seq)
      <4>1. ~ (p < seq + 1 /\ seq + 1 <= q)
        BY <1>5, <2>5 DEF NoEntry
      <4>2. ~ (p <= seq)
        BY <1>5, <3>3, <4>1
      <4> QED BY <2>2, <3>3, <4>2
    <3> QED BY <3>2, <3>3
  <2>6. ASSUME NEW n \in Nat, Latest(snapshots)' <= n, WalAfter(n)' = {}
        PROVE  g[n] = kept'
    <3>1. ~ (n < seq + 1)
      BY <1>5, <2>6 DEF WalAfter
    <3> QED BY <1>1, <1>5, <2>2, <3>1
  <2>7. mode' # "loading"
    BY <1>1
  <2>8. FollowsLog(g)'
    BY <2>3, <2>4, <2>5, <2>6, <2>7 DEF FollowsLog
  <2> QED BY <2>2, <2>8
<1>11. Promise!Execute(c)
  BY <1>1, <1>3 DEF Promise!Execute
<1> QED BY <1>8, <1>9, <1>10, <1>11 DEF Follows

LEMMA UnloggedStep ==
  ASSUME NEW h, Follows(h), NEW c \in Command, AppendWalFails(c)
  PROVE  Follows(h)' /\ Promise!ExecuteUnkept(c)
<1>1. /\ mode = "up" /\ pending = NoCommand /\ task = "none"
      /\ seq' = seq + 1 /\ pending' = c /\ mode' = mode /\ state' = state
      /\ task' = task /\ snapshots' = snapshots /\ gap' = TRUE
      /\ wal' = wal /\ kept' = kept
  BY DEF AppendWalFails, Number, Idle
<1>2. c # NoCommand
  BY NoCommandAssumption DEF Command
<1>3. View = state /\ View' = ApplyCommand(state, c)
  BY <1>1, <1>2 DEF View
<1>4. Types /\ Phases /\ Latest(snapshots) \in Nat
  BY LatestType DEF Follows
<1>5. Latest(snapshots)' = Latest(snapshots) /\ LoadSnapshot' = LoadSnapshot
  BY <1>1 DEF Latest, LoadSnapshot
<1>6. Types'
  BY <1>1, <1>4 DEF Types
<1>7. Phases'
  BY <1>1, <1>4, <1>5 DEF Types, Phases
<1>8. FollowsLog(h)'
  BY <1>1, <1>5 DEF Follows, FollowsLog, NoEntry, WalAfter
<1>9. Promise!ExecuteUnkept(c)
  BY <1>1, <1>3 DEF Promise!ExecuteUnkept
<1> QED BY <1>6, <1>7, <1>8, <1>9 DEF Follows

(* Steps that leave the disk and its meaning alone. *)
LEMMA DiskUntouched ==
  ASSUME NEW h, Follows(h), UNCHANGED <<wal, snapshots, kept>>, Types', Phases',
         mode' = "loading" => mode = "loading" /\ state' = state /\ seq' = seq
  PROVE  Follows(h)'
<1>1. Latest(snapshots)' = Latest(snapshots) /\ LoadSnapshot' = LoadSnapshot
  BY DEF Latest, LoadSnapshot
<1>2. FollowsLog(h)'
  BY <1>1 DEF Follows, FollowsLog, NoEntry, WalAfter
<1> QED BY <1>2 DEF Follows

LEMMA PerformStep == ASSUME NEW h, Follows(h), Perform PROVE Follows(h)' /\ UNCHANGED <<View, kept, gap>>
<1>1. /\ pending # NoCommand /\ pending' = NoCommand /\ state' = ApplyCommand(state, pending)
      /\ UNCHANGED <<mode, seq, task, wal, snapshots, kept, gap>>
  BY DEF Perform, Apply
<1>2. Types /\ Phases /\ mode = "up"
  BY <1>1 DEF Follows, Phases
<1>3. View' = View
  BY <1>1, <1>2 DEF View
<1>4. Latest(snapshots)' = Latest(snapshots)
  BY <1>1 DEF Latest
<1>5. Types' /\ Phases'
  BY <1>1, <1>2, <1>3, <1>4 DEF Types, Phases
<1> QED BY <1>1, <1>2, <1>3, <1>5, DiskUntouched

(* StoreEvent, WriteSnapshotFails and stuttering. *)
LEMMA ElsewhereStep ==
  ASSUME NEW h, Follows(h), UNCHANGED <<mode, state, seq, pending, task, wal, snapshots, kept, gap>>
  PROVE  Follows(h)' /\ UNCHANGED <<View, kept, gap>>
<1>1. View' = View /\ Latest(snapshots)' = Latest(snapshots)
  BY DEF View, Latest
<1>2. Types' /\ Phases'
  BY <1>1 DEF Follows, Types, Phases
<1> QED BY <1>1, <1>2, DiskUntouched

LEMMA SnapshotStep ==
  ASSUME NEW h, Follows(h), WriteSnapshot
  PROVE  /\ \E g : Follows(g)' /\ \A n \in Nat : g[n] = state
         /\ Promise!Save
<1>1. /\ mode = "up" /\ pending = NoCommand
      /\ snapshots' = With(snapshots, seq, state) /\ kept' = state /\ gap' = FALSE
      /\ UNCHANGED <<mode, state, seq, pending, wal>>
  BY DEF WriteSnapshot, Due, Idle, ToSnapshot, engineVars
<1>2. View = state /\ View' = state
  BY <1>1 DEF View
<1>3. Types /\ Phases /\ seq \in Nat /\ Latest(snapshots) <= seq
      /\ \A n \in DOMAIN wal : n \in Nat /\ n <= seq
  BY <1>1 DEF Follows, Types, Phases
<1>4. \A n \in DOMAIN snapshots : n \in Nat /\ n <= seq
  BY <1>3, LatestType DEF Types
<1>5. /\ DOMAIN snapshots' = DOMAIN snapshots \cup {seq}
      /\ snapshots'[seq] = state
  BY <1>1 DEF With
<1>6. DOMAIN snapshots' \subseteq Nat /\ \A n \in DOMAIN snapshots' : n <= seq
  BY <1>3, <1>4, <1>5
<1>7. Latest(snapshots') = seq /\ HasLatest(DOMAIN snapshots')
  BY <1>5, <1>6, LatestOf
<1>8. Latest(snapshots)' = seq /\ LoadSnapshot' = state
  BY <1>5, <1>7 DEF LoadSnapshot, Latest
<1>9. Types'
  BY <1>1, <1>3, <1>6, <1>7 DEF Types
<1>10. Phases'
  BY <1>1, <1>2, <1>3, <1>8 DEF Phases
<1>11. PICK g : FollowsLog(g)' /\ \A n \in Nat : g[n] = state
  <2>1. PICK g : \A n \in Nat : g[n] = state
    <3>1. \A n \in Nat : [m \in Nat |-> state][n] = state
      OBVIOUS
    <3> QED BY <3>1
  <2>2. \A p \in Nat, q \in DOMAIN wal : seq <= p => ~ (p < q)
    BY <1>3
  <2>3. FollowsLog(g)'
    BY <1>1, <1>3, <1>8, <2>1, <2>2 DEF FollowsLog
  <2> QED BY <2>1, <2>3
<1>12. Promise!Save
  BY <1>1, <1>2 DEF Promise!Save
<1> QED BY <1>9, <1>10, <1>11, <1>12 DEF Follows

(* Of the two latest snapshots the latest is one. *)
LEMMA TrimmedLatest ==
  ASSUME Types, snapshots' = Keep(snapshots, TwoLatest(DOMAIN snapshots))
  PROVE  /\ Latest(snapshots)' = Latest(snapshots) /\ LoadSnapshot' = LoadSnapshot
         /\ DOMAIN snapshots' \subseteq Nat /\ HasLatest(DOMAIN snapshots')
<1>1. CASE DOMAIN snapshots = {}
  <2>1. DOMAIN snapshots' = {}
    BY <1>1 DEF Keep, TwoLatest
  <2> QED BY <1>1, <2>1 DEF Latest, LoadSnapshot, HasLatest
<1>2. CASE DOMAIN snapshots # {}
  <2> DEFINE m == Latest(snapshots)
  <2>1. m \in DOMAIN snapshots /\ \A n \in DOMAIN snapshots : n \in Nat /\ n <= m
    BY <1>2, LatestType DEF Types
  <2>2. {n \in DOMAIN snapshots : n > m} = {}
    BY <2>1
  <2>3. Cardinality({n \in DOMAIN snapshots : n > m}) < 2
    BY <2>2, FS_EmptySet
  <2>4. m \in TwoLatest(DOMAIN snapshots)
    BY <2>1, <2>3 DEF TwoLatest
  <2>5. DOMAIN snapshots' \subseteq DOMAIN snapshots /\ m \in DOMAIN snapshots'
        /\ snapshots'[m] = snapshots[m]
    BY <2>4 DEF Keep, TwoLatest
  <2>6. Latest(snapshots') = m /\ HasLatest(DOMAIN snapshots')
    BY <2>1, <2>5, LatestOf
  <2>7. LoadSnapshot = snapshots[m] /\ LoadSnapshot' = snapshots'[m]
    BY <1>2, <2>5, <2>6 DEF LoadSnapshot, Latest
  <2>8. Latest(snapshots)' = Latest(snapshots')
    BY DEF Latest
  <2> QED BY <2>1, <2>5, <2>6, <2>7, <2>8
<1> QED BY <1>1, <1>2

LEMMA TrimStep == ASSUME NEW h, Follows(h), TrimSnapshots PROVE Follows(h)' /\ UNCHANGED <<View, kept, gap>>
<1>1. /\ task = "trim" /\ task' \in {"none", "compact"}
      /\ snapshots' = Keep(snapshots, TwoLatest(DOMAIN snapshots)) \/ snapshots' = snapshots
      /\ UNCHANGED <<mode, state, seq, pending, wal, kept, gap>>
  BY DEF TrimSnapshots, engineVars, ghostVars
<1>2. View' = View
  BY <1>1 DEF View
<1>3. Types /\ Phases /\ mode = "up"
  BY <1>1 DEF Follows, Phases
<1>4. Latest(snapshots)' = Latest(snapshots) /\ LoadSnapshot' = LoadSnapshot
      /\ DOMAIN snapshots' \subseteq Nat /\ HasLatest(DOMAIN snapshots')
  <2>1. CASE snapshots' = snapshots
    BY <1>3, <2>1 DEF Latest, LoadSnapshot, Types
  <2> QED BY <1>1, <1>3, <2>1, TrimmedLatest
<1>5. Types' /\ Phases'
  BY <1>1, <1>2, <1>3, <1>4 DEF Types, Phases
<1>6. FollowsLog(h)'
  BY <1>1, <1>4 DEF Follows, FollowsLog, NoEntry, WalAfter
<1> QED BY <1>1, <1>2, <1>5, <1>6 DEF Follows

(* The log ends where the snapshot does: all of it goes. *)
LEMMA CompactStep == ASSUME NEW h, Follows(h), CompactWal PROVE Follows(h)' /\ UNCHANGED <<View, kept, gap>>
<1>1. /\ task = "compact" /\ task' = "none"
      /\ wal' = Keep(wal, WalAfter(seq)) \/ wal' = wal
      /\ UNCHANGED <<mode, state, seq, pending, snapshots, kept, gap>>
  BY DEF CompactWal, engineVars, ghostVars
<1>2. View' = View /\ Latest(snapshots)' = Latest(snapshots) /\ LoadSnapshot' = LoadSnapshot
  BY <1>1 DEF View, Latest, LoadSnapshot
<1>3. Types /\ Phases /\ mode = "up" /\ Latest(snapshots) = seq /\ seq \in Nat
      /\ \A n \in DOMAIN wal : n \in Nat /\ n <= seq
  BY <1>1 DEF Follows, Phases, Types
<1>4. DOMAIN wal' \subseteq DOMAIN wal
  BY <1>1 DEF Keep, WalAfter
<1>5. Types' /\ Phases'
  BY <1>1, <1>2, <1>3, <1>4 DEF Types, Phases
<1>6. \A p \in Nat : seq <= p => \A q \in DOMAIN wal : ~ (p < q)
  BY <1>3
<1>7. \A n \in Nat : seq <= n => WalAfter(n) = {}
  BY <1>6 DEF WalAfter
<1>8. \A p, q \in Nat : seq <= p => NoEntry(p, q)
  BY <1>6 DEF NoEntry
<1>9. FollowsLog(h)
  BY DEF Follows
<1>10. FollowsLog(h)'
  <2>1. h[Latest(snapshots)'] = LoadSnapshot'
    BY <1>2, <1>9 DEF FollowsLog
  <2>2. \A p \in Nat : \A q \in DOMAIN wal' : ~ (Latest(snapshots)' <= p /\ p < q)
    BY <1>2, <1>3, <1>4, <1>6
  <2>3. \A p, q \in Nat : (Latest(snapshots)' <= p /\ p <= q) => h[q] = h[p]
    BY <1>2, <1>3, <1>8, <1>9 DEF FollowsLog
  <2>4. \A n \in Nat : Latest(snapshots)' <= n => h[n] = kept'
    BY <1>1, <1>2, <1>3, <1>7, <1>9 DEF FollowsLog
  <2>5. mode' # "loading"
    BY <1>1, <1>3
  <2> QED BY <2>1, <2>2, <2>3, <2>4, <2>5 DEF FollowsLog
<1> QED BY <1>1, <1>2, <1>5, <1>10 DEF Follows

LEMMA CrashStep == ASSUME NEW h, Follows(h), Crash PROVE Follows(h)' /\ Promise!Crash
<1>1. /\ mode' = "down" /\ seq' = 0 /\ pending' = NoCommand /\ task' = "none"
      /\ gap' = FALSE /\ UNCHANGED <<wal, snapshots, kept>>
  BY DEF Crash
<1>2. View' = kept
  BY <1>1 DEF View
<1>3. Types'
  BY <1>1 DEF Follows, Types
<1>4. Phases'
  BY <1>1, <1>2 DEF Phases
<1>5. Promise!Crash
  BY <1>1, <1>2 DEF Promise!Crash
<1> QED BY <1>1, <1>3, <1>4, <1>5, DiskUntouched

LEMMA StartStep == ASSUME NEW h, Follows(h), Start PROVE Follows(h)' /\ UNCHANGED <<View, kept, gap>>
<1>1. /\ mode = "down" /\ mode' = "loading" /\ state' = LoadSnapshot
      /\ seq' = Latest(snapshots)
      /\ UNCHANGED <<pending, task, wal, snapshots, kept, gap>>
  BY DEF Start, LastCovered, ghostVars
<1>2. Types /\ Phases /\ Latest(snapshots) \in Nat
  BY LatestType DEF Follows
<1>3. View' = View /\ Latest(snapshots)' = Latest(snapshots) /\ LoadSnapshot' = LoadSnapshot
  BY <1>1 DEF View, Latest, LoadSnapshot
<1>4. Types' /\ Phases'
  BY <1>1, <1>2, <1>3 DEF Types, Phases
<1>5. FollowsLog(h)'
  BY <1>1, <1>3 DEF Follows, FollowsLog, NoEntry, WalAfter
<1> QED BY <1>1, <1>3, <1>4, <1>5 DEF Follows

LEMMA ReplayStep == ASSUME NEW h, Follows(h), ReplayOne PROVE Follows(h)' /\ UNCHANGED <<View, kept, gap>>
<1>1. /\ mode = "loading" /\ WalAfter(seq) # {} /\ seq' = Min(WalAfter(seq))
      /\ state' = ApplyCommand(state, wal[seq'])
      /\ UNCHANGED <<mode, pending, task, wal, snapshots, kept, gap>>
  BY DEF ReplayOne, Apply
<1>2. Types /\ Phases /\ seq \in Nat /\ Latest(snapshots) \in Nat /\ Latest(snapshots) <= seq
      /\ DOMAIN wal \subseteq Nat
  BY <1>1, LatestType DEF Follows, Types, Phases
<1>3. WalAfter(seq) \in SUBSET Nat
  BY <1>2 DEF WalAfter
<1>4. seq' \in WalAfter(seq) /\ \A n \in WalAfter(seq) : seq' <= n
  BY <1>1, <1>3, MinIs
<1>5. seq' \in DOMAIN wal /\ seq' \in Nat /\ seq < seq'
  BY <1>2, <1>4 DEF WalAfter
<1>6. NoEntry(seq, seq' - 1)
  BY <1>2, <1>4, <1>5 DEF NoEntry, WalAfter
<1>7. View' = View /\ Latest(snapshots)' = Latest(snapshots) /\ LoadSnapshot' = LoadSnapshot
  BY <1>1 DEF View, Latest, LoadSnapshot
<1>8. Types' /\ Phases'
  BY <1>1, <1>2, <1>5, <1>7 DEF Types, Phases
<1>9. FollowsLog(h)
  BY DEF Follows
<1>10. state' = h[seq']
  <2>1. state = h[seq]
    BY <1>1, <1>9 DEF FollowsLog
  <2>2. h[seq'] = ApplyCommand(h[seq], wal[seq'])
    BY <1>2, <1>5, <1>6, <1>9 DEF FollowsLog
  <2> QED BY <1>1, <2>1, <2>2
<1>11. FollowsLog(h)'
  BY <1>1, <1>7, <1>9, <1>10 DEF FollowsLog, NoEntry, WalAfter
<1> QED BY <1>1, <1>7, <1>8, <1>11 DEF Follows

LEMMA ServeStep == ASSUME NEW h, Follows(h), Serve PROVE Follows(h)' /\ UNCHANGED <<View, kept, gap>>
<1>1. /\ mode = "loading" /\ WalAfter(seq) = {} /\ mode' = "up"
      /\ UNCHANGED <<state, seq, pending, task, wal, snapshots, kept, gap>>
  BY DEF Serve, engineVars, ghostVars
<1>2. Types /\ Phases /\ seq \in Nat /\ Latest(snapshots) <= seq /\ pending = NoCommand
      /\ DOMAIN wal \subseteq Nat
  BY <1>1 DEF Follows, Types, Phases
<1>3. state = kept
  BY <1>1, <1>2 DEF Follows, FollowsLog
<1>4. View = kept /\ View' = kept
  BY <1>1, <1>2, <1>3 DEF View
<1>5. \A n \in DOMAIN wal : n <= seq
  BY <1>1, <1>2 DEF WalAfter
<1>6. Latest(snapshots)' = Latest(snapshots)
  BY <1>1 DEF Latest
<1>7. Types' /\ Phases'
  BY <1>1, <1>2, <1>4, <1>5, <1>6 DEF Types, Phases
<1> QED BY <1>1, <1>4, <1>7, DiskUntouched

LEMMA EachStep == IInv /\ [Next]_vars => IInv' /\ [Promise!Next]_(Promise!vars)
<1> SUFFICES ASSUME NEW h, Follows(h), [Next]_vars
             PROVE  (\E g : Follows(g)') /\ [Promise!Next]_(Promise!vars)
  BY DEF IInv
<1>1. ASSUME NEW c \in Command, AppendWal(c) \/ AppendWalFails(c)
      PROVE  (\E g : Follows(g)') /\ Promise!Next
  BY <1>1, LoggedStep, UnloggedStep DEF Promise!Next
<1>2. CASE WriteSnapshot \/ Crash
  BY <1>2, SnapshotStep, CrashStep DEF Promise!Next
<1>3. CASE Perform \/ TrimSnapshots \/ CompactWal \/ Start \/ ReplayOne \/ Serve
  BY <1>3, PerformStep, TrimStep, CompactStep, StartStep, ReplayStep, ServeStep
     DEF Promise!vars
<1>4. CASE StoreEvent \/ WriteSnapshotFails \/ UNCHANGED vars
  <2>1. UNCHANGED <<mode, state, seq, pending, task, wal, snapshots, kept, gap>>
    BY <1>4 DEF StoreEvent, WriteSnapshotFails, vars, engineVars, ghostVars
  <2> QED BY <2>1, ElsewhereStep DEF Promise!vars
<1> QED BY <1>1, <1>2, <1>3, <1>4 DEF Next

-----------------------------------------------------------------------------
(* Every behaviour of the engine on its backend, crashes and failing       *)
(* statements included, is one of DurableEngine.                           *)
THEOREM RecoveryIsExact == Spec => ImplementsPromise
<1>1. Init => IInv /\ Promise!Init
  BY Initially
<1>2. IInv /\ [Next]_vars => IInv' /\ [Promise!Next]_(Promise!vars)
  BY EachStep
<1> QED BY <1>1, <1>2, PTL DEF Spec, ImplementsPromise, Promise!Spec

(* Nothing is lost but commands that could not be logged. *)
THEOREM NothingElseIsLost == Spec => []OnlyUnkeptIsLost
<1>1. IInv => OnlyUnkeptIsLost
  BY DEF IInv, Follows, Phases, OnlyUnkeptIsLost, Promise!OnlyUnkeptIsLost
<1>2. Init => IInv
  BY Initially
<1>3. IInv /\ [Next]_vars => IInv'
  BY EachStep
<1> QED BY <1>1, <1>2, <1>3, PTL DEF Spec

-----------------------------------------------------------------------------
(* The index of a recovered engine. *)

(* The index of some drivers of a fleet, told in one go. *)
IndexOf(fleet, s) ==
  IF s = {} THEN EmptyIndex
  ELSE [buckets |-> [c \in {CellOf[fleet[d].position] : d \in s} |->
                       {d \in s : CellOf[fleet[d].position] = c}],
        driver_cells |-> [d \in s |-> CellOf[fleet[d].position]]]

LEMMA IndexOfMirrors ==
  ASSUME NEW fleet, NEW s
  PROVE  Mirrors(IndexOf(fleet, s), [d \in s |-> fleet[d]])
<1>1. CASE s = {}
  BY <1>1 DEF IndexOf, Mirrors, EmptyIndex
<1>2. CASE s # {}
  BY <1>2 DEF IndexOf, Mirrors
<1>3. QED
  BY <1>1, <1>2

(* Putting in one driver more gives the index of one driver more. *)
LEMMA IndexGrows ==
  ASSUME NEW fleet, NEW s, NEW d \in s
  PROVE  UpsertIntoIndex(IndexOf(fleet, s \ {d}), d, fleet[d].position) = IndexOf(fleet, s)
<1> DEFINE rest == [x \in s \ {d} |-> fleet[x]]
           all == [x \in s |-> fleet[x]]
           old == IndexOf(fleet, s \ {d})
           new == UpsertIntoIndex(old, d, fleet[d].position)
<1>1. Mirrors(old, rest)
  BY IndexOfMirrors
<1>2. With(rest, d, fleet[d]) = all
  BY DEF With
<1> HIDE DEF rest, all
<1>3. Mirrors(new, all)
  BY <1>1, <1>2, UpsertMirrors
<1> HIDE DEF old
<1>4. PICK b, c : new = [buckets |-> b, driver_cells |-> c]
                  /\ b = [k \in DOMAIN b |-> b[k]] /\ c = [k \in DOMAIN c |-> c[k]]
  <2> DEFINE left == RemoveFromIndex(old, d)
             b == AddToBucket(left.buckets, CellOf[fleet[d].position], d)
             c == With(left.driver_cells, d, CellOf[fleet[d].position])
  <2>1. new = [buckets |-> b, driver_cells |-> c]
    BY DEF UpsertIntoIndex
  <2>2. b = [k \in DOMAIN b |-> b[k]] /\ c = [k \in DOMAIN c |-> c[k]]
    BY DEF AddToBucket, With
  <2>3. QED
    BY <2>1, <2>2
<1> HIDE DEF new
<1>5. new.buckets = b /\ new.driver_cells = c
  BY <1>4
<1>6. DOMAIN all = s /\ \A x \in s : all[x] = fleet[x]
  BY DEF all
<1>7. c = [x \in s |-> CellOf[fleet[x].position]]
  BY <1>3, <1>4, <1>5, <1>6 DEF Mirrors
<1>8. b = [k \in {CellOf[fleet[x].position] : x \in s} |->
             {x \in s : CellOf[fleet[x].position] = k}]
  <2>1. DOMAIN b = {CellOf[fleet[x].position] : x \in s}
    BY <1>3, <1>5, <1>6 DEF Mirrors
  <2>2. \A k \in DOMAIN b : b[k] = {x \in s : CellOf[fleet[x].position] = k}
    BY <1>3, <1>5, <1>6 DEF Mirrors
  <2>3. QED
    BY <1>4, <2>1, <2>2
<1>9. IndexOf(fleet, s) = [buckets |-> b, driver_cells |-> c]
  BY <1>7, <1>8 DEF IndexOf
<1>10. QED
  BY <1>4, <1>9 DEF new, old

(* The fold over a fleet puts in each driver: by induction on their number.*)
LEMMA RebuiltMirrors ==
  ASSUME NEW fleet, IsFiniteSet(DOMAIN fleet)
  PROVE  Mirrors(RebuiltIndex(fleet), fleet)
<1> DEFINE F == DOMAIN fleet
           Pick(s) == CHOOSE x \in s : TRUE
           Fold(g) == [s \in SUBSET F |->
                         IF s = {} THEN EmptyIndex
                         ELSE UpsertIntoIndex(g[s \ {Pick(s)}], Pick(s), fleet[Pick(s)].position)]
           iter == CHOOSE g : g = Fold(g)
           whole == [s \in SUBSET F |-> IndexOf(fleet, s)]
<1>1. RebuiltIndex(fleet) = iter[F]
  BY DEF RebuiltIndex, FoldSet, MapThenFoldSet
<1>2. \A s \in SUBSET F : s # {} =>
        /\ Pick(s) \in s
        /\ UpsertIntoIndex(IndexOf(fleet, s \ {Pick(s)}), Pick(s), fleet[Pick(s)].position)
             = IndexOf(fleet, s)
  BY IndexGrows
<1>3. IndexOf(fleet, {}) = EmptyIndex
  BY DEF IndexOf
<1> HIDE DEF Pick
<1>4. whole = Fold(whole)
  <2>1. \A s \in SUBSET F : s \ {Pick(s)} \in SUBSET F
    OBVIOUS
  <2>2. \A s \in SUBSET F : Fold(whole)[s] = IndexOf(fleet, s)
    BY <1>2, <1>3, <2>1
  <2>3. QED
    BY <2>2
<1>5. iter = Fold(iter)
  BY <1>4
<1> HIDE DEF iter
<1>6. ASSUME NEW bad \in SUBSET F, iter[bad] # IndexOf(fleet, bad)
      PROVE  FALSE
  <2> DEFINE B == {s \in SUBSET F : iter[s] # IndexOf(fleet, s)}
             N == {Cardinality(s) : s \in B}
  <2>1. \A s \in SUBSET F : IsFiniteSet(s) /\ Cardinality(s) \in Nat
    BY FS_Subset, FS_CardinalityType
  <2>2. N \subseteq Nat /\ N # {}
    BY <1>6, <2>1
  <2> HIDE DEF N
  <2>3. PICK n \in N : \A m \in N : n <= m
    BY <2>2, HasLeast
  <2> USE DEF N
  <2>4. PICK s \in B : Cardinality(s) = n
    OBVIOUS
  <2>5. iter[s] = IF s = {} THEN EmptyIndex
                  ELSE UpsertIntoIndex(iter[s \ {Pick(s)}], Pick(s), fleet[Pick(s)].position)
    BY <1>5
  <2>6. s # {} /\ Pick(s) \in s
    BY <1>2, <1>3, <2>4, <2>5
  <2>7. s \ {Pick(s)} \notin B
    <3>1. Cardinality(s \ {Pick(s)}) = Cardinality(s) - 1
      BY <2>1, <2>4, <2>6, FS_RemoveElement
    <3>2. Cardinality(s) \in Nat /\ ~ (Cardinality(s) <= Cardinality(s) - 1)
      BY <2>1, <2>4
    <3>3. QED
      BY <2>3, <2>4, <3>1, <3>2
  <2>8. iter[s \ {Pick(s)}] = IndexOf(fleet, s \ {Pick(s)})
    BY <2>4, <2>7
  <2>9. QED
    BY <1>2, <2>4, <2>5, <2>6, <2>8
<1>7. iter[F] = IndexOf(fleet, F)
  BY <1>6
<1>8. Mirrors(iter[F], [d \in F |-> fleet[d]])
  BY <1>7, IndexOfMirrors
<1>9. Mirrors(iter[F], fleet)
  <2> DEFINE f == [d \in F |-> fleet[d]]
  <2>1. DOMAIN f = DOMAIN fleet /\ \A d \in DOMAIN fleet : f[d] = fleet[d]
    OBVIOUS
  <2>2. Mirrors(iter[F], f)
    BY <1>8
  <2> HIDE DEF f
  <2>3. {CellOf[f[d].position] : d \in DOMAIN f} = {CellOf[fleet[d].position] : d \in DOMAIN fleet}
    BY <2>1
  <2>4. \A c : {d \in DOMAIN f : CellOf[f[d].position] = c}
                = {d \in DOMAIN fleet : CellOf[fleet[d].position] = c}
    BY <2>1
  <2>5. QED
    BY <2>1, <2>2, <2>3, <2>4 DEF Mirrors
<1>10. QED
  BY <1>1, <1>9

-----------------------------------------------------------------------------
(* What states are made of. *)

Maps(K, V) == UNION {[D -> V] : D \in SUBSET K}

OfferStatus == {"Pending", "Accepted", "Rejected", "Expired", "Cancelled"}

Driver == [position : DOMAIN CellOf, status : {"Available", "Busy"}]

Offer == [job : JobId, driver : DriverId, status : OfferStatus]

State ==
  {s \in [drivers : Maps(DriverId, Driver), jobs : SUBSET JobId, offers : Maps(OfferId, Offer),
          cancelled : SUBSET JobId, sequences : Maps(JobId, Nat)] :
     IsFiniteSet(DOMAIN s.drivers) /\ IsFiniteSet(DOMAIN s.offers)}

LEMMA MapForm ==
  ASSUME NEW K, NEW V, NEW f
  PROVE  f \in Maps(K, V) <=> /\ f = [k \in DOMAIN f |-> f[k]]
                              /\ DOMAIN f \subseteq K
                              /\ \A k \in DOMAIN f : f[k] \in V
<1>1. ASSUME f \in Maps(K, V)
      PROVE  /\ f = [k \in DOMAIN f |-> f[k]]
             /\ DOMAIN f \subseteq K
             /\ \A k \in DOMAIN f : f[k] \in V
  <2>1. PICK D \in SUBSET K : f \in [D -> V]
    BY <1>1 DEF Maps
  <2>2. QED
    BY <2>1
<1>2. ASSUME f = [k \in DOMAIN f |-> f[k]], DOMAIN f \subseteq K,
             \A k \in DOMAIN f : f[k] \in V
      PROVE  f \in Maps(K, V)
  <2>1. f \in [DOMAIN f -> V]
    BY <1>2
  <2>2. QED
    BY <1>2, <2>1 DEF Maps
<1>3. QED
  BY <1>1, <1>2

LEMMA WithMap ==
  ASSUME NEW K, NEW V, NEW f \in Maps(K, V), NEW k \in K, NEW v \in V
  PROVE  /\ With(f, k, v) \in Maps(K, V)
         /\ DOMAIN With(f, k, v) = DOMAIN f \cup {k}
         /\ With(f, k, v)[k] = v
         /\ \A x \in DOMAIN f : x # k => With(f, k, v)[x] = f[x]
<1>1. /\ DOMAIN With(f, k, v) = DOMAIN f \cup {k}
      /\ With(f, k, v) = [x \in DOMAIN With(f, k, v) |-> With(f, k, v)[x]]
      /\ With(f, k, v)[k] = v
      /\ \A x \in DOMAIN f : x # k => With(f, k, v)[x] = f[x]
  BY DEF With
<1>2. DOMAIN f \subseteq K /\ \A x \in DOMAIN f : f[x] \in V
  BY MapForm
<1>3. \A x \in DOMAIN With(f, k, v) : With(f, k, v)[x] \in V
  BY <1>1, <1>2
<1>4. QED
  BY <1>1, <1>2, <1>3, MapForm

LEMMA WithoutMap ==
  ASSUME NEW K, NEW V, NEW f \in Maps(K, V), NEW k
  PROVE  Without(f, k) \in Maps(K, V) /\ DOMAIN Without(f, k) \subseteq DOMAIN f
<1>1. /\ DOMAIN Without(f, k) = DOMAIN f \ {k}
      /\ Without(f, k) = [x \in DOMAIN Without(f, k) |-> Without(f, k)[x]]
      /\ \A x \in DOMAIN Without(f, k) : Without(f, k)[x] = f[x]
  BY DEF Without
<1>2. DOMAIN f \subseteq K /\ \A x \in DOMAIN f : f[x] \in V
  BY MapForm
<1>3. QED
  BY <1>1, <1>2, MapForm

(* Changing values of a map of records. *)
LEMMA ChangedMap ==
  ASSUME NEW K, NEW V, NEW f \in Maps(K, V), NEW g, DOMAIN g = DOMAIN f,
         g = [k \in DOMAIN g |-> g[k]], \A k \in DOMAIN f : g[k] \in V
  PROVE  g \in Maps(K, V)
BY MapForm

-----------------------------------------------------------------------------
(* What a command does. *)

SameFleet(fleet, later) ==
  /\ DOMAIN later = DOMAIN fleet
  /\ \A d \in DOMAIN fleet : later[d].position = fleet[d].position

Fleet(s, c, s2) ==
  \/ \E d, p : /\ c = UpsertDriverLocation(d, p)
               /\ s2.drivers = With(s.drivers, d, [position |-> p, status |-> "Available"])
  \/ \E d : c = RemoveDriver(d) /\ s2.drivers = Without(s.drivers, d)
  \/ /\ c.do \notin {"UpsertDriverLocation", "RemoveDriver"}
     /\ SameFleet(s.drivers, s2.drivers)

(* The state is s2 but for the number of events of j, which are n more.    *)
Outcome(s, c, s2, j, n, orders) ==
  /\ s2 \in State /\ s2.sequences = s.sequences
  /\ Fleet(s, c, s2)
  /\ j \in JobId /\ n \in Nat
  /\ \A order \in orders : DOMAIN order = 1..n
  /\ \A a, b \in orders : \A i \in 1..n : Anonymous(a[i]) = Anonymous(b[i])
  /\ Effect(s, c) = Told(s2, j, n, orders)

QuietOutcome(s, c, s2) ==
  /\ s2 \in State /\ s2.sequences = s.sequences
  /\ Fleet(s, c, s2)
  /\ Effect(s, c) = Quiet(s2)

HasOutcome(s, c) ==
  \/ \E s2 : QuietOutcome(s, c, s2)
  \/ \E s2, j, n, orders : Outcome(s, c, s2, j, n, orders)

LEMMA StateForm ==
  ASSUME NEW dr \in Maps(DriverId, Driver), IsFiniteSet(DOMAIN dr),
         NEW jo \in SUBSET JobId,
         NEW of \in Maps(OfferId, Offer), IsFiniteSet(DOMAIN of),
         NEW ca \in SUBSET JobId, NEW se \in Maps(JobId, Nat)
  PROVE  [drivers |-> dr, jobs |-> jo, offers |-> of, cancelled |-> ca, sequences |-> se] \in State
BY DEF State

LEMMA StateParts ==
  ASSUME NEW s \in State
  PROVE  /\ s = [drivers |-> s.drivers, jobs |-> s.jobs, offers |-> s.offers,
                 cancelled |-> s.cancelled, sequences |-> s.sequences]
         /\ s.drivers \in Maps(DriverId, Driver) /\ IsFiniteSet(DOMAIN s.drivers)
         /\ s.jobs \in SUBSET JobId
         /\ s.offers \in Maps(OfferId, Offer) /\ IsFiniteSet(DOMAIN s.offers)
         /\ s.cancelled \in SUBSET JobId /\ s.sequences \in Maps(JobId, Nat)
BY DEF State

LEMMA UpsertOutcome ==
  ASSUME NEW s \in State, NEW d \in DriverId, NEW p \in DOMAIN CellOf
  PROVE  HasOutcome(s, UpsertDriverLocation(d, p))
<1> DEFINE c == UpsertDriverLocation(d, p)
           e == [position |-> p, status |-> "Available"]
           s2 == [s EXCEPT !.drivers = With(@, d, e)]
<1>1. Effect(s, c) = Quiet(s2)
  BY DEF Effect, UpsertDriverLocation
<1>2. e \in Driver /\ s.drivers \in Maps(DriverId, Driver)
  BY StateParts DEF Driver
<1>3. /\ With(s.drivers, d, e) \in Maps(DriverId, Driver)
      /\ DOMAIN With(s.drivers, d, e) = DOMAIN s.drivers \cup {d}
  <2> HIDE DEF e
  <2>1. PICK f \in Maps(DriverId, Driver) : f = s.drivers
    BY <1>2
  <2>2. /\ With(f, d, e) \in Maps(DriverId, Driver)
        /\ DOMAIN With(f, d, e) = DOMAIN f \cup {d}
    BY <1>2, WithMap
  <2>3. QED
    BY <2>1, <2>2
<1>4. IsFiniteSet(DOMAIN With(s.drivers, d, e))
  BY <1>3, StateParts, FS_AddElement
<1>5. /\ s2 \in State /\ s2.sequences = s.sequences /\ s2.offers = s.offers
      /\ s2.drivers = With(s.drivers, d, e)
  BY <1>3, <1>4 DEF State
<1>6. QuietOutcome(s, c, s2)
  BY <1>1, <1>5 DEF QuietOutcome, Fleet
<1>7. QED
  BY <1>6 DEF HasOutcome

LEMMA RemoveOutcome ==
  ASSUME NEW s \in State, NEW d \in DriverId
  PROVE  HasOutcome(s, RemoveDriver(d))
<1> DEFINE c == RemoveDriver(d)
           s2 == [s EXCEPT !.drivers = Without(@, d)]
<1>1. Effect(s, c) = Quiet(s2)
  BY DEF Effect, RemoveDriver
<1>2. /\ Without(s.drivers, d) \in Maps(DriverId, Driver)
      /\ DOMAIN Without(s.drivers, d) \subseteq DOMAIN s.drivers
  BY StateParts, WithoutMap
<1>3. IsFiniteSet(DOMAIN Without(s.drivers, d))
  BY <1>2, StateParts, FS_Subset
<1>4. /\ s2 \in State /\ s2.sequences = s.sequences /\ s2.offers = s.offers
      /\ s2.drivers = Without(s.drivers, d)
  BY <1>2, <1>3 DEF State
<1>5. QuietOutcome(s, c, s2)
  BY <1>1, <1>4 DEF QuietOutcome, Fleet
<1>6. QED
  BY <1>5 DEF HasOutcome

(* Commands that are passed over. *)
LEMMA NoOutcome ==
  ASSUME NEW s \in State, NEW c, c.do \notin {"UpsertDriverLocation", "RemoveDriver"},
         Effect(s, c) = Quiet(s)
  PROVE  HasOutcome(s, c)
<1>1. QuietOutcome(s, c, s)
  BY DEF QuietOutcome, Fleet, SameFleet
<1>2. QED
  BY <1>1 DEF HasOutcome

(* Commands that lead to one event. *)
LEMMA OneEventOutcome ==
  ASSUME NEW s \in State, NEW c, c.do \notin {"UpsertDriverLocation", "RemoveDriver"},
         NEW s2 \in State, s2.sequences = s.sequences, s2.drivers = s.drivers,
         NEW j \in JobId, NEW x, Effect(s, c) = Told(s2, j, 1, {<<x>>})
  PROVE  HasOutcome(s, c)
<1>1. /\ \A order \in {<<x>>} : DOMAIN order = 1..1
      /\ \A a, b \in {<<x>>} : a = b
  OBVIOUS
<1>2. Outcome(s, c, s2, j, 1, {<<x>>})
  BY <1>1 DEF Outcome, Fleet, SameFleet
<1>3. QED
  BY <1>2 DEF HasOutcome

LEMMA RegisterOutcome ==
  ASSUME NEW s \in State, NEW j \in JobId
  PROVE  HasOutcome(s, RegisterJob(j))
<1> DEFINE c == RegisterJob(j)
           s2 == [s EXCEPT !.jobs = @ \cup {j}, !.cancelled = @ \ {j}]
<1>1. Effect(s, c) = Told(s2, j, 1, {<<About("JobRegistered", NoOffer)>>})
  BY DEF Effect, RegisterJob
<1>2. s2 \in State /\ s2.sequences = s.sequences /\ s2.drivers = s.drivers /\ s2.offers = s.offers
  BY DEF State
<1>3. c.do = "RegisterJob"
  BY DEF RegisterJob
<1> HIDE DEF c, s2
<1>4. QED
  BY <1>1, <1>2, <1>3, OneEventOutcome DEF c

LEMMA CreateOutcome ==
  ASSUME NEW s \in State, NEW o \in OfferId, NEW j \in JobId, NEW d \in DriverId
  PROVE  HasOutcome(s, CreateOffer(o, j, d))
<1> DEFINE c == CreateOffer(o, j, d)
           e == [job |-> j, driver |-> d, status |-> "Pending"]
           s2 == [s EXCEPT !.offers = With(@, o, e)]
<1>1. Effect(s, c) = Told(s2, j, 1, {<<About("OfferCreated", o)>>})
  BY DEF Effect, CreateOffer
<1>2. e \in Offer /\ s.offers \in Maps(OfferId, Offer)
  BY StateParts DEF Offer, OfferStatus
<1>3. /\ With(s.offers, o, e) \in Maps(OfferId, Offer)
      /\ DOMAIN With(s.offers, o, e) = DOMAIN s.offers \cup {o}
  <2> HIDE DEF e
  <2>1. PICK f \in Maps(OfferId, Offer) : f = s.offers
    BY <1>2
  <2>2. /\ With(f, o, e) \in Maps(OfferId, Offer)
        /\ DOMAIN With(f, o, e) = DOMAIN f \cup {o}
    BY <1>2, WithMap
  <2>3. QED
    BY <2>1, <2>2
<1>4. IsFiniteSet(DOMAIN With(s.offers, o, e))
  <2>1. IsFiniteSet(DOMAIN s.offers)
    BY StateParts
  <2>2. IsFiniteSet(DOMAIN s.offers \cup {o})
    BY <2>1, FS_AddElement
  <2>3. QED
    BY <1>3, <2>2
<1>5. /\ s2 \in State /\ s2.sequences = s.sequences /\ s2.drivers = s.drivers
      /\ s2.offers = With(s.offers, o, e)
  BY <1>3, <1>4 DEF State
<1>6. c.do = "CreateOffer"
  BY DEF CreateOffer
<1> HIDE DEF c, s2, e
<1>7. QED
  BY <1>1, <1>5, <1>6, OneEventOutcome DEF c

LEMMA MarkOutcome ==
  ASSUME NEW s \in State, NEW o \in OfferId, NEW status \in {"Rejected", "Expired", "Cancelled"}
  PROVE  HasOutcome(s, MarkOffer(o, status))
<1> DEFINE c == MarkOffer(o, status)
           s2 == [s EXCEPT !.offers[o].status = status]
<1>0. c.do = "MarkOffer" /\ c.offer = o /\ c.status = status
  BY DEF MarkOffer
<1>1. CASE o \notin DOMAIN s.offers
  <2>1. Effect(s, c) = Quiet(s)
    BY <1>1 DEF Effect, MarkOffer
  <2>2. QED
    BY <1>0, <2>1, NoOutcome
<1>2. CASE o \in DOMAIN s.offers
  <2>1. Effect(s, c) = Told(s2, s.offers[o].job, 1, {<<About(status, o)>>})
    BY <1>2 DEF Effect, MarkOffer
  <2> DEFINE of == [s.offers EXCEPT ![o].status = status]
  <2>2. s.offers \in Maps(OfferId, Offer) /\ IsFiniteSet(DOMAIN s.offers)
    BY StateParts
  <2>3. DOMAIN of = DOMAIN s.offers /\ of = [x \in DOMAIN of |-> of[x]]
    OBVIOUS
  <2>4. \A x \in DOMAIN s.offers : s.offers[x] \in Offer
    BY <2>2, MapForm
  <2>5. ASSUME NEW x \in DOMAIN s.offers
        PROVE  of[x] \in Offer
    BY <2>4, <2>5 DEF Offer, OfferStatus
  <2> HIDE DEF of
  <2>6. of \in Maps(OfferId, Offer)
    BY <2>2, <2>3, <2>5, ChangedMap
  <2>7. s2 = [s EXCEPT !.offers = of]
    BY StateParts DEF of
  <2>8. s2 \in State /\ s2.sequences = s.sequences /\ s2.drivers = s.drivers
    BY <2>2, <2>3, <2>6, <2>7 DEF State
  <2>9. s.offers[o].job \in JobId
    BY <1>2, <2>4 DEF Offer
  <2> HIDE DEF c, s2
  <2>10. QED
    BY <1>0, <2>1, <2>8, <2>9, OneEventOutcome DEF c
<1>3. QED
  BY <1>1, <1>2

LEMMA WebhookOutcome ==
  ASSUME NEW s \in State, NEW j \in JobId, NEW o \in OfferId
  PROVE  HasOutcome(s, RecordWebhookDeliveryFailed(j, o))
<1> DEFINE c == RecordWebhookDeliveryFailed(j, o)
<1>0. c.do = "RecordWebhookDeliveryFailed" /\ c.job = j /\ c.offer = o
  BY DEF RecordWebhookDeliveryFailed
<1>1. CASE j \notin s.jobs
  <2>1. Effect(s, c) = Quiet(s)
    BY <1>1 DEF Effect, RecordWebhookDeliveryFailed
  <2>2. QED
    BY <1>0, <2>1, NoOutcome
<1>2. CASE j \in s.jobs
  <2>1. Effect(s, c) = Told(s, j, 1, {<<About("WebhookDeliveryFailed", o)>>})
    BY <1>2 DEF Effect, RecordWebhookDeliveryFailed
  <2>2. QED
    BY <1>0, <2>1, OneEventOutcome
<1>3. QED
  BY <1>1, <1>2

-----------------------------------------------------------------------------
(* Commands that withdraw offers. *)

LEMMA CancellationOrders ==
  ASSUME NEW os, IsFiniteSet(os)
  PROVE  /\ Cardinality(os) \in Nat
         /\ \A c \in Cancellations(os) :
              /\ DOMAIN c = 1..Cardinality(os) /\ c = [i \in 1..Cardinality(os) |-> c[i]]
              /\ \A i \in 1..Cardinality(os) : c[i].kind = "OfferCancelled"
<1>1. Cardinality(os) \in Nat
  BY FS_CardinalityType
<1>2. \A f \in SetToSeqs(os) : f \in [1..Cardinality(os) -> os]
  BY DEF SetToSeqs
<1>3. ASSUME NEW f \in SetToSeqs(os), NEW c, c = [i \in DOMAIN f |-> About("OfferCancelled", f[i])]
      PROVE  /\ DOMAIN c = 1..Cardinality(os) /\ c = [i \in 1..Cardinality(os) |-> c[i]]
             /\ \A i \in 1..Cardinality(os) : c[i].kind = "OfferCancelled"
  BY <1>2, <1>3 DEF About
<1>4. QED
  BY <1>1, <1>3 DEF Cancellations

(* News after cancellations: whatever their order, what happens at each    *)
(* place is the same.                                                      *)
LEMMA NewsOrders ==
  ASSUME NEW os, IsFiniteSet(os), NEW S, NEW news \in Seq(S)
  PROVE  \A c \in Cancellations(os) :
           /\ DOMAIN (c \o news) = 1 .. Cardinality(os) + Len(news)
           /\ \A i \in 1 .. Cardinality(os) + Len(news) :
                Anonymous((c \o news)[i]) = IF i <= Cardinality(os)
                                            THEN About("OfferCancelled", NoOffer)
                                            ELSE Anonymous(news[i - Cardinality(os)])
<1>1. ASSUME NEW c \in Cancellations(os)
      PROVE  /\ DOMAIN (c \o news) = 1 .. Cardinality(os) + Len(news)
             /\ \A i \in 1 .. Cardinality(os) + Len(news) :
                  Anonymous((c \o news)[i]) = IF i <= Cardinality(os)
                                              THEN About("OfferCancelled", NoOffer)
                                              ELSE Anonymous(news[i - Cardinality(os)])
  <2> DEFINE R == S \cup {c[i] : i \in 1..Cardinality(os)}
  <2>1. /\ Cardinality(os) \in Nat /\ DOMAIN c = 1..Cardinality(os)
        /\ c = [i \in 1..Cardinality(os) |-> c[i]]
        /\ \A i \in 1..Cardinality(os) : c[i].kind = "OfferCancelled"
    BY CancellationOrders
  <2>2. \A i \in 1..Cardinality(os) : c[i] \in R
    OBVIOUS
  <2> HIDE DEF R
  <2>3. c \in Seq(R) /\ Len(c) = Cardinality(os)
    BY <2>1, <2>2
  <2>4. S \subseteq R
    BY DEF R
  <2>5. news \in Seq(R)
    BY <2>4, SeqMonotonic
  <2>6. /\ c \o news \in Seq(R) /\ Len(c \o news) = Len(c) + Len(news)
        /\ \A i \in 1 .. Len(c) + Len(news) :
             (c \o news)[i] = IF i <= Len(c) THEN c[i] ELSE news[i - Len(c)]
    BY <2>3, <2>5, ConcatProperties
  <2>7. ASSUME NEW i \in 1 .. Cardinality(os) + Len(news)
        PROVE  Anonymous((c \o news)[i]) = IF i <= Cardinality(os)
                                           THEN About("OfferCancelled", NoOffer)
                                           ELSE Anonymous(news[i - Cardinality(os)])
    <3>1. CASE i <= Cardinality(os)
      <4>1. (c \o news)[i] = c[i] /\ c[i].kind = "OfferCancelled"
        BY <2>1, <2>3, <2>6, <3>1
      <4>2. QED
        BY <3>1, <4>1 DEF Anonymous
    <3>2. CASE ~ (i <= Cardinality(os))
      BY <2>3, <2>6, <3>2
    <3>3. QED
      BY <3>1, <3>2
  <2>8. QED
    BY <2>3, <2>6, <2>7
<1>2. QED
  BY <1>1

LEMMA CancelledOffers ==
  ASSUME NEW f \in Maps(OfferId, Offer), NEW os
  PROVE  Cancelled(f, os) \in Maps(OfferId, Offer) /\ DOMAIN Cancelled(f, os) = DOMAIN f
<1> DEFINE g == Cancelled(f, os)
<1>1. DOMAIN g = DOMAIN f /\ g = [o \in DOMAIN g |-> g[o]]
      /\ \A o \in DOMAIN f : g[o] = IF o \in os THEN [f[o] EXCEPT !.status = "Cancelled"] ELSE f[o]
  BY DEF Cancelled
<1> HIDE DEF g
<1>2. \A o \in DOMAIN f : f[o] \in Offer
  BY MapForm
<1>3. \A o \in DOMAIN f : g[o] \in Offer
  BY <1>1, <1>2 DEF Offer, OfferStatus
<1>4. g \in Maps(OfferId, Offer)
  BY <1>1, <1>3, ChangedMap
<1>5. QED
  BY <1>1, <1>4 DEF g

LEMMA PendingOffers ==
  ASSUME NEW s \in State, NEW j
  PROVE  Pending(s, j) \subseteq DOMAIN s.offers /\ IsFiniteSet(Pending(s, j))
<1>1. Pending(s, j) \subseteq DOMAIN s.offers
  BY DEF Pending
<1>2. QED
  BY <1>1, StateParts, FS_Subset

(* Cancellations, then news that is the same in every order. *)
LEMMA WithdrawalOutcome ==
  ASSUME NEW s \in State, NEW c, c.do \notin {"UpsertDriverLocation", "RemoveDriver"},
         NEW s2 \in State, s2.sequences = s.sequences, SameFleet(s.drivers, s2.drivers),
         NEW j \in JobId, NEW os \in SUBSET Pending(s, j), NEW S, NEW news \in Seq(S),
         NEW n, n = Cardinality(os) + Len(news),
         Effect(s, c) = Told(s2, j, n, {k \o news : k \in Cancellations(os)})
  PROVE  HasOutcome(s, c)
<1> DEFINE orders == {k \o news : k \in Cancellations(os)}
<1>1. IsFiniteSet(os)
  BY PendingOffers, FS_Subset
<1>2. Cardinality(os) \in Nat /\ n \in Nat
  BY <1>1, FS_CardinalityType
<1>3. \A order \in orders : DOMAIN order = 1..n
  BY <1>1, NewsOrders
<1>4. \A a, b \in orders : \A i \in 1..n : Anonymous(a[i]) = Anonymous(b[i])
  <2>1. PICK gist : \A i \in 1..n : gist[i] = IF i <= Cardinality(os)
                                              THEN About("OfferCancelled", NoOffer)
                                              ELSE Anonymous(news[i - Cardinality(os)])
    <3> DEFINE G == [i \in 1..n |-> IF i <= Cardinality(os)
                                    THEN About("OfferCancelled", NoOffer)
                                    ELSE Anonymous(news[i - Cardinality(os)])]
    <3>1. \A i \in 1..n : G[i] = IF i <= Cardinality(os)
                                  THEN About("OfferCancelled", NoOffer)
                                  ELSE Anonymous(news[i - Cardinality(os)])
      OBVIOUS
    <3> HIDE DEF G
    <3>2. QED
      BY <3>1
  <2>2. \A k \in Cancellations(os) : \A i \in 1..n : Anonymous((k \o news)[i]) = gist[i]
    BY <1>1, <2>1, NewsOrders
  <2> HIDE DEF orders
  <2>3. \A a \in orders : \A i \in 1..n : Anonymous(a[i]) = gist[i]
    BY <2>2 DEF orders
  <2>4. QED
    BY <2>3
<1>5. Effect(s, c) = Told(s2, j, n, orders)
  OBVIOUS
<1> HIDE DEF orders
<1>6. Outcome(s, c, s2, j, n, orders)
  BY <1>2, <1>3, <1>4, <1>5 DEF Outcome, Fleet
<1>7. QED
  BY <1>6 DEF HasOutcome

LEMMA CancelOutcome ==
  ASSUME NEW s \in State, NEW j \in JobId
  PROVE  HasOutcome(s, CancelJob(j))
<1> DEFINE c == CancelJob(j)
<1>0. c.do = "CancelJob" /\ c.job = j
  BY DEF CancelJob
<1>1. CASE j \notin s.jobs
  <2>1. Effect(s, c) = Quiet(s)
    BY <1>1 DEF Effect, CancelJob
  <2>2. QED
    BY <1>0, <2>1, NoOutcome
<1>2. CASE j \in s.jobs
  <2> DEFINE os == Pending(s, j)
             news == IF j \in s.cancelled THEN <<>> ELSE <<About("JobCancelled", NoOffer)>>
             of == Cancelled(s.offers, os)
             s2 == [s EXCEPT !.offers = of, !.cancelled = @ \cup {j}]
             n == Cardinality(os) + Len(news)
             S == {About("JobCancelled", NoOffer)}
  <2>1. Effect(s, c) = Told(s2, j, n, {k \o news : k \in Cancellations(os)})
    <3>1. Effect(s, c) = Cancel(s, j)
      BY <1>2 DEF Effect, CancelJob
    <3>2. QED
      BY <3>1 DEF Cancel
  <2>2. news \in Seq(S)
    <3>1. <<>> \in Seq(S) /\ <<About("JobCancelled", NoOffer)>> \in Seq(S)
      OBVIOUS
    <3>2. news \in {<<>>, <<About("JobCancelled", NoOffer)>>}
      BY ZenonT(20)
    <3> HIDE DEF news, S
    <3>3. QED
      BY <3>1, <3>2
  <2>3. s.offers \in Maps(OfferId, Offer) /\ IsFiniteSet(DOMAIN s.offers)
    BY StateParts
  <2> HIDE DEF news, os, n
  <2>4. of \in Maps(OfferId, Offer) /\ DOMAIN of = DOMAIN s.offers
    <3>1. PICK f \in Maps(OfferId, Offer) : f = s.offers
      BY <2>3
    <3>2. Cancelled(f, os) \in Maps(OfferId, Offer) /\ DOMAIN Cancelled(f, os) = DOMAIN f
      BY CancelledOffers
    <3>3. QED
      BY <3>1, <3>2
  <2> HIDE DEF of
  <2>5. s2 \in State /\ s2.sequences = s.sequences /\ s2.drivers = s.drivers
    BY <2>3, <2>4 DEF State
  <2> HIDE DEF c, s2, S
  <2>6. SameFleet(s.drivers, s2.drivers)
    BY <2>5 DEF SameFleet
  <2>7. os \in SUBSET Pending(s, j) /\ n = Cardinality(os) + Len(news)
    BY DEF os, n
  <2>8. c.do \notin {"UpsertDriverLocation", "RemoveDriver"}
    BY <1>0
  <2>9. HasOutcome(s, c)
    BY <2>1, <2>2, <2>5, <2>6, <2>7, <2>8, WithdrawalOutcome
  <2>10. QED
    BY <2>9 DEF c
<1>3. QED
  BY <1>1, <1>2

LEMMA AcceptOutcome ==
  ASSUME NEW s \in State, NEW o \in OfferId
  PROVE  HasOutcome(s, AcceptOffer(o))
<1> DEFINE c == AcceptOffer(o)
<1>0. c.do = "AcceptOffer" /\ c.offer = o
  BY DEF AcceptOffer
<1>1. CASE o \notin DOMAIN s.offers
  <2>1. Effect(s, c) = Quiet(s)
    BY <1>1 DEF Effect, AcceptOffer
  <2>2. QED
    BY <1>0, <2>1, NoOutcome
<1>2. CASE o \in DOMAIN s.offers
  <2> DEFINE j == s.offers[o].job
             dr == s.offers[o].driver
             os == Pending(s, j) \ {o}
             of == Cancelled(s.offers, os)
             settled == [of EXCEPT ![o].status = "Accepted"]
             busy == IF dr \in DOMAIN s.drivers
                     THEN [s.drivers EXCEPT ![dr].status = "Busy"] ELSE s.drivers
             news == <<About("OfferAccepted", o), About("MatchConfirmed", o)>>
             s2 == [s EXCEPT !.offers = settled, !.drivers = busy]
             n == Cardinality(os) + 2
             S == {About("OfferAccepted", o), About("MatchConfirmed", o)}
  <2>1. Effect(s, c) = Told(s2, j, n, {k \o news : k \in Cancellations(os)})
    <3>1. Effect(s, c) = Accept(s, o)
      BY <1>2 DEF Effect, AcceptOffer
    <3>2. QED
      BY <3>1 DEF Accept
  <2>2. news \in Seq(S) /\ Len(news) = 2
    OBVIOUS
  <2>3. s.offers \in Maps(OfferId, Offer) /\ IsFiniteSet(DOMAIN s.offers)
        /\ s.drivers \in Maps(DriverId, Driver) /\ IsFiniteSet(DOMAIN s.drivers)
    BY StateParts
  <2>4. os \in SUBSET Pending(s, j)
    OBVIOUS
  <2>5. j \in JobId
    <3>1. s.offers[o] \in Offer
      BY <1>2, <2>3, MapForm
    <3>2. QED
      BY <3>1 DEF Offer
  <2>6. /\ busy \in Maps(DriverId, Driver) /\ DOMAIN busy = DOMAIN s.drivers
        /\ \A x \in DOMAIN s.drivers : busy[x].position = s.drivers[x].position
    <3>1. \A x \in DOMAIN s.drivers : s.drivers[x] \in Driver
      BY <2>3, MapForm
    <3>2. /\ DOMAIN busy = DOMAIN s.drivers /\ busy = [x \in DOMAIN busy |-> busy[x]]
          /\ \A x \in DOMAIN s.drivers : busy[x] \in Driver
                                         /\ busy[x].position = s.drivers[x].position
      <4>1. CASE dr \in DOMAIN s.drivers
        BY <3>1, <4>1 DEF Driver
      <4>2. CASE dr \notin DOMAIN s.drivers
        <5>1. s.drivers = [x \in DOMAIN s.drivers |-> s.drivers[x]]
          BY <2>3, MapForm
        <5>2. QED
          BY <3>1, <4>2, <5>1
      <4>3. QED
        BY <4>1, <4>2
    <3> HIDE DEF busy
    <3>3. QED
      BY <2>3, <3>2, ChangedMap
  <2> HIDE DEF os, news
  <2>7. of \in Maps(OfferId, Offer) /\ DOMAIN of = DOMAIN s.offers
    <3>1. PICK f \in Maps(OfferId, Offer) : f = s.offers
      BY <2>3
    <3>2. Cancelled(f, os) \in Maps(OfferId, Offer) /\ DOMAIN Cancelled(f, os) = DOMAIN f
      BY CancelledOffers
    <3>3. QED
      BY <3>1, <3>2
  <2> HIDE DEF of
  <2>8. settled \in Maps(OfferId, Offer) /\ DOMAIN settled = DOMAIN s.offers
    <3>1. \A x \in DOMAIN s.offers : of[x] \in Offer
      BY <2>7, MapForm
    <3>2. /\ DOMAIN settled = DOMAIN of /\ settled = [x \in DOMAIN settled |-> settled[x]]
          /\ \A x \in DOMAIN of : settled[x] \in Offer
      BY <2>7, <3>1 DEF Offer, OfferStatus
    <3> HIDE DEF settled
    <3>3. settled \in Maps(OfferId, Offer)
      BY <2>7, <3>2, ChangedMap
    <3>4. QED
      BY <2>7, <3>2, <3>3
  <2> HIDE DEF settled, busy
  <2>9. s2 \in State /\ s2.sequences = s.sequences /\ s2.drivers = busy
    BY <2>3, <2>6, <2>8 DEF State
  <2> HIDE DEF c, s2, S, j
  <2>10. SameFleet(s.drivers, s2.drivers)
    BY <2>6, <2>9 DEF SameFleet
  <2>11. n = Cardinality(os) + Len(news)
    BY <2>2
  <2> HIDE DEF n
  <2>12. c.do \notin {"UpsertDriverLocation", "RemoveDriver"}
    BY <1>0
  <2>13. HasOutcome(s, c)
    <3>1. j \in JobId /\ os \in SUBSET Pending(s, j) /\ news \in Seq(S) /\ s2 \in State
          /\ s2.sequences = s.sequences
      BY <2>2, <2>4, <2>5, <2>9
    <3>2. QED
      BY <2>1, <2>10, <2>11, <2>12, <3>1, WithdrawalOutcome
  <2>14. QED
    BY <2>13 DEF c
<1>3. QED
  BY <1>1, <1>2

LEMMA CommandOutcome ==
  ASSUME NEW s \in State, NEW c \in Command
  PROVE  HasOutcome(s, c)
<1>1. ASSUME NEW d \in DriverId, NEW p \in DOMAIN CellOf, c = UpsertDriverLocation(d, p)
      PROVE  HasOutcome(s, c)
  BY <1>1, UpsertOutcome
<1>2. ASSUME NEW d \in DriverId, c = RemoveDriver(d)
      PROVE  HasOutcome(s, c)
  BY <1>2, RemoveOutcome
<1>3. ASSUME NEW j \in JobId, c = RegisterJob(j) \/ c = CancelJob(j)
      PROVE  HasOutcome(s, c)
  BY <1>3, RegisterOutcome, CancelOutcome
<1>4. ASSUME NEW o \in OfferId, NEW j \in JobId, NEW d \in DriverId, c = CreateOffer(o, j, d)
      PROVE  HasOutcome(s, c)
  BY <1>4, CreateOutcome
<1>5. ASSUME NEW o \in OfferId, c = AcceptOffer(o)
      PROVE  HasOutcome(s, c)
  BY <1>5, AcceptOutcome
<1>6. ASSUME NEW o \in OfferId, NEW status \in {"Rejected", "Expired", "Cancelled"},
             c = MarkOffer(o, status)
      PROVE  HasOutcome(s, c)
  BY <1>6, MarkOutcome
<1>7. ASSUME NEW j \in JobId, NEW o \in OfferId, c = RecordWebhookDeliveryFailed(j, o)
      PROVE  HasOutcome(s, c)
  BY <1>7, WebhookOutcome
<1>8. QED
  BY <1>1, <1>2, <1>3, <1>4, <1>5, <1>6, <1>7 DEF Command, Commands

-----------------------------------------------------------------------------
(* What applying a command does, from any state. *)
LEMMA CountType ==
  ASSUME NEW s \in State, NEW j
  PROVE  Count(s, j) \in Nat
<1>1. s.sequences \in Maps(JobId, Nat)
  BY StateParts
<1>2. \A k \in DOMAIN s.sequences : s.sequences[k] \in Nat
  BY <1>1, MapForm
<1>3. QED
  BY <1>2 DEF Count

LEMMA ToldState ==
  ASSUME NEW s \in State, NEW j \in JobId, NEW n \in Nat, NEW orders
  PROVE  /\ Told(s, j, n, orders).state \in State
         /\ Told(s, j, n, orders).state.drivers = s.drivers
         /\ Told(s, j, n, orders).state.offers = s.offers
         /\ Told(s, j, n, orders).job = j /\ Told(s, j, n, orders).orders = orders
         /\ \A k : Count(Told(s, j, n, orders).state, k) = Count(s, k) + (IF k = j THEN n ELSE 0)
<1> DEFINE t == Told(s, j, n, orders)
           v == Count(s, j) + n
           se == With(s.sequences, j, v)
<1>1. t.state = [s EXCEPT !.sequences = se] /\ t.job = j /\ t.orders = orders
  BY DEF Told
<1>2. v \in Nat /\ s.sequences \in Maps(JobId, Nat)
  BY CountType, StateParts
<1>3. se \in Maps(JobId, Nat)
  <2>1. PICK f \in Maps(JobId, Nat) : f = s.sequences
    BY <1>2
  <2> HIDE DEF v
  <2>2. With(f, j, v) \in Maps(JobId, Nat)
    BY <1>2, WithMap
  <2>3. QED
    BY <2>1, <2>2
<1>4. /\ DOMAIN se = DOMAIN s.sequences \cup {j} /\ se[j] = v
      /\ \A x \in DOMAIN s.sequences : x # j => se[x] = s.sequences[x]
  BY DEF With
<1> HIDE DEF se, t
<1>5. /\ t.state \in State /\ t.state.drivers = s.drivers /\ t.state.offers = s.offers
      /\ t.state.sequences = se
  BY <1>1, <1>3 DEF State
<1>6. ASSUME NEW k PROVE Count(t.state, k) = Count(s, k) + (IF k = j THEN n ELSE 0)
  <2>1. Count(s, k) \in Nat
    BY CountType
  <2>2. CASE k = j
    BY <1>4, <1>5, <2>2 DEF Count
  <2>3. CASE k # j
    <3>1. Count(t.state, k) = Count(s, k)
      BY <1>4, <1>5, <2>3 DEF Count
    <3>2. QED
      BY <2>1, <2>3, <3>1
  <2>4. QED
    BY <2>2, <2>3
<1>7. QED
  BY <1>1, <1>5, <1>6 DEF t

(* A command leads to a state, and numbers its events on from the last.    *)
LEMMA Applied ==
  ASSUME NEW s \in State, NEW c \in Command
  PROVE  /\ ApplyCommand(s, c) \in State
         /\ Fleet(s, c, ApplyCommand(s, c))
         /\ \A k : Count(s, k) <= Count(ApplyCommand(s, c), k)
<1>1. ASSUME NEW s2, QuietOutcome(s, c, s2)
      PROVE  /\ ApplyCommand(s, c) \in State
             /\ Fleet(s, c, ApplyCommand(s, c))
             /\ \A k : Count(s, k) <= Count(ApplyCommand(s, c), k)
  <2>1. ApplyCommand(s, c) = s2
    BY <1>1 DEF QuietOutcome, ApplyCommand, Quiet
  <2>2. \A k : Count(s2, k) = Count(s, k) /\ Count(s, k) \in Nat
    BY <1>1, CountType DEF QuietOutcome, Count
  <2>3. QED
    BY <1>1, <2>1, <2>2 DEF QuietOutcome
<1>2. ASSUME NEW s2, NEW j, NEW n, NEW orders, Outcome(s, c, s2, j, n, orders)
      PROVE  /\ ApplyCommand(s, c) \in State
             /\ Fleet(s, c, ApplyCommand(s, c))
             /\ \A k : Count(s, k) <= Count(ApplyCommand(s, c), k)
  <2>1. s2 \in State /\ j \in JobId /\ n \in Nat /\ s2.sequences = s.sequences
    BY <1>2 DEF Outcome
  <2>2. PICK t : t = ApplyCommand(s, c)
    OBVIOUS
  <2>3. t = Told(s2, j, n, orders).state
    BY <1>2, <2>2 DEF Outcome, ApplyCommand
  <2>4. /\ t \in State /\ t.drivers = s2.drivers
        /\ \A k : Count(t, k) = Count(s2, k) + (IF k = j THEN n ELSE 0)
    BY <2>1, <2>3, ToldState
  <2>5. \A k : Count(s2, k) = Count(s, k) /\ Count(s, k) \in Nat
    BY <2>1, CountType DEF Count
  <2>6. \A k : Count(s, k) <= Count(t, k)
    BY <2>1, <2>4, <2>5
  <2>7. Fleet(s, c, t)
    BY <1>2, <2>4 DEF Outcome, Fleet
  <2>8. QED
    BY <2>2, <2>4, <2>6, <2>7
<1>3. QED
  BY <1>1, <1>2, CommandOutcome DEF HasOutcome

-----------------------------------------------------------------------------
(* The gists of the rows a command may lead to. *)
RowsOf(s, c) == UNION {{Gist(f[i]) : i \in DOMAIN f} : f \in EventsOf(s, c)}

LEMMA Rows ==
  ASSUME NEW s \in State, NEW c \in Command, NEW f \in EventsOf(s, c)
  PROVE  \E n \in Nat, j \in JobId \cup {NoOffer} :
           /\ DOMAIN f = 1..n /\ f = [i \in 1..n |-> f[i]]
           /\ \A i \in 1..n : /\ f[i].job = j /\ j \in JobId
                              /\ f[i].sequence = Count(s, j) + i
                              /\ Count(s, j) + i <= Count(ApplyCommand(s, c), j)
           /\ \A g \in EventsOf(s, c) : /\ DOMAIN g = 1..n
                                         /\ \A i \in 1..n : Gist(g[i]) = Gist(f[i])
<1>1. ASSUME NEW s2, QuietOutcome(s, c, s2)
      PROVE  /\ DOMAIN f = 1..0 /\ f = [i \in 1..0 |-> f[i]]
             /\ \A g \in EventsOf(s, c) : g = f
  <2>1. Effect(s, c) = Quiet(s2)
    BY <1>1 DEF QuietOutcome
  <2>2. PICK empty : empty = <<>>
    OBVIOUS
  <2>3. \A i : i \notin DOMAIN empty
    BY <2>2
  <2>4. Effect(s, c).orders = {empty}
    BY <2>1, <2>2 DEF Quiet
  <2>5. \A g \in EventsOf(s, c) : g = [i \in DOMAIN empty |->
           [job |-> Effect(s, c).job, sequence |-> Count(s, Effect(s, c).job) + i,
            event |-> empty[i]]]
    BY <2>4 DEF EventsOf
  <2>6. DOMAIN f = {} /\ \A g \in EventsOf(s, c) : DOMAIN g = {} /\ g = f
    BY <2>3, <2>5
  <2>7. 1..0 = {}
    OBVIOUS
  <2>8. f = [i \in {} |-> f[i]]
    BY <2>3, <2>5, <2>6
  <2>9. QED
    BY <2>6, <2>7, <2>8
<1>2. ASSUME NEW s2, NEW j, NEW n, NEW orders, Outcome(s, c, s2, j, n, orders)
      PROVE  /\ n \in Nat /\ j \in JobId
             /\ DOMAIN f = 1..n /\ f = [i \in 1..n |-> f[i]]
             /\ \A i \in 1..n : /\ f[i].job = j
                                /\ f[i].sequence = Count(s, j) + i
                                /\ Count(s, j) + i <= Count(ApplyCommand(s, c), j)
             /\ \A g \in EventsOf(s, c) : /\ DOMAIN g = 1..n
                                           /\ \A i \in 1..n : Gist(g[i]) = Gist(f[i])
  <2>1. /\ s2 \in State /\ j \in JobId /\ n \in Nat /\ s2.sequences = s.sequences
        /\ Effect(s, c) = Told(s2, j, n, orders)
        /\ \A order \in orders : DOMAIN order = 1..n
        /\ \A a, b \in orders : \A i \in 1..n : Anonymous(a[i]) = Anonymous(b[i])
    BY <1>2 DEF Outcome
  <2>2. /\ Effect(s, c).job = j /\ Effect(s, c).orders = orders
        /\ Count(Effect(s, c).state, j) = Count(s2, j) + n
    BY <2>1, ToldState
  <2>3. Count(ApplyCommand(s, c), j) = Count(s, j) + n /\ Count(s, j) \in Nat
    BY <2>1, <2>2, CountType DEF ApplyCommand, Count
  <2> DEFINE row(order) == [i \in DOMAIN order |->
                              [job |-> j, sequence |-> Count(s, j) + i, event |-> order[i]]]
  <2>4. EventsOf(s, c) = {row(order) : order \in orders}
    BY <2>2 DEF EventsOf
  <2>5. PICK order \in orders : f = row(order)
    BY <2>4
  <2>6. DOMAIN f = 1..n /\ f = [i \in 1..n |-> f[i]]
        /\ \A i \in 1..n : f[i].job = j /\ f[i].sequence = Count(s, j) + i
    BY <2>1, <2>5
  <2>7. \A i \in 1..n : Count(s, j) + i <= Count(ApplyCommand(s, c), j)
    BY <2>1, <2>3
  <2>8. ASSUME NEW g \in EventsOf(s, c)
        PROVE  DOMAIN g = 1..n /\ \A i \in 1..n : Gist(g[i]) = Gist(f[i])
    <3>1. PICK other \in orders : g = row(other)
      BY <2>4
    <3>2. DOMAIN order = 1..n /\ DOMAIN other = 1..n
          /\ \A i \in 1..n : Anonymous(order[i]) = Anonymous(other[i])
      BY <2>1
    <3>3. QED
      BY <2>5, <3>1, <3>2 DEF Gist
  <2>9. QED
    BY <2>1, <2>6, <2>7, <2>8
<1>3. CASE \E s2 : QuietOutcome(s, c, s2)
  <2>1. /\ DOMAIN f = 1..0 /\ f = [i \in 1..0 |-> f[i]]
        /\ \A g \in EventsOf(s, c) : g = f
    BY <1>1, <1>3
  <2>2. 0 \in Nat /\ NoOffer \in JobId \cup {NoOffer} /\ \A i \in 1..0 : FALSE
    OBVIOUS
  <2>3. QED
    BY <2>1, <2>2
<1>4. CASE \E s2, j, n, orders : Outcome(s, c, s2, j, n, orders)
  <2>1. PICK s2, j, n, orders : Outcome(s, c, s2, j, n, orders)
    BY <1>4
  <2>2. /\ n \in Nat /\ j \in JobId
        /\ DOMAIN f = 1..n /\ f = [i \in 1..n |-> f[i]]
        /\ \A i \in 1..n : /\ f[i].job = j
                           /\ f[i].sequence = Count(s, j) + i
                           /\ Count(s, j) + i <= Count(ApplyCommand(s, c), j)
        /\ \A g \in EventsOf(s, c) : /\ DOMAIN g = 1..n
                                      /\ \A i \in 1..n : Gist(g[i]) = Gist(f[i])
    BY <1>2, <2>1
  <2>3. QED
    BY <2>2
<1>5. QED
  BY <1>3, <1>4, CommandOutcome DEF HasOutcome

(* They are the gists of the rows in any order. *)
LEMMA RowsAre ==
  ASSUME NEW s \in State, NEW c \in Command, NEW f \in EventsOf(s, c)
  PROVE  RowsOf(s, c) = {Gist(f[i]) : i \in DOMAIN f}
<1>1. PICK n \in Nat :
        /\ DOMAIN f = 1..n
        /\ \A g \in EventsOf(s, c) : DOMAIN g = 1..n /\ \A i \in 1..n : Gist(g[i]) = Gist(f[i])
  BY Rows
<1>2. \A g \in EventsOf(s, c) : {Gist(g[i]) : i \in DOMAIN g} = {Gist(f[i]) : i \in DOMAIN f}
  BY <1>1
<1>3. QED
  BY <1>2 DEF RowsOf

LEMMA SomeRows ==
  ASSUME NEW s \in State, NEW c \in Command, NEW f \in EventsOf(s, c), NEW D,
         \A i \in DOMAIN f : f[i] \in D
  PROVE  f \in Seq(D)
<1>1. PICK n \in Nat : DOMAIN f = 1..n /\ f = [i \in 1..n |-> f[i]]
  BY Rows
<1>2. [i \in 1..n |-> f[i]] \in Seq(D)
  BY <1>1
<1>3. QED
  BY <1>1, <1>2

-----------------------------------------------------------------------------
(* The data: what the engine, the log and the snapshots hold. *)
Data ==
  /\ state \in State /\ kept \in State
  /\ \A n \in DOMAIN snapshots : snapshots[n] \in State
  /\ \A n \in DOMAIN wal : wal[n] \in Command
  /\ pending \in Command \cup {NoCommand}

LEMMA EmptyStateType == EmptyState \in State /\ DOMAIN EmptyState.drivers = {}
<1>1. \A K, V : <<>> \in Maps(K, V)
  <2> SUFFICES ASSUME NEW K, NEW V PROVE <<>> \in Maps(K, V)
    OBVIOUS
  <2>1. PICK empty : empty = <<>>
    OBVIOUS
  <2>2. DOMAIN empty = {} /\ empty = [x \in {} |-> empty[x]]
    BY <2>1
  <2>3. empty \in Maps(K, V)
    BY <2>2, MapForm
  <2>4. QED
    BY <2>1, <2>3
<1>2. DOMAIN <<>> = {} /\ IsFiniteSet(DOMAIN <<>>)
  BY FS_EmptySet
<1>3. PICK empty : empty = <<>> /\ DOMAIN empty = {} /\ IsFiniteSet(DOMAIN empty)
                   /\ \A K, V : empty \in Maps(K, V)
  BY <1>1, <1>2
<1>4. EmptyState = [drivers |-> empty, jobs |-> {}, offers |-> empty, cancelled |-> {},
                    sequences |-> empty]
  BY <1>3 DEF EmptyState
<1>5. EmptyState \in State
  BY <1>3, <1>4, StateForm
<1>6. QED
  BY <1>3, <1>4, <1>5

LEMMA IndexFollows ==
  ASSUME NEW s \in State, NEW c \in Command, NEW index, Mirrors(index, s.drivers)
  PROVE  Mirrors(IndexAfter(index, c), ApplyCommand(s, c).drivers)
<1>1. PICK s2 : s2 = ApplyCommand(s, c) /\ Fleet(s, c, s2)
  BY Applied
<1>2. ASSUME NEW d, NEW p, c = UpsertDriverLocation(d, p),
             s2.drivers = With(s.drivers, d, [position |-> p, status |-> "Available"])
      PROVE  Mirrors(IndexAfter(index, c), s2.drivers)
  <2> DEFINE report == [position |-> p, status |-> "Available"]
  <2>1. IndexAfter(index, c) = UpsertIntoIndex(index, d, report.position)
    BY <1>2 DEF IndexAfter, UpsertDriverLocation
  <2> HIDE DEF report
  <2>2. Mirrors(UpsertIntoIndex(index, d, report.position), With(s.drivers, d, report))
    BY UpsertMirrors
  <2>3. QED
    BY <1>2, <2>1, <2>2 DEF report
<1>3. ASSUME NEW d, c = RemoveDriver(d), s2.drivers = Without(s.drivers, d)
      PROVE  Mirrors(IndexAfter(index, c), s2.drivers)
  <2>1. IndexAfter(index, c) = RemoveFromIndex(index, d)
    BY <1>3 DEF IndexAfter, RemoveDriver
  <2>2. QED
    BY <1>3, <2>1, RemovalMirrors
<1>4. ASSUME c.do \notin {"UpsertDriverLocation", "RemoveDriver"}, SameFleet(s.drivers, s2.drivers)
      PROVE  Mirrors(IndexAfter(index, c), s2.drivers)
  <2>1. IndexAfter(index, c) = index
    BY <1>4 DEF IndexAfter
  <2>2. Mirrors(index, s2.drivers)
    BY <1>4 DEF Mirrors, SameFleet
  <2>3. QED
    BY <2>1, <2>2
<1>5. QED
  BY <1>1, <1>2, <1>3, <1>4 DEF Fleet

-----------------------------------------------------------------------------
LEMMA DataAtFirst == Init => Data /\ TypeOK /\ IndexSurvives
<1> SUFFICES ASSUME Init PROVE Data /\ TypeOK /\ IndexSurvives
  OBVIOUS
<1>1. /\ mode = "down" /\ state = EmptyState /\ seq = 0 /\ spatial = EmptyIndex
      /\ pending = NoCommand /\ unstored = <<>> /\ task = "none"
      /\ wal = <<>> /\ snapshots = <<>> /\ failures = 0
      /\ kept = EmptyState /\ gap = FALSE /\ torn = FALSE
  BY DEF Init
<1>2. DOMAIN wal = {} /\ DOMAIN snapshots = {}
  BY <1>1
<1>3. Data
  BY <1>1, <1>2, EmptyStateType DEF Data
<1>4. TypeOK
  BY <1>1, <1>2 DEF TypeOK
<1>5. IndexSurvives
  <2>1. EmptyIndex.driver_cells = <<>> /\ EmptyIndex.buckets = <<>>
    BY DEF EmptyIndex
  <2>2. PICK empty : empty = <<>> /\ DOMAIN empty = {}
    OBVIOUS
  <2>3. DOMAIN state.drivers = {}
    BY <1>1, EmptyStateType
  <2>4. DOMAIN EmptyIndex.driver_cells = {} /\ DOMAIN EmptyIndex.buckets = {}
    BY <2>1, <2>2
  <2>5. QED
    BY <1>1, <2>3, <2>4 DEF IndexSurvives, Mirrors
<1>6. QED
  BY <1>3, <1>4, <1>5

LEMMA TypeStep == TypeOK /\ Types /\ Types' /\ [Next]_vars => TypeOK'
<1> SUFFICES ASSUME TypeOK, Types, Types', [Next]_vars PROVE TypeOK'
  OBVIOUS
<1> USE DEF Idle, Due, Fail, engineVars, ghostVars
<1>1. ASSUME NEW c \in Command, AppendWal(c)
      PROVE  TypeOK'
  <2>1. DOMAIN wal' = DOMAIN wal \cup {seq + 1}
    BY <1>1 DEF AppendWal, With
  <2>2. QED
    BY <1>1, <2>1 DEF AppendWal, Number, TypeOK, Types
<1>2. ASSUME NEW c \in Command, AppendWalFails(c)
      PROVE  TypeOK'
  BY <1>2 DEF AppendWalFails, Number, TypeOK, Types
<1>3. CASE Perform
  BY <1>3 DEF Perform, TypeOK, Types
<1>4. CASE StoreEvent
  BY <1>4 DEF StoreEvent, TypeOK, Types
<1>5. CASE WriteSnapshot
  BY <1>5 DEF WriteSnapshot, TypeOK, Types
<1>6. CASE WriteSnapshotFails
  BY <1>6 DEF WriteSnapshotFails, TypeOK, Types
<1>7. CASE TrimSnapshots
  BY <1>7 DEF TrimSnapshots, TypeOK, Types
<1>8. CASE CompactWal
  <2>1. DOMAIN wal' \subseteq DOMAIN wal
    BY <1>8 DEF CompactWal, Keep, WalAfter
  <2>2. QED
    BY <1>8, <2>1 DEF CompactWal, TypeOK, Types
<1>9. CASE Crash
  BY <1>9 DEF Crash, TypeOK, Types
<1>10. CASE Start
  BY <1>10 DEF Start, TypeOK, Types
<1>11. CASE ReplayOne
  BY <1>11 DEF ReplayOne, TypeOK, Types
<1>12. CASE Serve
  BY <1>12 DEF Serve, TypeOK, Types
<1>13. CASE UNCHANGED vars
  BY <1>13 DEF vars, TypeOK
<1>14. QED
  BY <1>1, <1>2, <1>3, <1>4, <1>5, <1>6, <1>7, <1>8, <1>9, <1>10, <1>11, <1>12, <1>13 DEF Next

(* Replay takes the next entry of the log. *)
LEMMA NextEntry ==
  ASSUME Types, ReplayOne
  PROVE  /\ seq' \in DOMAIN wal /\ seq' \in Nat /\ seq < seq'
         /\ \A n \in WalAfter(seq) : seq' <= n
         /\ Apply(wal[seq'])
<1>1. WalAfter(seq) # {} /\ seq' = Min(WalAfter(seq)) /\ Apply(wal[seq'])
  BY DEF ReplayOne
<1>2. WalAfter(seq) \in SUBSET Nat
  BY DEF Types, WalAfter
<1>3. seq' \in WalAfter(seq) /\ \A n \in WalAfter(seq) : seq' <= n
  BY <1>1, <1>2, MinIs
<1>4. QED
  BY <1>1, <1>2, <1>3 DEF WalAfter

LEMMA DataStep == Data /\ IndexSurvives /\ Types /\ [Next]_vars => Data' /\ IndexSurvives'
<1> SUFFICES ASSUME Data, IndexSurvives, Types, [Next]_vars PROVE Data' /\ IndexSurvives'
  OBVIOUS
<1> USE DEF engineVars, ghostVars
<1>1. ASSUME NEW c \in Command, AppendWal(c)
      PROVE  Data' /\ IndexSurvives'
  <2>1. /\ wal' = With(wal, seq + 1, c) /\ kept' = ApplyCommand(kept, c) /\ pending' = c
        /\ UNCHANGED <<state, spatial, snapshots>>
    BY <1>1 DEF AppendWal, Number
  <2>2. kept' \in State
    BY <2>1, Applied DEF Data
  <2>3. \A n \in DOMAIN wal' : wal'[n] \in Command
    BY <2>1 DEF Data, With
  <2>4. QED
    BY <2>1, <2>2, <2>3 DEF Data, IndexSurvives
<1>2. ASSUME NEW c \in Command, AppendWalFails(c)
      PROVE  Data' /\ IndexSurvives'
  BY <1>2 DEF AppendWalFails, Number, Data, IndexSurvives
<1>3. CASE Perform
  <2>1. /\ pending \in Command /\ pending' = NoCommand /\ state' = ApplyCommand(state, pending)
        /\ spatial' = IndexAfter(spatial, pending)
        /\ UNCHANGED <<wal, snapshots, kept>>
    BY <1>3 DEF Perform, Apply, Data
  <2>2. state' \in State
    BY <2>1, Applied DEF Data
  <2>3. Mirrors(spatial', state'.drivers)
    <3>1. state \in State /\ pending \in Command /\ Mirrors(spatial, state.drivers)
      BY <2>1 DEF Data, IndexSurvives
    <3>2. Mirrors(IndexAfter(spatial, pending), ApplyCommand(state, pending).drivers)
      BY <3>1, IndexFollows
    <3>3. QED
      BY <2>1, <3>2
  <2>4. QED
    BY <2>1, <2>2, <2>3 DEF Data, IndexSurvives
<1>4. CASE StoreEvent \/ WriteSnapshotFails \/ Serve \/ UNCHANGED vars
  BY <1>4 DEF StoreEvent, WriteSnapshotFails, Serve, vars, Data, IndexSurvives
<1>5. CASE WriteSnapshot
  <2>1. /\ snapshots' = With(snapshots, seq, state) /\ kept' = state
        /\ UNCHANGED <<state, spatial, pending, wal>>
    BY <1>5 DEF WriteSnapshot, ToSnapshot
  <2>2. \A n \in DOMAIN snapshots' : snapshots'[n] \in State
    BY <2>1 DEF Data, With
  <2>3. QED
    BY <2>1, <2>2 DEF Data, IndexSurvives
<1>6. CASE TrimSnapshots
  <2>1. /\ snapshots' = Keep(snapshots, TwoLatest(DOMAIN snapshots)) \/ snapshots' = snapshots
        /\ UNCHANGED <<state, spatial, pending, wal, kept>>
    BY <1>6 DEF TrimSnapshots
  <2>2. \A n \in DOMAIN snapshots' : n \in DOMAIN snapshots /\ snapshots'[n] = snapshots[n]
    BY <2>1 DEF Keep, TwoLatest
  <2>3. QED
    BY <2>1, <2>2 DEF Data, IndexSurvives
<1>7. CASE CompactWal
  <2>1. /\ wal' = Keep(wal, WalAfter(seq)) \/ wal' = wal
        /\ UNCHANGED <<state, spatial, pending, snapshots, kept>>
    BY <1>7 DEF CompactWal
  <2>2. \A n \in DOMAIN wal' : n \in DOMAIN wal /\ wal'[n] = wal[n]
    BY <2>1 DEF Keep, WalAfter
  <2>3. QED
    BY <2>1, <2>2 DEF Data, IndexSurvives
<1>8. CASE Crash
  <2>1. /\ state' = EmptyState /\ spatial' = EmptyIndex /\ pending' = NoCommand
        /\ UNCHANGED <<wal, snapshots, kept>>
    BY <1>8 DEF Crash
  <2>2. Mirrors(EmptyIndex, EmptyState.drivers)
    <3>1. EmptyIndex.driver_cells = <<>> /\ EmptyIndex.buckets = <<>>
      BY DEF EmptyIndex
    <3>2. PICK empty : empty = <<>> /\ DOMAIN empty = {}
      OBVIOUS
    <3>3. DOMAIN EmptyIndex.driver_cells = {} /\ DOMAIN EmptyIndex.buckets = {}
      BY <3>1, <3>2
    <3>4. QED
      BY <3>3, EmptyStateType DEF Mirrors
  <2>3. QED
    BY <2>1, <2>2, EmptyStateType DEF Data, IndexSurvives
<1>9. CASE Start
  <2>1. /\ state' = LoadSnapshot /\ spatial' = RebuiltIndex(state'.drivers)
        /\ UNCHANGED <<pending, wal, snapshots, kept>>
    BY <1>9 DEF Start
  <2>2. state' \in State
    BY <2>1, LatestType, EmptyStateType DEF LoadSnapshot, Data
  <2>3. Mirrors(spatial', state'.drivers)
    <3>1. PICK fleet : fleet = state'.drivers /\ IsFiniteSet(DOMAIN fleet)
      BY <2>2, StateParts
    <3>2. Mirrors(RebuiltIndex(fleet), fleet)
      BY <3>1, RebuiltMirrors
    <3>3. QED
      BY <2>1, <3>1, <3>2
  <2>4. QED
    BY <2>1, <2>2, <2>3 DEF Data, IndexSurvives
<1>10. CASE ReplayOne
  <2>1. PICK c \in Command : c = wal[seq']
    BY <1>10, NextEntry DEF Data
  <2>2. /\ state' = ApplyCommand(state, c) /\ spatial' = IndexAfter(spatial, c)
        /\ UNCHANGED <<pending, wal, snapshots, kept>>
    BY <1>10, <2>1 DEF ReplayOne, Apply
  <2>3. state' \in State
    BY <2>2, Applied DEF Data
  <2>4. Mirrors(spatial', state'.drivers)
    <3>1. state \in State /\ Mirrors(spatial, state.drivers)
      BY DEF Data, IndexSurvives
    <3>2. Mirrors(IndexAfter(spatial, c), ApplyCommand(state, c).drivers)
      BY <3>1, IndexFollows
    <3>3. QED
      BY <2>2, <3>2
  <2>5. QED
    BY <2>2, <2>3, <2>4 DEF Data, IndexSurvives
<1>11. QED
  BY <1>1, <1>2, <1>3, <1>4, <1>5, <1>6, <1>7, <1>8, <1>9, <1>10 DEF Next

-----------------------------------------------------------------------------
(* What the engine, the backend and its tables may hold at any time, and    *)
(* that nothing is under way when the process is down or a snapshot is      *)
(* being written.                                                           *)
THEOREM DurabilityTypeCorrect == Spec => []TypeOK
<1>1. Init => IInv /\ TypeOK
  BY Initially, DataAtFirst
<1>2. IInv => Types
  BY DEF IInv, Follows
<1>3. IInv /\ [Next]_vars => IInv'
  BY EachStep
<1>4. IInv /\ TypeOK /\ [Next]_vars => IInv' /\ TypeOK'
  <2>1. IInv' => Types'
    BY DEF IInv, Follows
  <2>2. QED
    BY <1>2, <1>3, <2>1, TypeStep
<1>5. QED
  BY <1>1, <1>4, PTL DEF Spec

(* The index in memory mirrors the drivers, rebuilt from a snapshot and     *)
(* carried on through replay or kept up by live commands.                   *)
THEOREM IndexIsRebuilt == Spec => []IndexSurvives
<1>1. Init => IInv /\ Data /\ IndexSurvives
  BY Initially, DataAtFirst
<1>2. IInv => Types
  BY DEF IInv, Follows
<1>3. IInv /\ [Next]_vars => IInv'
  BY EachStep
<1>4. IInv /\ Data /\ IndexSurvives /\ [Next]_vars => IInv' /\ Data' /\ IndexSurvives'
  BY <1>2, <1>3, DataStep
<1>5. QED
  BY <1>1, <1>4, PTL DEF Spec

-----------------------------------------------------------------------------
(* The timeline, told in gists: a replay may give a cancellation another    *)
(* offer.  `diary' has every event a command led to.  Up to a lost command, *)
(*   - its rows have numbers of their own, none beyond the last one that    *)
(*     the engine, or the state it will come up with, has given out;        *)
(*   - a row that is neither stored nor missed waits to be inserted, or is  *)
(*     one of an entry of the log that is still to be replayed;             *)
(*   - replay leads to the rows again that live execution led to: of the    *)
(*     entries after the snapshot only the last may have led to none yet.   *)
Keyed(D) == \A r, x \in D : (r.job = x.job /\ r.sequence = x.sequence) => r = x

Numbered(D, s) == \A r \in D : r.sequence \in Nat /\ r.sequence <= Count(s, r.job)

Known == Gists(diary)

Saved == Gists(stored)

Unsaved == {r \in Known : r \notin Gists(missed) /\ r \notin Saved}

Pushed(r) == \E i \in DOMAIN unstored : Gist(unstored[i]) = r

RowsAt(h, n) == RowsOf(h[n - 1], wal[n])

Logged == WalAfter(Latest(snapshots))

(* The state whose numbers the diary's rows have. *)
Base == IF mode = "up" THEN state ELSE kept

Diary(h) ==
  /\ Keyed(Known) /\ Numbered(Known, Base)
  /\ Saved \subseteq Known
  /\ \E D : unstored \in Seq(D) /\ Gists(D) \subseteq Known
  /\ \A r \in Unsaved :
       \/ Pushed(r)
       \/ mode = "down"
       \/ mode = "loading" /\ \E n \in WalAfter(seq) : r \in RowsAt(h, n)

Performed(n) ==
  \/ mode = "loading" /\ n <= seq
  \/ mode = "up" /\ pending = NoCommand

Replayable(h) ==
  /\ \A n \in Logged : h[n - 1] \in State
  /\ \A n \in Logged : \/ RowsAt(h, n) \subseteq Known
                       \/ /\ ~ Performed(n)
                          /\ WalAfter(n) = {} /\ Numbered(Known, h[n - 1])
  /\ pending # NoCommand => seq \in Logged /\ wal[seq] = pending /\ h[seq - 1] = state
  /\ \A r \in Unsaved : \E n \in Logged : r \in RowsAt(h, n)

Timeline(h) == ~ torn => /\ Diary(h)
                         /\ gap \/ Replayable(h)

Account(h) == Follows(h) /\ Data /\ TypeOK /\ Timeline(h)

-----------------------------------------------------------------------------
LEMMA GistIs ==
  ASSUME NEW r
  PROVE  Gist(r).job = r.job /\ Gist(r).sequence = r.sequence
BY DEF Gist

(* What is known or saved stays so while nothing is added to it. *)
LEMMA SameGists ==
  /\ diary' = diary => Known' = Known
  /\ stored' = stored => Saved' = Saved
  /\ UNCHANGED <<diary, stored, missed>> => Unsaved' = Unsaved
BY DEF Known, Saved, Unsaved, Gists

(* Rows are told apart by job and number, of which a gist has both. *)
LEMMA GistsOfInsert ==
  ASSUME NEW T, NEW R
  PROVE  Gists(Insert(T, R)) = Insert(Gists(T), Gists(R))
<1>1. \A r : Gist(r).job = r.job /\ Gist(r).sequence = r.sequence
  BY GistIs
<1>2. ASSUME NEW r \in Insert(T, R) PROVE Gist(r) \in Insert(Gists(T), Gists(R))
  BY <1>1 DEF Insert, Gists
<1>3. ASSUME NEW g \in Insert(Gists(T), Gists(R)) PROVE \E r \in Insert(T, R) : g = Gist(r)
  BY <1>1 DEF Insert, Gists
<1>4. QED
  BY <1>2, <1>3 DEF Gists

(* The gists of a sequence's rows. *)
LEMMA GistsOfRows ==
  ASSUME NEW f
  PROVE  Gists({f[i] : i \in DOMAIN f}) = {Gist(f[i]) : i \in DOMAIN f}
BY DEF Gists

LEMMA FreshRows ==
  ASSUME NEW s \in State, NEW c \in Command, NEW f \in EventsOf(s, c), NEW D,
         Keyed(D), Numbered(D, s)
  PROVE  LET N == {Gist(f[i]) : i \in DOMAIN f} IN
           /\ Keyed(D \cup N)
           /\ Numbered(D \cup N, ApplyCommand(s, c))
           /\ \A r \in N, x \in D : ~ (r.job = x.job /\ r.sequence = x.sequence)
<1>1. PICK n \in Nat, j \in JobId \cup {NoOffer} :
        /\ DOMAIN f = 1..n
        /\ \A i \in 1..n : /\ f[i].job = j
                           /\ f[i].sequence = Count(s, j) + i
                           /\ Count(s, j) + i <= Count(ApplyCommand(s, c), j)
  BY Rows
<1>2. /\ \A k : Count(s, k) \in Nat /\ Count(s, k) <= Count(ApplyCommand(s, c), k)
      /\ \A k : Count(ApplyCommand(s, c), k) \in Nat
  BY CountType, Applied
<1> DEFINE N == {Gist(f[i]) : i \in DOMAIN f}
<1>3. \A r \in N : \E i \in 1..n : /\ r = Gist(f[i]) /\ r.job = j /\ r.sequence = Count(s, j) + i
                                   /\ r.sequence <= Count(ApplyCommand(s, c), j)
  BY <1>1, GistIs
<1> HIDE DEF N
<1>4. \A r \in N, x \in D : ~ (r.job = x.job /\ r.sequence = x.sequence)
  BY <1>2, <1>3 DEF Numbered
<1>5. \A r, x \in N : (r.job = x.job /\ r.sequence = x.sequence) => r = x
  <2> SUFFICES ASSUME NEW r \in N, NEW x \in N, r.sequence = x.sequence PROVE r = x
    OBVIOUS
  <2>1. PICK i \in 1..n : r = Gist(f[i]) /\ r.sequence = Count(s, j) + i
    BY <1>3
  <2>2. PICK k \in 1..n : x = Gist(f[k]) /\ x.sequence = Count(s, j) + k
    BY <1>3
  <2>3. i = k
    BY <1>2, <2>1, <2>2
  <2>4. QED
    BY <2>1, <2>2, <2>3
<1>6. Keyed(D \cup N)
  BY <1>4, <1>5 DEF Keyed
<1>7. Numbered(D \cup N, ApplyCommand(s, c))
  <2>1. ASSUME NEW r \in D
        PROVE  r.sequence \in Nat /\ r.sequence <= Count(ApplyCommand(s, c), r.job)
    BY <1>2 DEF Numbered
  <2>2. ASSUME NEW r \in N
        PROVE  r.sequence \in Nat /\ r.sequence <= Count(ApplyCommand(s, c), r.job)
    BY <1>2, <1>3
  <2>3. QED
    BY <2>1, <2>2 DEF Numbered
<1>8. QED
  BY <1>4, <1>6, <1>7 DEF N

LEMMA AccountAtFirst == Init => \E h : Account(h)
<1> SUFFICES ASSUME Init PROVE \E h : Account(h)
  OBVIOUS
<1>1. PICK h : Follows(h)
  BY Initially DEF IInv
<1>2. Data /\ TypeOK
  BY DataAtFirst
<1>3. /\ mode = "down" /\ kept = EmptyState /\ diary = {} /\ stored = {} /\ wal = <<>>
      /\ pending = NoCommand /\ unstored = <<>>
  BY DEF Init
<1>4. Diary(h)
  <2>1. unstored \in Seq({}) /\ Gists({}) = {}
    BY <1>3 DEF Gists
  <2>2. Known = {} /\ Saved = {}
    BY <1>3, <2>1 DEF Known, Saved
  <2>3. QED
    BY <2>1, <2>2 DEF Diary, Keyed, Numbered, Unsaved
<1>5. Replayable(h)
  <2>1. DOMAIN wal = {}
    BY <1>3
  <2>2. Logged = {}
    BY <2>1 DEF Logged, WalAfter
  <2>3. QED
    BY <1>3, <2>2 DEF Replayable, Unsaved, Known, Gists
<1>6. QED
  BY <1>1, <1>2, <1>4, <1>5 DEF Account, Timeline

-----------------------------------------------------------------------------
(* Trimming, snapshots that fail, stuttering. *)
LEMMA TimelineIdle ==
  ASSUME NEW h, Timeline(h), Latest(snapshots)' = Latest(snapshots),
         UNCHANGED <<mode, state, seq, pending, unstored, wal, stored, kept, gap, diary, torn, missed>>
  PROVE  Timeline(h)'
<1>1. Known' = Known /\ Saved' = Saved /\ Unsaved' = Unsaved /\ Logged' = Logged /\ Base' = Base
      /\ \A n : WalAfter(n)' = WalAfter(n) /\ RowsAt(h, n)' = RowsAt(h, n)
  BY SameGists DEF Logged, Base, WalAfter, RowsAt
<1>2. \A n \in Logged : Performed(n)' <=> Performed(n)
  BY DEF Performed
<1>3. Diary(h) => Diary(h)'
  BY <1>1 DEF Diary, Pushed
<1>4. Replayable(h) => Replayable(h)'
  BY <1>1, <1>2 DEF Replayable
<1>5. QED
  BY <1>3, <1>4 DEF Timeline

LEMMA TimelineStore ==
  ASSUME NEW h, Account(h), StoreEvent
  PROVE  Timeline(h)'
<1> SUFFICES ASSUME ~ torn, Diary(h), gap \/ Replayable(h)
             PROVE  Diary(h)' /\ (gap \/ Replayable(h)')
  BY DEF StoreEvent, Account, Timeline
<1>1. /\ unstored # <<>> /\ unstored' = Tail(unstored)
      /\ \/ stored' = Insert(stored, {Head(unstored)}) /\ missed' = missed
         \/ stored' = stored /\ missed' = missed \cup {Head(unstored)}
      /\ UNCHANGED <<mode, state, seq, pending, wal, snapshots, kept, gap, diary, torn>>
  BY DEF StoreEvent, engineVars
<1>2. PICK first, rest : first = Head(unstored) /\ rest = Tail(unstored)
  OBVIOUS
<1>3. /\ Gist(first) \in Known /\ \E D : rest \in Seq(D) /\ Gists(D) \subseteq Known
      /\ \A r : Pushed(r) => r = Gist(first) \/ \E i \in DOMAIN rest : Gist(rest[i]) = r
  <2>1. PICK D : unstored \in Seq(D) /\ unstored # <<>> /\ Gists(D) \subseteq Known
    BY <1>1 DEF Diary
  <2>2. first \in D /\ rest \in Seq(D)
    BY <1>2, <2>1
  <2>3. Gist(first) \in Known
    BY <2>1, <2>2 DEF Gists
  <2>4. ASSUME NEW i \in DOMAIN unstored, i # 1
        PROVE  i - 1 \in DOMAIN rest /\ rest[i - 1] = unstored[i]
    BY <1>2, <2>1, <2>4
  <2>5. \A i \in DOMAIN unstored : i = 1 => unstored[i] = first
    BY <1>2, <2>1
  <2>6. QED
    BY <2>1, <2>2, <2>3, <2>4, <2>5 DEF Pushed
<1>4. /\ Saved \subseteq Saved' /\ Saved' \subseteq Known /\ Gists(missed) \subseteq Gists(missed')
      /\ Gist(first) \in Saved' \cup Gists(missed')
  <2>1. CASE stored' = Insert(stored, {first}) /\ missed' = missed
    <3>1. Saved' = Insert(Saved, {Gist(first)})
      <4>1. Saved' = Gists(Insert(stored, {first})) /\ Gists({first}) = {Gist(first)}
        BY <2>1 DEF Saved, Gists
      <4>2. QED
        BY <4>1, GistsOfInsert DEF Saved
    <3>2. \A x \in Saved : (x.job = Gist(first).job /\ x.sequence = Gist(first).sequence)
                             => x = Gist(first)
      BY <1>3 DEF Diary, Keyed
    <3>3. Gist(first) \in Saved' /\ Saved \subseteq Saved' /\ Saved' \subseteq Saved \cup {Gist(first)}
      BY <3>1, <3>2 DEF Insert
    <3>4. QED
      BY <1>3, <2>1, <3>3 DEF Diary
  <2>2. CASE stored' = stored /\ missed' = missed \cup {first}
    <3>1. Saved' = Saved
      BY <2>2, SameGists
    <3>2. Gists(missed) \subseteq Gists(missed') /\ Gist(first) \in Gists(missed')
      BY <2>2 DEF Gists
    <3>3. QED
      BY <3>1, <3>2 DEF Diary
  <2>3. QED
    BY <1>1, <1>2, <2>1, <2>2
<1>5. Known' = Known /\ Unsaved' \subseteq Unsaved /\ Gist(first) \notin Unsaved'
  <2>1. Known' = Known /\ Gists(missed)' = Gists(missed')
    BY <1>1, SameGists DEF Gists
  <2>2. QED
    BY <1>4, <2>1 DEF Unsaved
<1>6. \A r \in Unsaved' : Pushed(r) => Pushed(r)'
  BY <1>1, <1>2, <1>3, <1>5 DEF Pushed
<1>7. Logged' = Logged /\ Base' = Base
      /\ \A n : WalAfter(n)' = WalAfter(n) /\ RowsAt(h, n)' = RowsAt(h, n)
  BY <1>1 DEF Logged, Latest, Base, WalAfter, RowsAt
<1>8. \A n \in Logged : Performed(n)' <=> Performed(n)
  BY <1>1 DEF Performed
<1>9. Diary(h)'
  <2>1. \E D : unstored' \in Seq(D) /\ Gists(D) \subseteq Known
    BY <1>1, <1>2, <1>3
  <2>2. QED
    BY <1>1, <1>4, <1>5, <1>6, <1>7, <2>1 DEF Diary
<1>10. Replayable(h) => Replayable(h)'
  BY <1>1, <1>5, <1>7, <1>8 DEF Replayable
<1>11. QED
  BY <1>9, <1>10

LEMMA TimelineCrash ==
  ASSUME NEW h, Account(h), Crash
  PROVE  Timeline(h)'
<1>1. /\ mode # "down" /\ mode' = "down" /\ pending' = NoCommand /\ unstored' = <<>>
      /\ torn' = (torn \/ gap) /\ gap' = FALSE
      /\ UNCHANGED <<wal, snapshots, stored, kept, diary, missed>>
  BY DEF Crash
<1> SUFFICES ASSUME ~ torn, ~ gap, Diary(h), Replayable(h)
             PROVE  Diary(h)' /\ Replayable(h)'
  BY <1>1 DEF Account, Timeline
<1>2. kept = View /\ (pending # NoCommand => mode = "up") /\ state \in State /\ kept \in State
      /\ pending \in Command \cup {NoCommand}
  BY DEF Account, Follows, Phases, Data
<1>3. Base' = kept
  BY <1>1 DEF Base
<1>4. Numbered(Known, kept)
  <2>1. CASE mode # "up"
    BY <2>1 DEF Diary, Base
  <2>2. CASE mode = "up" /\ pending = NoCommand
    BY <1>2, <2>2 DEF Diary, Base, View
  <2>3. CASE mode = "up" /\ pending # NoCommand
    <3>1. kept = ApplyCommand(state, pending) /\ pending \in Command
      BY <1>2, <2>3 DEF View
    <3>2. \A k : /\ Count(state, k) \in Nat /\ Count(kept, k) \in Nat
                 /\ Count(state, k) <= Count(kept, k)
      BY <1>2, <3>1, Applied, CountType
    <3>3. Numbered(Known, state)
      BY <2>3 DEF Diary, Base
    <3>4. QED
      BY <3>2, <3>3 DEF Numbered
  <2>4. QED
    BY <2>1, <2>2, <2>3
<1>5. Diary(h)'
  <2>1. unstored' \in Seq({}) /\ Gists({}) \subseteq Known
    BY <1>1 DEF Gists
  <2>2. Known' = Known /\ Saved' = Saved
    BY <1>1, SameGists
  <2>3. QED
    BY <1>1, <1>3, <1>4, <2>1, <2>2 DEF Diary
<1>6. Replayable(h)'
  <2>1. Known' = Known /\ Unsaved' = Unsaved /\ Logged' = Logged
        /\ \A n : WalAfter(n)' = WalAfter(n) /\ RowsAt(h, n)' = RowsAt(h, n)
    BY <1>1, SameGists DEF Logged, Latest, WalAfter, RowsAt
  <2>2. \A n \in Logged : ~ Performed(n)'
    BY <1>1 DEF Performed
  <2>3. QED
    BY <1>1, <2>1, <2>2 DEF Replayable
<1>7. QED
  BY <1>5, <1>6

LEMMA TimelineStart ==
  ASSUME NEW h, Account(h), Start
  PROVE  Timeline(h)'
<1>1. /\ mode = "down" /\ mode' = "loading" /\ seq' = Latest(snapshots)
      /\ UNCHANGED <<pending, unstored, wal, snapshots, stored, kept, gap, diary, torn, missed>>
  BY DEF Start, LastCovered, ghostVars
<1>2. ~ gap /\ pending = NoCommand /\ Types
  BY <1>1 DEF Account, Follows, Phases
<1> SUFFICES ASSUME ~ torn, Diary(h), Replayable(h)
             PROVE  Diary(h)' /\ Replayable(h)'
  BY <1>1, <1>2 DEF Account, Timeline
<1>3. Known' = Known /\ Saved' = Saved /\ Unsaved' = Unsaved /\ Logged' = Logged /\ Base' = Base
      /\ \A n : WalAfter(n)' = WalAfter(n) /\ RowsAt(h, n)' = RowsAt(h, n)
  BY <1>1, SameGists DEF Logged, Latest, WalAfter, RowsAt, Base
<1>4. \A n \in Logged : ~ Performed(n)'
  <2>1. Latest(snapshots) \in Nat /\ DOMAIN wal \subseteq Nat
    BY <1>2, LatestType DEF Types
  <2>2. \A n \in Logged : n \in Nat /\ ~ (n <= Latest(snapshots))
    BY <2>1 DEF Logged, WalAfter
  <2>3. QED
    BY <1>1, <2>2 DEF Performed
<1>5. Replayable(h)'
  BY <1>1, <1>2, <1>3, <1>4 DEF Replayable
<1>6. WalAfter(seq)' = Logged
  BY <1>1 DEF WalAfter, Logged
<1>7. Diary(h)'
  BY <1>1, <1>2, <1>3, <1>6 DEF Diary, Replayable
<1>8. QED
  BY <1>5, <1>7

LEMMA TimelineServe ==
  ASSUME NEW h, Account(h), Serve
  PROVE  Timeline(h)'
<1>1. /\ mode = "loading" /\ mode' = "up" /\ WalAfter(seq) = {} /\ unstored = <<>>
      /\ UNCHANGED <<state, seq, pending, unstored, wal, snapshots, stored, kept, gap, diary, torn, missed>>
  BY DEF Serve, engineVars, ghostVars
<1>2. /\ ~ gap /\ pending = NoCommand /\ Types /\ seq \in Nat /\ Latest(snapshots) <= seq
      /\ FollowsLog(h)
  BY <1>1 DEF Account, Follows, Phases, Types
<1> SUFFICES ASSUME ~ torn, Diary(h), Replayable(h)
             PROVE  Diary(h)' /\ Replayable(h)'
  BY <1>1, <1>2 DEF Account, Timeline
<1>3. state = kept
  BY <1>1, <1>2 DEF FollowsLog
<1>4. Known' = Known /\ Saved' = Saved /\ Unsaved' = Unsaved /\ Logged' = Logged /\ Base' = Base
      /\ \A n : WalAfter(n)' = WalAfter(n) /\ RowsAt(h, n)' = RowsAt(h, n)
  BY <1>1, <1>3, SameGists DEF Logged, Latest, WalAfter, RowsAt, Base
<1>5. Unsaved = {}
  <2>1. \A r : ~ Pushed(r)
    <3>1. PICK empty : empty = unstored /\ DOMAIN empty = {}
      BY <1>1
    <3>2. QED
      BY <3>1 DEF Pushed
  <2>2. QED
    BY <1>1, <2>1 DEF Diary
<1>6. \A n \in Logged : Performed(n)
  <2>1. \A n \in DOMAIN wal : n \in Nat /\ n <= seq
    BY <1>1, <1>2 DEF WalAfter, Types
  <2>2. QED
    BY <1>1, <2>1 DEF Performed, Logged, WalAfter
<1>7. Replayable(h)'
  BY <1>1, <1>2, <1>4, <1>6 DEF Replayable
<1>8. Diary(h)'
  BY <1>1, <1>2, <1>4, <1>5 DEF Diary
<1>9. QED
  BY <1>7, <1>8

-----------------------------------------------------------------------------
LEMMA NothingUnsaved ==
  ASSUME NEW h, Diary(h), mode = "up", unstored = <<>>
  PROVE  Unsaved = {}
<1>1. PICK empty : empty = unstored /\ DOMAIN empty = {}
  OBVIOUS
<1>2. \A r : ~ Pushed(r)
  BY <1>1 DEF Pushed
<1>3. QED
  BY <1>2 DEF Diary

(* Everything is stored when a snapshot is written, so nothing depends on   *)
(* the log before it.                                                       *)
LEMMA TimelineSnapshot ==
  ASSUME NEW h, Account(h), WriteSnapshot, NEW g, Follows(g)'
  PROVE  Timeline(g)'
<1>1. /\ mode = "up" /\ pending = NoCommand /\ unstored = <<>> /\ gap' = FALSE
      /\ UNCHANGED <<mode, state, seq, pending, unstored, wal, stored, diary, torn, missed>>
      /\ snapshots' = With(snapshots, seq, state)
  BY DEF WriteSnapshot, Due, Idle, engineVars, ToSnapshot
<1> SUFFICES ASSUME ~ torn, Diary(h)
             PROVE  Diary(g)' /\ Replayable(g)'
  BY <1>1 DEF Account, Timeline
<1>2. Unsaved = {} /\ Unsaved' = {}
  <2>1. Unsaved = {}
    BY <1>1, NothingUnsaved
  <2>2. Unsaved' = Unsaved
    BY <1>1, SameGists
  <2>3. QED
    BY <2>1, <2>2
<1>3. Logged' = {}
  <2>1. /\ \A n \in DOMAIN wal : n \in Nat /\ n <= seq
        /\ \A n \in DOMAIN snapshots : n \in Nat /\ n <= Latest(snapshots)
        /\ Latest(snapshots) \in Nat /\ Latest(snapshots) <= seq /\ seq \in Nat
    BY <1>1, LatestType DEF Account, Follows, Types, Phases
  <2>2. DOMAIN snapshots' = DOMAIN snapshots \cup {seq}
    BY <1>1 DEF With
  <2>3. DOMAIN snapshots' \subseteq Nat /\ seq \in DOMAIN snapshots' /\ \A n \in DOMAIN snapshots' : n <= seq
    BY <2>1, <2>2
  <2>4. Latest(snapshots') = seq
    BY <2>3, LatestOf
  <2>5. Latest(snapshots)' = seq
    BY <2>4 DEF Latest
  <2>6. QED
    BY <1>1, <2>1, <2>5 DEF Logged, WalAfter
<1>4. Base' = Base /\ Known' = Known /\ Saved' = Saved
  BY <1>1, SameGists DEF Base
<1>5. Replayable(g)'
  BY <1>1, <1>2, <1>3 DEF Replayable
<1>6. Diary(g)'
  BY <1>1, <1>2, <1>4 DEF Diary
<1>7. QED
  BY <1>5, <1>6

LEMMA TimelineTrim ==
  ASSUME NEW h, Account(h), TrimSnapshots
  PROVE  Timeline(h)'
<1>1. /\ task = "trim"
      /\ snapshots' = Keep(snapshots, TwoLatest(DOMAIN snapshots)) \/ snapshots' = snapshots
      /\ UNCHANGED <<mode, state, seq, pending, unstored, wal, stored, kept, gap, diary, torn, missed>>
  BY DEF TrimSnapshots, engineVars, ghostVars
<1>2. Latest(snapshots)' = Latest(snapshots)
  <2>1. CASE snapshots' = snapshots
    BY <2>1 DEF Latest
  <2>2. CASE snapshots' = Keep(snapshots, TwoLatest(DOMAIN snapshots))
    BY <2>2, TrimmedLatest DEF Account, Follows
  <2>3. QED
    BY <1>1, <2>1, <2>2
<1>3. QED
  BY <1>1, <1>2, TimelineIdle DEF Account

LEMMA TimelineCompact ==
  ASSUME NEW h, Account(h), CompactWal
  PROVE  Timeline(h)'
<1>1. /\ task = "compact"
      /\ wal' = Keep(wal, WalAfter(seq)) \/ wal' = wal
      /\ UNCHANGED <<mode, state, seq, pending, unstored, snapshots, stored, kept, gap, diary, torn, missed>>
  BY DEF CompactWal, engineVars, ghostVars
<1>2. /\ mode = "up" /\ pending = NoCommand /\ unstored = <<>> /\ Latest(snapshots) = seq
      /\ \A n \in DOMAIN wal : n \in Nat /\ n <= seq
      /\ seq \in Nat
  <2>1. task # "none" /\ TypeOK /\ Types /\ Phases
    BY <1>1 DEF Account, Follows
  <2>2. pending = NoCommand /\ unstored = <<>>
    BY <2>1 DEF TypeOK
  <2>3. QED
    BY <2>1, <2>2 DEF Types, Phases
<1> SUFFICES ASSUME ~ torn, Diary(h)
             PROVE  Diary(h)' /\ Replayable(h)'
  BY <1>1 DEF Account, Timeline
<1>3. Unsaved = {} /\ Unsaved' = {}
  <2>1. Unsaved = {}
    BY <1>2, NothingUnsaved
  <2>2. Unsaved' = Unsaved
    BY <1>1, SameGists
  <2>3. QED
    BY <2>1, <2>2
<1>4. Logged' = {}
  <2>1. DOMAIN wal' \subseteq DOMAIN wal
    BY <1>1 DEF Keep, WalAfter
  <2>2. Latest(snapshots)' = seq
    BY <1>1, <1>2 DEF Latest
  <2>3. QED
    BY <1>2, <2>1, <2>2 DEF Logged, WalAfter
<1>5. Base' = Base /\ Known' = Known /\ Saved' = Saved
  BY <1>1, SameGists DEF Base
<1>6. Replayable(h)'
  BY <1>1, <1>2, <1>3, <1>4 DEF Replayable
<1>7. Diary(h)'
  BY <1>1, <1>2, <1>3, <1>5 DEF Diary
<1>8. QED
  BY <1>6, <1>7

LEMMA TimelineNumber ==
  ASSUME NEW h, Account(h), ~ torn, NEW c \in Command, Number(c),
         NEW g
  PROVE  Diary(g)'
<1>1. /\ mode = "up" /\ unstored = <<>>
      /\ UNCHANGED <<mode, state, unstored, stored, diary, missed>>
  BY DEF Number, Idle
<1>2. Diary(h)
  BY DEF Account, Timeline
<1>3. Unsaved = {} /\ Unsaved' = {}
  <2>1. Unsaved = {}
    BY <1>1, <1>2, NothingUnsaved
  <2>2. Unsaved' = Unsaved
    BY <1>1, SameGists
  <2>3. QED
    BY <2>1, <2>2
<1>4. Base' = Base /\ Known' = Known /\ Saved' = Saved
  BY <1>1, SameGists DEF Base
<1>5. QED
  BY <1>1, <1>2, <1>3, <1>4 DEF Diary

LEMMA TimelineUnlogged ==
  ASSUME NEW h, Account(h), NEW c \in Command, AppendWalFails(c)
  PROVE  Timeline(h)'
<1>1. Number(c) /\ gap' = TRUE /\ torn' = torn
  BY DEF AppendWalFails, Number
<1>2. QED
  BY <1>1, TimelineNumber DEF Timeline

LEMMA TimelineLogged ==
  ASSUME NEW h, Account(h), NEW c \in Command, AppendWal(c),
         NEW g, \A m \in Nat : m <= seq => g[m] = h[m]
  PROVE  Timeline(g)'
<1>1. /\ mode = "up" /\ pending = NoCommand /\ unstored = <<>> /\ seq' = seq + 1 /\ pending' = c
      /\ wal' = With(wal, seq + 1, c)
      /\ UNCHANGED <<mode, state, unstored, snapshots, stored, gap, diary, torn, missed>>
  BY DEF AppendWal, Number, Idle
<1>2. ASSUME ~ torn PROVE Diary(g)'
  BY <1>2, TimelineNumber DEF AppendWal
<1>3. ASSUME ~ torn, ~ gap PROVE Replayable(g)'
  <2>1. Diary(h) /\ Replayable(h) /\ state \in State
    BY <1>3 DEF Account, Timeline, Data
  <2>2. /\ seq \in Nat /\ Latest(snapshots) \in Nat /\ Latest(snapshots) <= seq
        /\ \A n \in DOMAIN wal : n \in Nat /\ n <= seq
        /\ kept = View /\ FollowsLog(h)
    BY <1>1, <1>3, LatestType DEF Account, Follows, Types, Phases
  <2>3. h[seq] = state /\ g[seq] = state
    <3>1. WalAfter(seq) = {}
      BY <2>2 DEF WalAfter
    <3>2. h[seq] = kept
      BY <2>2, <3>1 DEF FollowsLog
    <3>3. QED
      BY <1>1, <2>2, <3>2 DEF View
  <2>0. PICK new \in Nat : new = seq + 1
    BY <2>2
  <2>4. /\ DOMAIN wal' = DOMAIN wal \cup {new} /\ wal'[new] = c
        /\ \A n \in DOMAIN wal : wal'[n] = wal[n]
    BY <1>1, <2>0, <2>2 DEF With
  <2>5. Latest(snapshots)' = Latest(snapshots)
    BY <1>1 DEF Latest
  <2>6. Logged' = Logged \cup {new}
    BY <2>0, <2>2, <2>4, <2>5 DEF Logged, WalAfter
  <2>7. Unsaved' = {}
    <3>1. Unsaved = {}
      BY <1>1, <2>1, NothingUnsaved
    <3>2. QED
      BY <1>1, <3>1, SameGists
  <2>8. Numbered(Known, state) /\ Known' = Known
    BY <1>1, <2>1, SameGists DEF Diary, Base
  <2>9. ASSUME NEW n \in Logged
        PROVE  g[n - 1] = h[n - 1] /\ RowsAt(g, n)' = RowsAt(h, n) /\ RowsAt(h, n) \subseteq Known
               /\ h[n - 1] \in State
    <3>1. n \in Nat /\ n \in DOMAIN wal /\ n > Latest(snapshots) /\ n <= seq
      BY <2>2 DEF Logged, WalAfter
    <3>2. n - 1 \in Nat /\ n - 1 <= seq
      BY <2>2, <3>1
    <3>3. Performed(n)
      BY <1>1 DEF Performed
    <3>4. g[n - 1] = h[n - 1]
      BY <3>2
    <3>5. RowsAt(g, n)' = RowsAt(h, n)
      BY <2>4, <3>1, <3>4 DEF RowsAt
    <3>6. QED
      BY <2>1, <3>3, <3>4, <3>5 DEF Replayable
  <2>10. g[new - 1] = state /\ ~ Performed(new)' /\ WalAfter(new)' = {}
    <3>1. new - 1 = seq
      BY <2>0, <2>2
    <3>2. ~ Performed(new)'
      BY <1>1, NoCommandAssumption DEF Performed, Command
    <3>3. WalAfter(new)' = {}
      BY <2>0, <2>2, <2>4 DEF WalAfter
    <3>4. QED
      BY <2>3, <3>1, <3>2, <3>3
  <2>11. \A n \in Logged' : g[n - 1] \in State
    BY <2>1, <2>6, <2>8, <2>9, <2>10
  <2>12. \A n \in Logged' : \/ RowsAt(g, n)' \subseteq Known
                            \/ /\ ~ Performed(n)'
                               /\ WalAfter(n)' = {} /\ Numbered(Known, g[n - 1])
    <3> SUFFICES ASSUME NEW n \in Logged'
                 PROVE  \/ RowsAt(g, n)' \subseteq Known
                        \/ /\ ~ Performed(n)'
                           /\ WalAfter(n)' = {} /\ Numbered(Known, g[n - 1])
      OBVIOUS
    <3>1. CASE n \in Logged
      BY <2>9, <3>1
    <3>2. CASE n = new
      BY <2>8, <2>10, <3>2
    <3>3. QED
      BY <2>6, <3>1, <3>2
  <2>13. seq' \in Logged' /\ wal'[seq'] = pending' /\ g[seq' - 1] = state'
    BY <1>1, <2>0, <2>4, <2>6, <2>10
  <2>14. QED
    BY <1>1, <2>7, <2>8, <2>11, <2>12, <2>13 DEF Replayable
<1>4. QED
  BY <1>1, <1>2, <1>3 DEF Timeline

-----------------------------------------------------------------------------
LEMMA TimelinePerform ==
  ASSUME NEW h, Account(h), Perform
  PROVE  Timeline(h)'
<1>1. /\ pending # NoCommand /\ pending' = NoCommand /\ state' = ApplyCommand(state, pending)
      /\ unstored' \in EventsOf(state, pending) /\ diary' = diary \cup News
      /\ UNCHANGED <<mode, seq, wal, snapshots, stored, kept, gap, torn, missed>>
  BY DEF Perform, Apply
<1>2. /\ mode = "up" /\ unstored = <<>> /\ state \in State /\ pending \in Command
      /\ seq \in Nat /\ \A n \in DOMAIN wal : n \in Nat /\ n <= seq
  BY <1>1 DEF Account, Follows, Phases, Types, TypeOK, Data
<1> SUFFICES ASSUME ~ torn, Diary(h), gap \/ Replayable(h)
             PROVE  Diary(h)' /\ (gap \/ Replayable(h)')
  BY <1>1 DEF Account, Timeline
<1>3. PICK f \in EventsOf(state, pending) : f = unstored'
  BY <1>1
<1>4. PICK N : N = {Gist(f[i]) : i \in DOMAIN f}
  OBVIOUS
<1>5. Known' = Known \cup N /\ Saved' = Saved
  <2>1. diary' = diary \cup {f[i] : i \in DOMAIN f}
    BY <1>1, <1>3 DEF News
  <2>2. Known' = Known \cup Gists({f[i] : i \in DOMAIN f})
    BY <2>1 DEF Known, Gists
  <2>3. QED
    BY <1>1, <1>4, <2>2, GistsOfRows, SameGists
<1>6. Keyed(Known) /\ Numbered(Known, state) /\ Unsaved = {}
  BY <1>2, NothingUnsaved DEF Diary, Base
<1>7. Keyed(Known') /\ Numbered(Known', state')
  <2>1. PICK D : D = Known
    OBVIOUS
  <2>2. Keyed(D \cup N) /\ Numbered(D \cup N, ApplyCommand(state, pending))
    BY <1>2, <1>4, <1>6, <2>1, FreshRows
  <2>3. QED
    BY <1>1, <1>5, <2>1, <2>2
<1>8. Base' = state'
  BY <1>1, <1>2 DEF Base
<1>9. Unsaved' \subseteq N
  BY <1>1, <1>5, <1>6 DEF Unsaved, Gists
<1>10. Diary(h)'
  <2>1. \E D : unstored' \in Seq(D) /\ Gists(D) \subseteq Known'
    <3>1. PICK D : D = {f[i] : i \in DOMAIN f}
      OBVIOUS
    <3>2. f \in Seq(D)
      BY <1>2, <3>1, SomeRows
    <3>3. QED
      BY <1>3, <1>4, <1>5, <3>1, <3>2, GistsOfRows
  <2>2. \A r \in Unsaved' : Pushed(r)'
    <3>1. \A r \in N : Pushed(r)'
      BY <1>3, <1>4 DEF Pushed
    <3>2. QED
      BY <1>9, <3>1
  <2>3. Saved' \subseteq Known'
    BY <1>5 DEF Diary
  <2>4. QED
    BY <1>7, <1>8, <2>1, <2>2, <2>3 DEF Diary
<1>11. ASSUME ~ gap PROVE Replayable(h)'
  <2>1. Replayable(h)
    BY <1>11
  <2>2. seq \in Logged /\ wal[seq] = pending /\ h[seq - 1] = state
    BY <1>1, <2>1 DEF Replayable
  <2>3. RowsAt(h, seq) = N
    BY <1>2, <1>4, <2>2, RowsAre DEF RowsAt
  <2>4. Logged' = Logged /\ \A n : RowsAt(h, n)' = RowsAt(h, n)
    BY <1>1 DEF Logged, WalAfter, Latest, RowsAt
  <2>5. ASSUME NEW n \in Logged
        PROVE  RowsAt(h, n) \subseteq Known'
    <3>1. CASE n = seq
      BY <1>5, <2>3, <3>1
    <3>2. CASE n # seq
      <4>1. n \in Nat /\ n <= seq /\ n # seq
        BY <1>2, <2>5, <3>2 DEF Logged, WalAfter
      <4>2. seq > n
        BY <1>2, <4>1
      <4>3. seq \in WalAfter(n)
        BY <2>2, <4>2 DEF Logged, WalAfter
      <4>4. RowsAt(h, n) \subseteq Known
        BY <2>1, <2>5, <4>3 DEF Replayable
      <4>5. QED
        BY <1>5, <4>4
    <3>3. QED
      BY <3>1, <3>2
  <2>6. \A r \in Unsaved' : \E n \in Logged : r \in RowsAt(h, n)
    BY <1>9, <2>2, <2>3
  <2>7. \A n \in Logged : h[n - 1] \in State
    BY <2>1 DEF Replayable
  <2>8. QED
    BY <1>1, <2>4, <2>5, <2>6, <2>7 DEF Replayable
<1>12. QED
  BY <1>10, <1>11

(* Replay leads to the rows that are there already, or, if the process died *)
(* between a command's entry in the log and its effect, to new ones.        *)
LEMMA TimelineReplay ==
  ASSUME NEW h, Account(h), ReplayOne
  PROVE  Timeline(h)'
<1>1. /\ mode = "loading" /\ unstored = <<>>
      /\ diary' = Insert(diary, News)
      /\ UNCHANGED <<mode, pending, wal, snapshots, stored, kept, gap, torn, missed>>
  BY DEF ReplayOne
<1>2. /\ Types /\ FollowsLog(h) /\ pending = NoCommand /\ ~ gap /\ state = h[seq]
      /\ state \in State /\ seq \in Nat /\ DOMAIN wal \subseteq Nat
      /\ Latest(snapshots) \in Nat /\ Latest(snapshots) <= seq
  BY <1>1, LatestType DEF Account, Follows, FollowsLog, Types, Phases, Data
<1> SUFFICES ASSUME ~ torn, Diary(h), Replayable(h)
             PROVE  Diary(h)' /\ Replayable(h)'
  BY <1>1, <1>2 DEF Account, Timeline
<1>3. PICK n : n = seq'
  OBVIOUS
<1>4. /\ n \in DOMAIN wal /\ n \in Nat /\ seq < n
      /\ \A m \in WalAfter(seq) : n <= m
      /\ Apply(wal[n])
  BY <1>2, <1>3, NextEntry
<1>5. PICK c \in Command : c = wal[n]
  BY <1>4 DEF Account, Data
<1>6. /\ n \in Logged /\ h[n - 1] = state
      /\ state' = ApplyCommand(state, c) /\ unstored' \in EventsOf(state, c)
  <2>1. n \in Logged
    BY <1>2, <1>4 DEF Logged, WalAfter
  <2>2. NoEntry(seq, n - 1)
    BY <1>2, <1>4 DEF NoEntry, WalAfter
  <2>3. n - 1 \in Nat /\ seq <= n - 1
    BY <1>2, <1>4
  <2>4. h[n - 1] = h[seq]
    BY <1>2, <2>2, <2>3 DEF FollowsLog
  <2>5. QED
    BY <1>2, <1>4, <1>5, <2>1, <2>4 DEF Apply
<1>7. PICK f \in EventsOf(state, c) : f = unstored'
  BY <1>6
<1>8. PICK N : N = {Gist(f[i]) : i \in DOMAIN f}
  OBVIOUS
<1>9. Known' = Insert(Known, N) /\ Saved' = Saved
  <2>1. News = {f[i] : i \in DOMAIN f}
    BY <1>7 DEF News
  <2>2. Gists(News) = N
    BY <1>8, <2>1, GistsOfRows
  <2>3. Known' = Gists(Insert(diary, News))
    BY <1>1 DEF Known, Gists
  <2>4. QED
    BY <1>1, <2>2, <2>3, GistsOfInsert, SameGists DEF Known
<1>10. RowsAt(h, n) = N
  BY <1>2, <1>5, <1>6, <1>8, RowsAre DEF RowsAt
<1>11. ~ Performed(n) /\ Keyed(Known) /\ Numbered(Known, kept)
  <2>1. ~ (n <= seq)
    BY <1>2, <1>4
  <2>2. QED
    BY <1>1, <2>1 DEF Performed, Diary, Base
<1>12. Known' = Known \cup N /\ Keyed(Known') /\ Numbered(Known', kept)
  <2>1. Known' = Known \cup {r \in N : ~ \E x \in Known : x.job = r.job /\ x.sequence = r.sequence}
    BY <1>9 DEF Insert
  <2>2. CASE N \subseteq Known
    <3>1. Known' = Known
      BY <2>1, <2>2
    <3>2. QED
      BY <1>11, <2>2, <3>1
  <2>3. CASE ~ (N \subseteq Known)
    <3>1. WalAfter(n) = {} /\ Numbered(Known, state)
      BY <1>6, <1>10, <2>3 DEF Replayable
    <3>2. h[n] = kept
      BY <1>2, <1>4, <3>1 DEF FollowsLog
    <3>3. h[n] = ApplyCommand(state, c)
      <4>1. NoEntry(seq, n - 1)
        BY <1>2, <1>4 DEF NoEntry, WalAfter
      <4>2. QED
        BY <1>2, <1>4, <1>5, <4>1 DEF FollowsLog
    <3>4. /\ Keyed(Known \cup N) /\ Numbered(Known \cup N, ApplyCommand(state, c))
          /\ \A r \in N, x \in Known : ~ (r.job = x.job /\ r.sequence = x.sequence)
      <4>1. Keyed(Known) /\ Numbered(Known, state) /\ state \in State
        BY <1>2, <1>11, <3>1
      <4>2. PICK D : D = Known
        OBVIOUS
      <4>3. LET G == {Gist(f[i]) : i \in DOMAIN f} IN
              /\ Keyed(D \cup G) /\ Numbered(D \cup G, ApplyCommand(state, c))
              /\ \A r \in G, x \in D : ~ (r.job = x.job /\ r.sequence = x.sequence)
        BY <4>1, <4>2, FreshRows
      <4>4. QED
        BY <1>8, <4>2, <4>3
    <3>5. Known' = Known \cup N
      BY <2>1, <3>4
    <3>6. QED
      BY <3>2, <3>3, <3>4, <3>5
  <2>4. QED
    BY <2>2, <2>3
<1>13. /\ Logged' = Logged /\ Base' = Base
       /\ \A m : WalAfter(m)' = WalAfter(m) /\ RowsAt(h, m)' = RowsAt(h, m)
  BY <1>1 DEF Logged, Latest, WalAfter, RowsAt, Base
<1>14. Unsaved' \subseteq Unsaved \cup N
  BY <1>1, <1>9, <1>12 DEF Unsaved, Gists
<1>15. \A r \in N : Pushed(r)'
  BY <1>7, <1>8 DEF Pushed
<1>16. Diary(h)'
  <2>1. \E D : unstored' \in Seq(D) /\ Gists(D) \subseteq Known'
    <3>1. PICK D : D = {f[i] : i \in DOMAIN f}
      OBVIOUS
    <3>2. f \in Seq(D)
      BY <1>2, <3>1, SomeRows
    <3>3. QED
      BY <1>7, <1>8, <1>12, <3>1, <3>2, GistsOfRows
  <2>2. ASSUME NEW r \in Unsaved'
        PROVE  Pushed(r)' \/ \E m \in WalAfter(n) : r \in RowsAt(h, m)
    <3>1. CASE r \in N
      BY <1>15, <3>1
    <3>2. CASE r \notin N
      <4>1. r \in Unsaved /\ ~ Pushed(r)
        <5>1. PICK empty : empty = unstored /\ DOMAIN empty = {}
          BY <1>1
        <5>2. QED
          BY <1>14, <2>2, <3>2, <5>1 DEF Pushed
      <4>2. PICK m \in WalAfter(seq) : r \in RowsAt(h, m)
        BY <1>1, <4>1 DEF Diary
      <4>3. m # n
        BY <1>10, <3>2, <4>2
      <4>4. m \in Nat /\ n <= m /\ m > n
        BY <1>2, <1>4, <4>2, <4>3 DEF WalAfter
      <4>5. m \in WalAfter(n)
        BY <4>2, <4>4 DEF WalAfter
      <4>6. QED
        BY <4>2, <4>5
    <3>3. QED
      BY <3>1, <3>2
  <2>3. \A r \in Unsaved' : Pushed(r)' \/ \E m \in WalAfter(seq)' : r \in RowsAt(h, m)'
    <3>1. WalAfter(seq)' = WalAfter(n)
      BY <1>1, <1>3 DEF WalAfter
    <3>2. QED
      BY <1>13, <2>2, <3>1
  <2>4. Saved' \subseteq Known'
    BY <1>9, <1>12 DEF Diary
  <2>5. Base' = kept
    BY <1>1, <1>13 DEF Base
  <2>6. QED
    BY <1>1, <1>2, <1>12, <2>1, <2>3, <2>4, <2>5 DEF Diary
<1>17. Replayable(h)'
  <2>1. ASSUME NEW m \in Logged
        PROVE  \/ RowsAt(h, m) \subseteq Known'
               \/ ~ Performed(m)' /\ WalAfter(m) = {} /\ Numbered(Known', h[m - 1])
    <3>1. CASE m = n
      BY <1>10, <1>12, <3>1
    <3>2. CASE m < n
      <4>1. n \in WalAfter(m)
        BY <1>4, <3>2 DEF WalAfter
      <4>2. RowsAt(h, m) \subseteq Known
        BY <2>1, <4>1 DEF Replayable
      <4>3. QED
        BY <1>12, <4>2
    <3>3. CASE m > n
      <4>1. m \in WalAfter(n)
        BY <2>1, <3>3 DEF Logged, WalAfter
      <4>2. N \subseteq Known
        BY <1>6, <1>10, <4>1 DEF Replayable
      <4>3. Known' = Known
        BY <1>12, <4>2
      <4>4. ~ Performed(m)'
        <5>1. ~ (m <= n) /\ mode' = "loading"
          BY <1>1, <1>2, <1>4, <2>1, <3>3 DEF Logged, WalAfter
        <5>2. QED
          BY <1>3, <5>1 DEF Performed
      <4>5. QED
        BY <2>1, <4>3, <4>4 DEF Replayable
    <3>4. QED
      BY <1>2, <1>4, <2>1, <3>1, <3>2, <3>3 DEF Logged, WalAfter
  <2>2. \A r \in Unsaved' : \E m \in Logged : r \in RowsAt(h, m)
    BY <1>6, <1>10, <1>14 DEF Replayable
  <2>3. \A m \in Logged : h[m - 1] \in State
    BY DEF Replayable
  <2>4. QED
    BY <1>1, <1>2, <1>13, <2>1, <2>2, <2>3 DEF Replayable
<1>18. QED
  BY <1>16, <1>17

LEMMA AccountStep == (\E h : Account(h)) /\ IndexSurvives /\ [Next]_vars
                       => (\E h : Account(h)')
<1> SUFFICES ASSUME NEW h, Account(h), IndexSurvives, [Next]_vars
             PROVE  \E g : Account(g)'
  OBVIOUS
<1>1. Follows(h) /\ Data /\ TypeOK /\ Types /\ Timeline(h)
  BY DEF Account, Follows
<1>2. Data' /\ \A g : Follows(g)' => TypeOK'
  BY <1>1, DataStep, TypeStep DEF Follows
<1>3. \A g : Follows(g)' /\ Timeline(g)' => Account(g)'
  BY <1>2 DEF Account
<1>4. ASSUME NEW c \in Command, AppendWal(c)
      PROVE  \E g : Follows(g)' /\ Timeline(g)'
  BY <1>1, <1>4, LoggedStep, TimelineLogged
<1>5. ASSUME NEW c \in Command, AppendWalFails(c)
      PROVE  Follows(h)' /\ Timeline(h)'
  BY <1>1, <1>5, UnloggedStep, TimelineUnlogged
<1>6. CASE Perform
  BY <1>1, <1>3, <1>6, PerformStep, TimelinePerform
<1>7. CASE StoreEvent
  <2>1. UNCHANGED <<mode, state, seq, pending, task, wal, snapshots, kept, gap>>
    BY <1>7 DEF StoreEvent, engineVars
  <2>2. QED
    BY <1>1, <1>3, <1>7, <2>1, ElsewhereStep, TimelineStore
<1>8. CASE WriteSnapshot
  BY <1>1, <1>3, <1>8, SnapshotStep, TimelineSnapshot
<1>9. CASE TrimSnapshots
  BY <1>1, <1>3, <1>9, TrimStep, TimelineTrim
<1>10. CASE CompactWal
  BY <1>1, <1>3, <1>10, CompactStep, TimelineCompact
<1>11. CASE Crash
  BY <1>1, <1>3, <1>11, CrashStep, TimelineCrash
<1>12. CASE Start
  BY <1>1, <1>3, <1>12, StartStep, TimelineStart
<1>13. CASE ReplayOne
  BY <1>1, <1>3, <1>13, ReplayStep, TimelineReplay
<1>14. CASE Serve
  BY <1>1, <1>3, <1>14, ServeStep, TimelineServe
<1>15. CASE WriteSnapshotFails \/ UNCHANGED vars
  <2>1. UNCHANGED <<mode, state, seq, pending, task, wal, snapshots, kept, gap,
                    unstored, stored, diary, torn, missed>>
    BY <1>15 DEF WriteSnapshotFails, vars, engineVars, ghostVars
  <2>2. Latest(snapshots)' = Latest(snapshots)
    BY <2>1 DEF Latest
  <2>3. QED
    BY <1>1, <1>3, <2>1, <2>2, ElsewhereStep, TimelineIdle
<1>16. QED
  BY <1>3, <1>4, <1>5, <1>6, <1>7, <1>8, <1>9, <1>10, <1>11, <1>12, <1>13, <1>14, <1>15 DEF Next

(* Number by number the stored timeline has what the commands led to and    *)
(* nothing else, crashes and replay notwithstanding, but for the offer a    *)
(* cancellation names; only insertions that failed may be missing.          *)
THEOREM TimelineIsKept == Spec => []TimelineSurvives
<1> DEFINE Inv == \E h : Account(h)
<1>1. Init => Inv /\ IndexSurvives
  BY AccountAtFirst, DataAtFirst
<1>2. Inv /\ IndexSurvives /\ [Next]_vars => Inv' /\ IndexSurvives'
  <2>1. Inv => Data /\ Types
    BY DEF Account, Follows
  <2>2. Inv /\ IndexSurvives /\ [Next]_vars => Inv'
    BY AccountStep
  <2>3. QED
    BY <2>1, <2>2, DataStep
<1>3. Inv => TimelineSurvives
  <2> SUFFICES ASSUME NEW h, Account(h), Idle, ~ torn
               PROVE  Known \ Gists(missed) \subseteq Saved /\ Saved \subseteq Known
    BY DEF TimelineSurvives, Known, Saved
  <2>1. Diary(h) /\ mode = "up" /\ unstored = <<>>
    BY DEF Account, Timeline, Idle
  <2>2. Unsaved = {}
    BY <2>1, NothingUnsaved
  <2>3. QED
    BY <2>1, <2>2 DEF Diary, Unsaved
<1> HIDE DEF Inv
<1>4. QED
  BY <1>1, <1>2, <1>3, PTL DEF Spec

=============================================================================
