------------------------- MODULE FeedSessionsProofs -------------------------
(***************************************************************************)
(* Proofs about the sessions during an import, for any number of requests  *)
(* and viewers and any number of feeds: no transaction sees two feeds, and *)
(* what ticks have stored belongs to the feed that is loaded.              *)
(*                                                                         *)
(* The argument is in the locks.  A session that has read something holds  *)
(* a lock on some table until it ends, an importer that has truncated      *)
(* excludes everybody from every table, so when the importer commits       *)
(* nobody has read anything.                                               *)
(***************************************************************************)
EXTENDS FeedSessions, SequenceTheorems, TLAPS

TableLock == [table : Tables, mode : Modes]

\* Nobody shares a table with a session that excludes everybody from it.
Exclusion ==
  \A s, r \in Sessions : \A a \in locks[s], b \in locks[r] :
    s # r /\ a.table = b.table => a.mode = "share" /\ b.mode = "share"

\* An import loads its feed behind locks on every table.
ImportExcludes ==
  statement[Importer] = "load" =>
    \A t \in Tables : \E held \in locks[Importer] : held = [table |-> t, mode |-> "exclusive"]

ReadersHoldLocks == \A s \in Sessions : saw[s] # {} => locks[s] # {}

ImporterReadsNothing == saw[Importer] = {}

\* What a transaction has read is what is loaded.
ReadsAreFresh == \A s \in Sessions : saw[s] \subseteq {feed}

\* What the loop's transaction has written so far follows from its statement.
WritesFollow ==
  /\ statement[Loop] = "commit" => wrote \in {{}, {"history", "current"}}
  /\ statement[Loop] = "upsert" => wrote = {"history"}
  /\ statement[Loop] \notin {"upsert", "commit"} => wrote = {}
  /\ statement[Loop] = "insert" \/ wrote # {} => saw[Loop] # {}

\* The two tables never say different things.
TablesAgree == current # None /\ history # None => current = history

IInv == /\ TypeOK /\ Exclusion /\ ImportExcludes /\ ReadersHoldLocks
        /\ ImporterReadsNothing /\ ReadsAreFresh /\ WritesFollow
        /\ PositionsOfFeed /\ TablesAgree

-----------------------------------------------------------------------------
\* The tables of the feed.
LEMMA TablesAre ==
  Tables = {"current", "history", "trips", "calendar", "stops", "routes"}
<1>1. DOMAIN GtfsTables = 1..6
  BY DEF GtfsTables
<1>2. 1..6 = {1, 2, 3, 4, 5, 6}
  OBVIOUS
<1>3. /\ GtfsTables[1] = "current" /\ GtfsTables[2] = "history" /\ GtfsTables[3] = "trips"
      /\ GtfsTables[4] = "calendar" /\ GtfsTables[5] = "stops" /\ GtfsTables[6] = "routes"
  BY DEF GtfsTables
<1> QED BY <1>1, <1>2, <1>3 DEF Tables

\* The statements, and what each of them locks.
LEMMA Statements ==
  DOMAIN LocksOf = {"maintain", "prune", "services", "segments", "insert", "upsert",
                    "truncate", "resolve", "dates", "connections", "stops", "routes",
                    "latest", "commit", "load", "idle"}
BY DEF LocksOf

\* Each statement locks tables of the feed.
LEMMA LocksTyped ==
  ASSUME NEW name \in DOMAIN LocksOf, NEW i \in DOMAIN LocksOf[name]
  PROVE  LocksOf[name][i] \in TableLock
<1> DEFINE T == {"current", "history", "trips", "calendar", "stops", "routes"}
<1>1. ASSUME NEW q \in Seq(T)
      PROVE  Share(q) \in Seq(TableLock) /\ Exclude(q) \in Seq(TableLock)
  <2>1. \A j \in DOMAIN q : q[j] \in Tables
    BY TablesAre
  <2>2. \A j \in DOMAIN q : /\ [table |-> q[j], mode |-> "share"] \in TableLock
                            /\ [table |-> q[j], mode |-> "exclusive"] \in TableLock
    BY <2>1 DEF TableLock, Modes
  <2>3. DOMAIN q = 1..Len(q) /\ Len(q) \in Nat
    OBVIOUS
  <2>4. Share(q) = [j \in 1..Len(q) |-> [table |-> q[j], mode |-> "share"]]
    BY <2>3 DEF Share
  <2>5. Exclude(q) = [j \in 1..Len(q) |-> [table |-> q[j], mode |-> "exclusive"]]
    BY <2>3 DEF Exclude
  <2>6. Share(q) \in [1..Len(q) -> TableLock] /\ Exclude(q) \in [1..Len(q) -> TableLock]
    BY <2>2, <2>3, <2>4, <2>5
  <2> QED BY <2>3, <2>6, SeqDef
<1>2. /\ <<"history", "current">> \in Seq(T) /\ <<"calendar">> \in Seq(T)
      /\ <<"trips", "routes", "stops">> \in Seq(T) /\ <<"history">> \in Seq(T)
      /\ <<"current">> \in Seq(T) /\ GtfsTables \in Seq(T) /\ <<"stops">> \in Seq(T)
      /\ <<"trips">> \in Seq(T) /\ <<"routes">> \in Seq(T)
      /\ <<"current", "trips", "routes">> \in Seq(T)
  BY DEF GtfsTables
<1> HIDE DEF T
<1>3. CASE name = "prune"
  <2>1. /\ Exclude(<<"history">>) \in Seq(TableLock)
        /\ Share(<<"current">>) \in Seq(TableLock)
    BY <1>1, <1>2
  <2>2. Exclude(<<"history">>) \o Share(<<"current">>) \in Seq(TableLock)
    BY <2>1, ConcatProperties
  <2>3. LocksOf[name] \in Seq(TableLock)
    BY <1>3, <2>2 DEF LocksOf
  <2> QED BY <2>3
<1>4. CASE name = "truncate"
  <2>1. LocksOf[name] = Exclude(GtfsTables)
    BY <1>4 DEF LocksOf
  <2> QED BY <2>1, <1>1, <1>2
<1>5. CASE name \in {"commit", "load", "idle"}
  BY <1>5 DEF LocksOf
<1>6. CASE name \in {"maintain", "services", "segments", "insert", "upsert", "resolve",
                     "dates", "connections", "stops", "routes", "latest"}
  <2>1. /\ LocksOf["maintain"] = Share(<<"history", "current">>)
        /\ LocksOf["services"] = Share(<<"calendar">>)
        /\ LocksOf["segments"] = Share(<<"trips", "routes", "stops">>)
        /\ LocksOf["insert"] = Share(<<"history">>)
        /\ LocksOf["upsert"] = Share(<<"current">>)
        /\ LocksOf["resolve"] = Share(<<"stops">>)
        /\ LocksOf["dates"] = Share(<<"calendar">>)
        /\ LocksOf["connections"] = Share(<<"trips">>)
        /\ LocksOf["stops"] = Share(<<"stops">>)
        /\ LocksOf["routes"] = Share(<<"routes">>)
        /\ LocksOf["latest"] = Share(<<"current", "trips", "routes">>)
    BY DEF LocksOf
  <2>2. LocksOf[name] \in Seq(TableLock)
    BY <1>6, <2>1, <1>1, <1>2, Zenon
  <2> QED BY <2>2
<1> QED BY <1>3, <1>4, <1>5, <1>6, Statements

\* A session that runs a statement that reads holds a lock.
LEMMA ReadersLock ==
  ASSUME NEW s \in Sessions,
         NEW name \in {"services", "segments", "resolve", "dates", "connections", "stops"},
         Runs(s, name)
  PROVE  locks[s] # {}
<1>1. 1 \in DOMAIN LocksOf[name]
  BY DEF LocksOf, Share
<1> QED BY <1>1 DEF Runs, Missing

\* The importer truncates behind a lock on every table.
LEMMA TruncateLocks ==
  ASSUME TypeOK, Runs(Importer, "truncate"), NEW t \in Tables
  PROVE  \E held \in locks[Importer] : held = [table |-> t, mode |-> "exclusive"]
<1>1. PICK i \in DOMAIN GtfsTables : t = GtfsTables[i]
  BY DEF Tables
<1>2. /\ i \in DOMAIN LocksOf["truncate"]
      /\ LocksOf["truncate"][i] = [table |-> t, mode |-> "exclusive"]
  BY <1>1 DEF LocksOf, Exclude
<1>3. PICK held \in locks[Importer] : Covers(held, LocksOf["truncate"][i])
  BY <1>2 DEF Runs, Missing
<1>4. held \in TableLock
  BY <1>3 DEF TypeOK, TableLock, Sessions
<1> QED BY <1>2, <1>3, <1>4 DEF Covers, TableLock

\* Who the sessions are.
LEMMA Roles ==
  /\ Loop \in Sessions /\ Importer \in Sessions /\ Loop # Importer
  /\ \A p \in Planners \cup Viewers : p \in Sessions /\ p # Loop /\ p # Importer
BY SessionsAssumption DEF Sessions

-----------------------------------------------------------------------------
\* Nothing is loaded, locked, read or written at the start.
LEMMA InitIInv == Init => IInv
<1> SUFFICES ASSUME Init PROVE IInv
  OBVIOUS
<1>1. "idle" \in DOMAIN LocksOf
  BY Statements
<1>2. TypeOK
  <2>1. feed \in 0..MaxFeeds
    BY MaxFeedsAssumption DEF Init
  <2>2. statement \in [Sessions -> DOMAIN LocksOf]
    BY <1>1 DEF Init
  <2>3. /\ locks \in [Sessions -> SUBSET [table : Tables, mode : Modes]]
        /\ saw \in [Sessions -> SUBSET (0..MaxFeeds)]
    BY DEF Init
  <2>4. /\ current \in Position \cup {None} /\ history \in Position \cup {None}
    BY DEF Init
  <2>5. wrote \subseteq {"history", "current"} /\ deleted \subseteq {"history", "current"}
    BY DEF Init
  <2>6. maintained \in BOOLEAN /\ aborted \in BOOLEAN
    BY DEF Init
  <2> QED BY <2>1, <2>2, <2>3, <2>4, <2>5, <2>6 DEF TypeOK
<1>3. \A s \in Sessions : statement[s] = "idle" /\ locks[s] = {} /\ saw[s] = {}
  BY DEF Init
<1>4. Exclusion /\ ReadersHoldLocks /\ ReadsAreFresh
  BY <1>3 DEF Exclusion, ReadersHoldLocks, ReadsAreFresh
<1>5. ImportExcludes /\ ImporterReadsNothing
  BY <1>3, Roles DEF ImportExcludes, ImporterReadsNothing
<1>6. WritesFollow
  <2>1. statement[Loop] = "idle" /\ wrote = {}
    BY <1>3, Roles DEF Init
  <2> QED BY <2>1 DEF WritesFollow
<1>7. PositionsOfFeed /\ TablesAgree
  BY DEF Init, PositionsOfFeed, TablesAgree
<1> QED BY <1>2, <1>4, <1>5, <1>6, <1>7 DEF IInv

\* A lock that is granted excludes nobody.
LEMMA LockStep ==
  ASSUME IInv, NEW s \in Sessions, Lock(s)
  PROVE  IInv'
<1>1. PICK lock \in Wants(s) : locks' = [locks EXCEPT ![s] = @ \cup {lock}]
  BY DEF Lock
<1>2. lock \in TableLock
  <2>1. PICK i \in Missing(s) : lock = LocksOf[statement[s]][i]
    BY DEF Wants
  <2>2. statement[s] \in DOMAIN LocksOf /\ i \in DOMAIN LocksOf[statement[s]]
    BY <2>1 DEF IInv, TypeOK, Missing
  <2> QED BY <2>1, <2>2, LocksTyped
<1>3. /\ UNCHANGED <<feed, current, history, statement, saw, wrote, deleted, maintained, aborted>>
      /\ locks \in [Sessions -> SUBSET TableLock]
  BY DEF Lock, IInv, TypeOK, TableLock, store, loopState
<1>4. locks' \in [Sessions -> SUBSET TableLock]
  BY <1>1, <1>2, <1>3
<1>5. /\ locks'[s] = locks[s] \cup {lock}
      /\ \A r \in Sessions : r # s => locks'[r] = locks[r]
      /\ \A r \in Sessions : locks[r] \subseteq locks'[r]
  BY <1>1, <1>3
<1>6. TypeOK'
  BY <1>3, <1>4 DEF IInv, TypeOK, TableLock
<1>7. Exclusion'
  <2> SUFFICES ASSUME NEW q \in Sessions, NEW r \in Sessions,
                      NEW a \in (locks')[q], NEW b \in (locks')[r],
                      q # r, a.table = b.table
               PROVE  a.mode = "share" /\ b.mode = "share"
    BY DEF Exclusion
  <2>1. a \in TableLock /\ b \in TableLock
    BY <1>4
  <2>2. \A p \in Sessions : \A held \in locks[p] :
          p # s /\ held.table = lock.table => "exclusive" \notin {held.mode, lock.mode}
    BY DEF Lock, WaitsFor
  <2>3. CASE a \in locks[q] /\ b \in locks[r]
    BY <2>3 DEF IInv, Exclusion
  <2>4. CASE a \notin locks[q]
    <3>1. q = s /\ a = lock /\ b \in locks[r]
      BY <2>4, <1>5
    <3> QED BY <3>1, <2>1, <2>2 DEF TableLock, Modes
  <2>5. CASE b \notin locks[r]
    <3>1. r = s /\ b = lock /\ a \in locks[q]
      BY <2>5, <1>5
    <3> QED BY <3>1, <2>1, <2>2 DEF TableLock, Modes
  <2> QED BY <2>3, <2>4, <2>5
<1>8. ImportExcludes'
  BY <1>3, <1>5, Roles DEF IInv, ImportExcludes
<1>9. ReadersHoldLocks'
  BY <1>3, <1>5 DEF IInv, ReadersHoldLocks
<1>10. ImporterReadsNothing' /\ ReadsAreFresh' /\ WritesFollow'
  BY <1>3 DEF IInv, ImporterReadsNothing, ReadsAreFresh, WritesFollow
<1>11. PositionsOfFeed' /\ TablesAgree'
  BY <1>3 DEF IInv, PositionsOfFeed, TablesAgree
<1> QED BY <1>6, <1>7, <1>8, <1>9, <1>10, <1>11 DEF IInv

\* What the end of a transaction does to the invariant's parts on sessions.
LEMMA EndStep ==
  ASSUME IInv, NEW s \in Sessions, End(s)
  PROVE  /\ statement' \in [Sessions -> DOMAIN LocksOf]
         /\ locks' \in [Sessions -> SUBSET TableLock]
         /\ saw' \in [Sessions -> SUBSET (0..MaxFeeds)]
         /\ Exclusion' /\ ImportExcludes' /\ ReadersHoldLocks' /\ ImporterReadsNothing'
         /\ \A r \in Sessions : saw'[r] \subseteq saw[r]
         /\ statement'[s] = "idle" /\ saw'[s] = {}
         /\ \A r \in Sessions : r # s => statement'[r] = statement[r] /\ saw'[r] = saw[r]
<1>1. /\ statement \in [Sessions -> DOMAIN LocksOf]
      /\ locks \in [Sessions -> SUBSET TableLock]
      /\ saw \in [Sessions -> SUBSET (0..MaxFeeds)]
  BY DEF IInv, TypeOK, TableLock
<1>2. /\ statement' \in [Sessions -> DOMAIN LocksOf]
      /\ locks' \in [Sessions -> SUBSET TableLock]
      /\ saw' \in [Sessions -> SUBSET (0..MaxFeeds)]
  BY <1>1, Statements DEF End
<1>3. /\ statement'[s] = "idle" /\ saw'[s] = {} /\ locks'[s] = {}
      /\ \A r \in Sessions :
           r # s => statement'[r] = statement[r] /\ saw'[r] = saw[r] /\ locks'[r] = locks[r]
  BY <1>1 DEF End
<1>4. Exclusion'
  BY <1>3 DEF IInv, Exclusion
<1>5. ImportExcludes'
  BY <1>3, Roles DEF IInv, ImportExcludes
<1>6. ReadersHoldLocks' /\ ImporterReadsNothing'
  BY <1>3, Roles DEF IInv, ReadersHoldLocks, ImporterReadsNothing
<1> QED BY <1>2, <1>3, <1>4, <1>5, <1>6

\* A transaction that goes on with a statement other than the load.
LEMMA ContinueStep ==
  ASSUME IInv, NEW s \in Sessions, NEW name \in DOMAIN LocksOf, Continue(s, name),
         s = Importer => name # "load"
  PROVE  /\ statement' \in [Sessions -> DOMAIN LocksOf]
         /\ Exclusion' /\ ImportExcludes'
         /\ statement'[s] = name
         /\ \A r \in Sessions : r # s => statement'[r] = statement[r]
<1>1. statement \in [Sessions -> DOMAIN LocksOf] /\ locks' = locks
  BY DEF IInv, TypeOK, Continue
<1>2. /\ statement' \in [Sessions -> DOMAIN LocksOf]
      /\ statement'[s] = name
      /\ \A r \in Sessions : r # s => statement'[r] = statement[r]
  BY <1>1 DEF Continue
<1>3. Exclusion'
  BY <1>1 DEF IInv, Exclusion
<1>4. ImportExcludes'
  BY <1>1, <1>2, Roles DEF IInv, ImportExcludes
<1> QED BY <1>2, <1>3, <1>4

\* A session that reads holds a lock and sees what is loaded.
LEMMA ReadStep ==
  ASSUME IInv, NEW s \in Sessions, s # Importer, Read(s), locks[s] # {},
         UNCHANGED <<locks, feed>>
  PROVE  /\ saw' \in [Sessions -> SUBSET (0..MaxFeeds)]
         /\ ReadersHoldLocks' /\ ImporterReadsNothing' /\ ReadsAreFresh'
         /\ saw'[s] # {} /\ \A r \in Sessions : r # s => saw'[r] = saw[r]
<1>1. saw \in [Sessions -> SUBSET (0..MaxFeeds)] /\ feed \in 0..MaxFeeds
  BY DEF IInv, TypeOK
<1>2. /\ saw'[s] = saw[s] \cup {feed}
      /\ \A r \in Sessions : r # s => saw'[r] = saw[r]
      /\ saw' \in [Sessions -> SUBSET (0..MaxFeeds)]
  BY <1>1 DEF Read
<1> QED BY <1>2, Roles DEF IInv, ReadersHoldLocks, ImporterReadsNothing, ReadsAreFresh

-----------------------------------------------------------------------------
\* A deadlock's victim loses its transaction.
LEMMA VictimStep ==
  ASSUME IInv, NEW s \in Sessions, Victim(s)
  PROVE  IInv'
<1>1. End(s) /\ UNCHANGED <<feed, current, history, maintained>>
  BY DEF Victim, store
<1>2. \/ s = Loop /\ aborted' = TRUE /\ wrote' = {} /\ deleted' = {}
      \/ s # Loop /\ UNCHANGED <<aborted, wrote, deleted>>
  BY DEF Victim
<1>3. TypeOK'
  BY <1>1, <1>2, EndStep DEF IInv, TypeOK, TableLock
<1>4. ReadsAreFresh'
  BY <1>1, EndStep DEF IInv, ReadsAreFresh
<1>5. WritesFollow'
  BY <1>1, <1>2, EndStep, Roles DEF IInv, WritesFollow
<1>6. PositionsOfFeed' /\ TablesAgree'
  BY <1>1 DEF IInv, PositionsOfFeed, TablesAgree
<1> QED BY <1>1, <1>3, <1>4, <1>5, <1>6, EndStep DEF IInv

\* A request that is answered and a snapshot that is read end a transaction
\* that has written nothing.
LEMMA AnswerStep ==
  ASSUME IInv, NEW s \in Planners \cup Viewers, End(s), UNCHANGED <<store, loopState>>
  PROVE  IInv'
<1>1. s \in Sessions /\ s # Loop /\ s # Importer
  BY Roles
<1>2. UNCHANGED <<feed, current, history, wrote, deleted, maintained, aborted>>
  BY DEF store, loopState
<1>3. TypeOK'
  BY <1>1, <1>2, EndStep DEF IInv, TypeOK, TableLock
<1>4. ReadsAreFresh' /\ WritesFollow'
  BY <1>1, <1>2, EndStep, Roles DEF IInv, ReadsAreFresh, WritesFollow
<1>5. PositionsOfFeed' /\ TablesAgree'
  BY <1>2 DEF IInv, PositionsOfFeed, TablesAgree
<1> QED BY <1>1, <1>3, <1>4, <1>5, EndStep DEF IInv

\* A session other than the loop goes on without reading.
LEMMA BeginStep ==
  ASSUME IInv, NEW s \in Sessions, s # Loop, NEW name \in DOMAIN LocksOf, name # "load",
         Continue(s, name), UNCHANGED <<store, saw, loopState>>
  PROVE  IInv'
<1>1. UNCHANGED <<feed, current, history, saw, wrote, deleted, maintained, aborted, locks>>
  BY DEF store, loopState, Continue
<1>2. TypeOK'
  BY <1>1, ContinueStep DEF IInv, TypeOK
<1>3. ReadersHoldLocks' /\ ImporterReadsNothing' /\ ReadsAreFresh' /\ WritesFollow'
  BY <1>1, ContinueStep, Roles DEF IInv, ReadersHoldLocks, ImporterReadsNothing,
     ReadsAreFresh, WritesFollow
<1>4. PositionsOfFeed' /\ TablesAgree'
  BY <1>1 DEF IInv, PositionsOfFeed, TablesAgree
<1> QED BY <1>2, <1>3, <1>4, ContinueStep DEF IInv

\* A plan request reads and goes on.
LEMMA PlanStep ==
  ASSUME IInv, NEW p \in Planners, NEW name \in DOMAIN PlanSteps, Plan(p, name)
  PROVE  IInv'
<1>1. p \in Sessions /\ p # Loop /\ p # Importer
  BY Roles
<1>2. /\ name \in {"resolve", "dates", "connections", "stops"}
      /\ PlanSteps[name] \in DOMAIN LocksOf
  BY Statements DEF PlanSteps
<1>3. locks[p] # {}
  BY <1>1, <1>2, ReadersLock DEF Plan
<1>4. /\ UNCHANGED <<feed, current, history, wrote, deleted, maintained, aborted, locks>>
      /\ Read(p) /\ Continue(p, PlanSteps[name])
  BY DEF Plan, store, loopState, Continue
<1>5. TypeOK'
  BY <1>1, <1>2, <1>3, <1>4, ContinueStep, ReadStep DEF IInv, TypeOK
<1>6. ReadersHoldLocks' /\ ImporterReadsNothing' /\ ReadsAreFresh'
  BY <1>1, <1>3, <1>4, ReadStep
<1>7. Exclusion' /\ ImportExcludes'
  BY <1>1, <1>2, <1>4, ContinueStep
<1>8. WritesFollow'
  <2>1. statement'[Loop] = statement[Loop] /\ saw'[Loop] = saw[Loop]
    BY <1>1, <1>2, <1>3, <1>4, ContinueStep, ReadStep, Roles
  <2> QED BY <1>4, <2>1 DEF IInv, WritesFollow
<1>9. PositionsOfFeed' /\ TablesAgree'
  BY <1>4 DEF IInv, PositionsOfFeed, TablesAgree
<1> QED BY <1>5, <1>6, <1>7, <1>8, <1>9 DEF IInv

-----------------------------------------------------------------------------
\* The loop's reading statements.
LEMMA LoopReadStep ==
  ASSUME IInv, NEW name \in {"services", "segments"}, Runs(Loop, name),
         NEW next \in {"segments", "insert", "commit"},
         Read(Loop), Continue(Loop, next), UNCHANGED <<store, loopState>>
  PROVE  IInv'
<1>1. next \in DOMAIN LocksOf
  BY Statements
<1>2. locks[Loop] # {}
  BY ReadersLock, Roles
<1>3. UNCHANGED <<feed, current, history, wrote, deleted, maintained, aborted, locks>>
  BY DEF store, loopState, Continue
<1>4. TypeOK'
  BY <1>1, <1>2, <1>3, ContinueStep, ReadStep, Roles DEF IInv, TypeOK
<1>5. ReadersHoldLocks' /\ ImporterReadsNothing' /\ ReadsAreFresh'
  BY <1>2, <1>3, ReadStep, Roles
<1>6. Exclusion' /\ ImportExcludes'
  BY <1>1, ContinueStep, Roles
<1>7. WritesFollow'
  <2>1. wrote = {}
    BY DEF IInv, WritesFollow, Runs
  <2>2. statement'[Loop] = next /\ saw'[Loop] # {}
    BY <1>1, <1>2, <1>3, ContinueStep, ReadStep, Roles
  <2> QED BY <1>3, <2>1, <2>2 DEF WritesFollow
<1>8. PositionsOfFeed' /\ TablesAgree'
  BY <1>3 DEF IInv, PositionsOfFeed, TablesAgree
<1> QED BY <1>4, <1>5, <1>6, <1>7, <1>8 DEF IInv

\* The loop's other statements before the commit.
LEMMA LoopWriteStep ==
  ASSUME IInv, \/ \E first \in {"maintain", "prune", "services"} : BeginTick(first)
               \/ \E expired \in SUBSET {"current", "history"} : Maintain(expired)
               \/ InsertHistory \/ UpsertCurrent
  PROVE  IInv'
<1>1. PICK name \in {"maintain", "prune", "services", "upsert", "commit"} : Continue(Loop, name)
  BY DEF BeginTick, Maintain, InsertHistory, UpsertCurrent
<1>2. name \in DOMAIN LocksOf
  BY Statements
<1>3. UNCHANGED <<feed, current, history, saw, aborted, locks>>
  BY DEF BeginTick, Maintain, InsertHistory, UpsertCurrent, store, loopState, Continue
<1>4. /\ wrote' \subseteq {"history", "current"} /\ deleted' \subseteq {"history", "current"}
      /\ maintained' \in BOOLEAN
  BY DEF IInv, TypeOK, BeginTick, Maintain, InsertHistory, UpsertCurrent, loopState
<1>5. TypeOK'
  BY <1>1, <1>2, <1>3, <1>4, ContinueStep, Roles DEF IInv, TypeOK
<1>6. /\ Exclusion' /\ ImportExcludes' /\ statement'[Loop] = name
  BY <1>1, <1>2, ContinueStep, Roles
<1>7. ReadersHoldLocks' /\ ImporterReadsNothing' /\ ReadsAreFresh'
  BY <1>3 DEF IInv, ReadersHoldLocks, ImporterReadsNothing, ReadsAreFresh
<1>8. WritesFollow'
  <2>1. statement \in [Sessions -> DOMAIN LocksOf]
    BY DEF IInv, TypeOK
  <2>2. CASE \E first \in {"maintain", "prune", "services"} : BeginTick(first)
    <3>1. statement[Loop] = "idle" /\ wrote' = wrote
      BY <2>2 DEF BeginTick, loopState
    <3>2. statement'[Loop] \in {"maintain", "prune", "services"}
      BY <2>1, <2>2, Roles DEF BeginTick, Continue
    <3> QED BY <1>3, <3>1, <3>2 DEF IInv, WritesFollow
  <2>3. CASE \E expired \in SUBSET {"current", "history"} : Maintain(expired)
    <3>1. statement[Loop] \in {"maintain", "prune"} /\ wrote' = wrote
      BY <2>3 DEF Maintain, Runs
    <3>2. statement'[Loop] = "services"
      BY <2>1, <2>3, Roles DEF Maintain, Continue
    <3> QED BY <1>3, <3>1, <3>2 DEF IInv, WritesFollow
  <2>4. CASE InsertHistory
    <3>1. statement[Loop] = "insert" /\ wrote' = wrote \cup {"history"}
      BY <2>4 DEF InsertHistory, Runs
    <3>2. statement'[Loop] = "upsert"
      BY <2>1, <2>4, Roles DEF InsertHistory, Continue
    <3> QED BY <1>3, <3>1, <3>2 DEF IInv, WritesFollow
  <2>5. CASE UpsertCurrent
    <3>1. statement[Loop] = "upsert" /\ wrote' = wrote \cup {"current"}
      BY <2>5 DEF UpsertCurrent, Runs
    <3>2. statement'[Loop] = "commit"
      BY <2>1, <2>5, Roles DEF UpsertCurrent, Continue
    <3> QED BY <1>3, <3>1, <3>2 DEF IInv, WritesFollow
  <2> QED BY <2>2, <2>3, <2>4, <2>5
<1>9. PositionsOfFeed' /\ TablesAgree'
  BY <1>3 DEF IInv, PositionsOfFeed, TablesAgree
<1> QED BY <1>5, <1>6, <1>7, <1>8, <1>9 DEF IInv

\* There is a mark to tell new positions by, since the tables agree.
LEMMA MarksDiffer ==
  ASSUME IInv
  PROVE  FreshMark \in 0..1
<1>1. /\ current \in Position \cup {None} /\ history \in Position \cup {None}
      /\ current # None /\ history # None => current = history
  BY DEF IInv, TypeOK, TablesAgree
<1>2. \E m \in 0..1 : \A row \in {current, history} \ {None} : row.mark # m
  <2>1. CASE \E row \in {current, history} \ {None} : row.mark = 0
    <3>1. PICK row \in {current, history} \ {None} : row.mark = 0
      BY <2>1
    <3>2. \A other \in {current, history} \ {None} : other = row
      BY <1>1, <3>1
    <3> QED BY <3>1, <3>2
  <2>2. CASE \A row \in {current, history} \ {None} : row.mark # 0
    BY <2>2
  <2> QED BY <2>1, <2>2
<1> QED BY <1>2 DEF FreshMark

\* The loop's commit stores the positions in both tables or in none, and they are
\* of the feed that is loaded; what the maintenance has deleted is gone.
LEMMA CommitTickEffect ==
  ASSUME IInv, CommitTick
  PROVE  \/ current' \in {current, None} /\ history' \in {history, None}
         \/ current' = history' /\ current' \in Position /\ current'.feed = feed
<1>1. wrote \in {{}, {"history", "current"}} /\ (wrote # {} => saw[Loop] # {})
  BY DEF IInv, WritesFollow, CommitTick, Runs
<1>2. history' = Stored("history", history) /\ current' = Stored("current", current)
  BY DEF CommitTick
<1>3. CASE wrote = {}
  BY <1>2, <1>3 DEF Stored
<1>4. CASE wrote # {}
  <2>1. history' = Written /\ current' = Written
    BY <1>1, <1>2, <1>4 DEF Stored
  <2>2. saw[Loop] = {feed}
    BY <1>1, <1>4, Roles DEF IInv, ReadsAreFresh
  <2>3. (CHOOSE f \in saw[Loop] : TRUE) = feed
    BY <2>2
  <2> QED BY <2>1, <2>3, MarksDiffer DEF Written, Position, IInv, TypeOK
<1> QED BY <1>3, <1>4

LEMMA CommitTickStep ==
  ASSUME IInv, CommitTick
  PROVE  IInv'
<1>1. End(Loop) /\ UNCHANGED <<feed, maintained, aborted>> /\ wrote' = {} /\ deleted' = {}
  BY DEF CommitTick
<1>2. /\ current \in Position \cup {None} /\ history \in Position \cup {None}
      /\ current # None => current.feed = feed
      /\ history # None => history.feed = feed
  BY DEF IInv, TypeOK, PositionsOfFeed
<1>3. \/ current' \in {current, None} /\ history' \in {history, None}
      \/ current' = history' /\ current' \in Position /\ current'.feed = feed
  BY CommitTickEffect
<1>5. TypeOK'
  <2>1. current' \in Position \cup {None} /\ history' \in Position \cup {None}
    BY <1>2, <1>3
  <2> QED BY <1>1, <2>1, EndStep, Roles DEF IInv, TypeOK, TableLock
<1>6. ReadsAreFresh' /\ WritesFollow'
  BY <1>1, EndStep, Roles DEF IInv, ReadsAreFresh, WritesFollow
<1>7. TablesAgree'
  BY <1>3 DEF IInv, TablesAgree
<1>8. PositionsOfFeed'
  BY <1>1, <1>2, <1>3 DEF PositionsOfFeed
<1> QED BY <1>1, <1>5, <1>6, <1>7, <1>8, EndStep, Roles DEF IInv

-----------------------------------------------------------------------------
\* The importer loads behind the locks its TRUNCATE took.
LEMMA TruncateStep ==
  ASSUME IInv, Truncate
  PROVE  IInv'
<1>1. UNCHANGED <<feed, current, history, saw, wrote, deleted, maintained, aborted, locks>>
  BY DEF Truncate, store, loopState, Continue
<1>2. /\ statement' = [statement EXCEPT ![Importer] = "load"]
      /\ statement \in [Sessions -> DOMAIN LocksOf]
  BY DEF Truncate, Continue, IInv, TypeOK
<1>3. /\ statement' \in [Sessions -> DOMAIN LocksOf]
      /\ statement'[Loop] = statement[Loop]
  BY <1>2, Roles, Statements
<1>4. TypeOK'
  BY <1>1, <1>3 DEF IInv, TypeOK
<1>5. ImportExcludes'
  <2>1. \A t \in Tables : \E held \in locks[Importer] : held = [table |-> t, mode |-> "exclusive"]
    BY TruncateLocks DEF Truncate, IInv
  <2> QED BY <1>1, <2>1 DEF ImportExcludes
<1>6. /\ Exclusion' /\ ReadersHoldLocks' /\ ImporterReadsNothing' /\ ReadsAreFresh'
  BY <1>1 DEF IInv, Exclusion, ReadersHoldLocks, ImporterReadsNothing, ReadsAreFresh
<1>7. WritesFollow'
  BY <1>1, <1>3 DEF IInv, WritesFollow
<1>8. PositionsOfFeed' /\ TablesAgree'
  BY <1>1 DEF IInv, PositionsOfFeed, TablesAgree
<1> QED BY <1>4, <1>5, <1>6, <1>7, <1>8 DEF IInv

\* An import that fails leaves the feed as it was.
LEMMA ImportFailsStep ==
  ASSUME IInv, ImportFails
  PROVE  IInv'
<1>1. /\ End(Importer)
      /\ UNCHANGED <<feed, current, history, wrote, deleted, maintained, aborted>>
  BY DEF ImportFails, store, loopState
<1>2. TypeOK'
  BY <1>1, EndStep, Roles DEF IInv, TypeOK, TableLock
<1>3. ReadsAreFresh' /\ WritesFollow'
  BY <1>1, EndStep, Roles DEF IInv, ReadsAreFresh, WritesFollow
<1>4. PositionsOfFeed' /\ TablesAgree'
  BY <1>1 DEF IInv, PositionsOfFeed, TablesAgree
<1> QED BY <1>1, <1>2, <1>3, <1>4, EndStep, Roles DEF IInv

\* When an import commits, nobody has read anything: whoever had would hold a
\* lock on a table the importer excludes everybody from.
LEMMA CommitImportStep ==
  ASSUME IInv, CommitImport, feed < MaxFeeds
  PROVE  IInv'
<1>1. /\ End(Importer) /\ feed' = feed + 1 /\ current' = None /\ history' = None
      /\ UNCHANGED <<wrote, deleted, maintained, aborted>>
  BY DEF CommitImport, loopState
<1>2. \A s \in Sessions : saw[s] = {}
  <2> SUFFICES ASSUME NEW s \in Sessions, saw[s] # {} PROVE FALSE
    OBVIOUS
  <2>1. s # Importer
    BY DEF IInv, ImporterReadsNothing
  <2>2. PICK held \in locks[s] : TRUE
    BY DEF IInv, ReadersHoldLocks
  <2>3. held \in TableLock
    BY <2>2 DEF IInv, TypeOK, TableLock
  <2>4. \E other \in locks[Importer] : other = [table |-> held.table, mode |-> "exclusive"]
    BY <2>3 DEF IInv, ImportExcludes, CommitImport, TableLock
  <2> QED BY <2>1, <2>2, <2>4, Roles DEF IInv, Exclusion
<1>3. TypeOK'
  <2>1. feed' \in 0..MaxFeeds
    BY <1>1, MaxFeedsAssumption DEF IInv, TypeOK
  <2> QED BY <1>1, <2>1, EndStep, Roles DEF IInv, TypeOK, TableLock
<1>4. ReadsAreFresh'
  BY <1>1, <1>2, EndStep, Roles DEF ReadsAreFresh
<1>5. WritesFollow'
  BY <1>1, EndStep, Roles DEF IInv, WritesFollow
<1>6. PositionsOfFeed' /\ TablesAgree'
  BY <1>1 DEF PositionsOfFeed, TablesAgree
<1> QED BY <1>1, <1>3, <1>4, <1>5, <1>6, EndStep, Roles DEF IInv

-----------------------------------------------------------------------------
\* An import that is under way has a feed to load.
ImportPending == statement[Importer] # "idle" => feed < MaxFeeds

\* Only a commit loads a feed, and only BeginImport starts an import.
LEMMA PendingStep ==
  ASSUME IInv, ImportPending, Next
  PROVE  ImportPending'
<1>1. statement \in [Sessions -> DOMAIN LocksOf]
  BY DEF IInv, TypeOK
<1>2. ASSUME NEW s \in Sessions, End(s), s = Importer \/ feed' = feed
      PROVE  ImportPending'
  <2>1. statement'[s] = "idle" /\ (s # Importer => statement'[Importer] = statement[Importer])
    BY <1>1, <1>2, Roles DEF End
  <2> QED BY <1>2, <2>1 DEF ImportPending
<1>3. ASSUME NEW s \in Sessions, NEW name, s # Importer, Continue(s, name), feed' = feed
      PROVE  ImportPending'
  <2>1. statement'[Importer] = statement[Importer]
    BY <1>1, <1>3, Roles DEF Continue
  <2> QED BY <1>3, <2>1 DEF ImportPending
<1>4. CASE \E s \in Sessions : Lock(s) \/ Victim(s)
  <2>1. PICK s \in Sessions : Lock(s) \/ Victim(s)
    BY <1>4
  <2>2. CASE Lock(s)
    BY <2>2 DEF Lock, store, ImportPending
  <2>3. CASE Victim(s)
    BY <2>3, <1>2 DEF Victim, store
  <2> QED BY <2>1, <2>2, <2>3
<1>5. CASE Ticks
  <2>1. CASE CommitTick
    BY <2>1, <1>2, Roles DEF CommitTick
  <2>2. CASE ~ CommitTick
    <3>1. feed' = feed /\ \E name : Continue(Loop, name)
      BY <1>5, <2>2 DEF Ticks, BeginTick, Maintain, InsertHistory, UpsertCurrent,
         ReadServices, ReadSegments, store
    <3> QED BY <3>1, <1>3, Roles
  <2> QED BY <2>1, <2>2
<1>6. CASE Midnight
  BY <1>6 DEF Midnight, store, ImportPending
<1>7. CASE BeginImport
  BY <1>7 DEF BeginImport, store, ImportPending
<1>8. CASE Imports
  <2>1. CASE Truncate
    BY <2>1 DEF Truncate, Runs, store, ImportPending
  <2>2. CASE ImportFails
    BY <2>2, <1>2, Roles DEF ImportFails
  <2>3. CASE CommitImport
    BY <2>3, <1>2, Roles DEF CommitImport
  <2> QED BY <1>8, <2>1, <2>2, <2>3 DEF Imports
<1>9. ASSUME NEW p \in Planners,
             Request(p) \/ (\E name \in DOMAIN PlanSteps : Plan(p, name)) \/ Answer(p)
      PROVE  ImportPending'
  <2>1. feed' = feed /\ (End(p) \/ \E name : Continue(p, name))
    BY <1>9 DEF Request, Plan, Answer, store
  <2> QED BY <2>1, <1>2, <1>3, Roles
<1>10. ASSUME NEW v \in Viewers, View(v) \/ Snapshot(v)
       PROVE  ImportPending'
  <2>1. feed' = feed /\ (End(v) \/ \E name : Continue(v, name))
    BY <1>10 DEF View, Snapshot, store
  <2> QED BY <2>1, <1>2, <1>3, Roles
<1> QED BY <1>4, <1>5, <1>6, <1>7, <1>8, <1>9, <1>10 DEF Next

\* A new day concerns only the maintenance.
LEMMA MidnightStep ==
  ASSUME IInv, Midnight
  PROVE  IInv'
<1>1. UNCHANGED <<feed, current, history, statement, locks, saw, wrote, deleted, aborted>>
  BY DEF Midnight, store
<1>2. maintained' = FALSE
  BY DEF Midnight
<1>3. TypeOK'
  BY <1>1, <1>2 DEF IInv, TypeOK
<1>4. /\ Exclusion' /\ ImportExcludes' /\ ReadersHoldLocks'
      /\ ImporterReadsNothing' /\ ReadsAreFresh'
  BY <1>1 DEF IInv, Exclusion, ImportExcludes, ReadersHoldLocks, ImporterReadsNothing,
     ReadsAreFresh
<1>5. WritesFollow' /\ PositionsOfFeed' /\ TablesAgree'
  BY <1>1 DEF IInv, WritesFollow, PositionsOfFeed, TablesAgree
<1> QED BY <1>3, <1>4, <1>5 DEF IInv

\* Every step of the sessions keeps the invariant.
LEMMA NextStep ==
  ASSUME IInv, ImportPending, Next
  PROVE  IInv'
<1>1. CASE \E s \in Sessions : Lock(s) \/ Victim(s)
  BY <1>1, LockStep, VictimStep
<1>2. CASE Ticks
  <2>1. CASE CommitTick
    BY <2>1, CommitTickStep
  <2>2. CASE \/ \E first \in {"maintain", "prune", "services"} : BeginTick(first)
             \/ \E expired \in SUBSET {"current", "history"} : Maintain(expired)
             \/ InsertHistory \/ UpsertCurrent
    BY <2>2, LoopWriteStep
  <2>3. ASSUME NEW next \in {"segments", "insert", "commit"},
               ReadServices(next) \/ ReadSegments(next)
        PROVE  IInv'
    BY <2>3, LoopReadStep DEF ReadServices, ReadSegments
  <2> QED BY <1>2, <2>1, <2>2, <2>3 DEF Ticks
<1>3. CASE Midnight
  BY <1>3, MidnightStep
<1>4. CASE BeginImport
  BY <1>4, BeginStep, Roles, Statements DEF BeginImport
<1>5. CASE Imports
  <2>1. CASE CommitImport
    <3>1. feed < MaxFeeds
      BY <2>1 DEF CommitImport, ImportPending
    <3> QED BY <2>1, <3>1, CommitImportStep
  <2> QED BY <1>5, <2>1, TruncateStep, ImportFailsStep DEF Imports
<1>6. ASSUME NEW p \in Planners,
             Request(p) \/ (\E name \in DOMAIN PlanSteps : Plan(p, name)) \/ Answer(p)
      PROVE  IInv'
  <2>1. CASE Request(p)
    BY <2>1, BeginStep, Roles, Statements DEF Request
  <2>2. CASE \E name \in DOMAIN PlanSteps : Plan(p, name)
    BY <2>2, PlanStep
  <2>3. CASE Answer(p)
    BY <2>3, AnswerStep DEF Answer
  <2> QED BY <1>6, <2>1, <2>2, <2>3
<1>7. ASSUME NEW v \in Viewers, View(v) \/ Snapshot(v)
      PROVE  IInv'
  <2>1. CASE View(v)
    BY <2>1, BeginStep, Roles, Statements DEF View
  <2>2. CASE Snapshot(v)
    BY <2>2, AnswerStep DEF Snapshot
  <2> QED BY <1>7, <2>1, <2>2
<1> QED BY <1>1, <1>2, <1>3, <1>4, <1>5, <1>6, <1>7 DEF Next

\* A step in which nothing changes.
LEMMA StutterStep ==
  ASSUME IInv, ImportPending, UNCHANGED vars
  PROVE  IInv' /\ ImportPending'
<1>1. UNCHANGED <<feed, current, history, statement, locks, saw, wrote, deleted, maintained,
                  aborted>>
  BY DEF vars, store, loopState
<1>2. TypeOK' /\ WritesFollow' /\ PositionsOfFeed' /\ TablesAgree' /\ ImportPending'
  BY <1>1 DEF IInv, TypeOK, WritesFollow, PositionsOfFeed, TablesAgree, ImportPending
<1>3. /\ Exclusion' /\ ImportExcludes' /\ ReadersHoldLocks'
      /\ ImporterReadsNothing' /\ ReadsAreFresh'
  BY <1>1 DEF IInv, Exclusion, ImportExcludes, ReadersHoldLocks, ImporterReadsNothing,
     ReadsAreFresh
<1> QED BY <1>2, <1>3 DEF IInv

\* The invariant of the sessions, in every state they reach.
LEMMA SessionsInvariant == Spec => [](IInv /\ ImportPending)
<1>1. Init => IInv /\ ImportPending
  <2> SUFFICES ASSUME Init PROVE ImportPending
    BY InitIInv
  <2>1. statement[Importer] = "idle"
    BY Roles DEF Init
  <2> QED BY <2>1 DEF ImportPending
<1>2. IInv /\ ImportPending /\ [Next]_vars => (IInv /\ ImportPending)'
  BY NextStep, PendingStep, StutterStep
<1> QED BY <1>1, <1>2, PTL DEF Spec

-----------------------------------------------------------------------------
\* Every variable keeps its type whoever runs: the tables hold positions of
\* feeds, the sessions run the statements the code sends (realtime_service.py
\* 39-46, 01_schema.sql 236-249).
THEOREM SessionTypesHold == Spec => []TypeOK
<1>1. IInv => TypeOK
  BY DEF IInv
<1> QED BY <1>1, SessionsInvariant, PTL

\* No plan request, and no tick, combines what it read from two feeds, at
\* whatever point of it an import commits (planner_service.py 29-123).
THEOREM TransactionsSeeOneFeed == Spec => []OneFeed
<1>1. IInv => OneFeed
  BY DEF IInv, ReadsAreFresh, OneFeed
<1> QED BY <1>1, SessionsInvariant, PTL

\* A stored position refers to a trip of the feed that is loaded, even when
\* the tick that stored it raced an import (realtime_service.py 66-118).
THEOREM PositionsBelongToFeed == Spec => []PositionsOfFeed
<1>1. IInv => PositionsOfFeed
  BY DEF IInv
<1> QED BY <1>1, SessionsInvariant, PTL

\* The step StoredAtomically allows.
StoresBoth ==
  /\ current' \notin {current, None} => history' = current'
  /\ history' \notin {history, None} => current' = history'

\* Only the commit of a tick puts positions into the tables.
LEMMA StepStoresBoth ==
  ASSUME IInv, Next
  PROVE  StoresBoth
<1>1. CASE CommitTick
  BY <1>1, CommitTickEffect DEF StoresBoth
<1>2. CASE ~ CommitTick
  <2>1. UNCHANGED <<current, history>> \/ (current' = None /\ history' = None)
    BY <1>2 DEF Next, Lock, Victim, Ticks, BeginTick, Maintain, InsertHistory, UpsertCurrent,
       ReadServices, ReadSegments, Midnight, BeginImport, Imports, Truncate, ImportFails,
       CommitImport, Request, Plan, Answer, View, Snapshot, store
  <2> QED BY <2>1 DEF StoresBoth
<1> QED BY <1>1, <1>2

\* The positions of a tick appear in the history and in the current state in one
\* step, whether the tick commits or falls victim to a deadlock, and whatever
\* maintenance and imports take out of either (realtime_service.py 52-64,
\* 01_schema.sql 299-310).
THEOREM PositionsStoredTogether == Spec => StoredAtomically
<1>1. IInv /\ [Next]_vars => [StoresBoth]_vars
  BY StepStoresBoth
<1>2. Spec => [][StoresBoth]_vars
  BY <1>1, SessionsInvariant, PTL DEF Spec
<1> QED BY <1>2 DEF StoredAtomically, StoresBoth
=============================================================================
