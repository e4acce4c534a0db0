---------------------------- MODULE ServiceProofs ----------------------------
(***************************************************************************)
(* What the services around the pipelines promise: the connection to       *)
(* Interactive Brokers and the position sync, the list of the accounts     *)
(* that twitterapi.io monitors, its stream of tweets, and the aliases.     *)
(*                                                                         *)
(* SessionInv is about the connection alone.  It is inductive because at   *)
(* most one session is open: a session that comes up is the only one, so   *)
(* that a connect which takes it hangs up nobody's.                        *)
(*                                                                         *)
(* TableInv is about the rows.  The write lock has no part in it: what     *)
(* counts is that syncs which overlap write the same values, so that a     *)
(* column that was right when it was compared is right at the commit.      *)
(*                                                                         *)
(* ListInv: no sync that still runs and no straggler is wrong about an     *)
(* account that is settled, so that none of their requests puts it out.    *)
(*                                                                         *)
(* StreamInv: what waits in the inbox came over this connection and after  *)
(* all that was handed over, so that an exception which empties the inbox  *)
(* drops only what is behind the message it is about.                      *)
(*                                                                         *)
(* WaitInv: the wait is the one that is due after the failures so far.     *)
(* That TweetStream's Doubled is what its equation says is proved first,   *)
(* by induction over the sets of numbers that contain what follows.        *)
(*                                                                         *)
(* AliasesInv: a call keeps one row of each core, and none that it looked  *)
(* at is better.                                                           *)
(*                                                                         *)
(* The last three are proved of instances, whose assumptions on constants  *)
(* are hypotheses.                                                         *)
(***************************************************************************)
EXTENDS PositionSync, Sequences, WellFoundedInduction, TLAPS

tableVars == <<account, table, lock, own, settled>>

-----------------------------------------------------------------------------
(* The connection. *)

SessionInv ==
  /\ SessionTypeOK
  /\ \A c \in Clients :
       /\ pc[c] # "idle" => c # ib
       /\ pc[c] = "up" => c \in Open
       /\ pc[c] = "idle" => failures[c] = 0
       /\ pc[c] # "sleep" => failures[c] < RetryMax
  /\ \A c, d \in Open : c = d
  /\ VerifiedOnly
  /\ SessionsOwned

LEMMA SessionInvInit == SessionInit => SessionInv
<1> SUFFICES ASSUME SessionInit PROVE SessionInv
  OBVIOUS
<1>1. SessionTypeOK
  <2>1. failures \in [Clients -> 0 .. RetryMax]
    BY ClientsAssumption DEF ClientsAssumption, SessionInit
  <2>2. pc \in [Clients -> {"idle", "dial", "up", "sleep"}]
    BY DEF SessionInit
  <2>3. line \in [Clients -> {"closed", "expected", "other"}]
    BY DEF SessionInit
  <2>4. QED
    BY <2>1, <2>2, <2>3 DEF SessionInit, SessionTypeOK
<1>2. Open = {}
  BY DEF SessionInit, Open
<1>3. QED
  BY <1>1, <1>2, ClientsAssumption
     DEF ClientsAssumption, SessionInit, SessionInv, VerifiedOnly, SessionsOwned, Connected

LEMMA SessionInvStep == SessionInv /\ SessionStep => SessionInv'
<1> SUFFICES ASSUME SessionInv, SessionStep PROVE SessionInv'
  OBVIOUS
<1> USE ClientsAssumption DEF ClientsAssumption
<1> USE DEF SessionInv, SessionTypeOK, VerifiedOnly, SessionsOwned, Connected, Open
<1>1. ASSUME NEW c \in Clients, Connect(c) PROVE SessionInv'
  BY <1>1 DEF Connect, Goto
<1>2. ASSUME NEW c \in Clients, Accept(c) PROVE SessionInv'
  BY <1>2 DEF Accept, Goto
<1>3. ASSUME NEW c \in Clients, AttemptFails(c) PROVE SessionInv'
  <2>1. held' \in BOOLEAN
    BY <1>3 DEF AttemptFails
  <2>2. /\ pc' = [pc EXCEPT ![c] = "sleep"]
        /\ line' = [line EXCEPT ![c] = "closed"]
        /\ failures' = [failures EXCEPT ![c] = @ + 1]
        /\ ib' = ib
        /\ failures[c] \in 0 .. RetryMax - 1
        /\ c # ib
    BY <1>3 DEF AttemptFails, Goto, Hang
  <2>3. SessionTypeOK'
    <3>1. failures[c] + 1 \in 0 .. RetryMax
      BY <2>2
    <3>2. failures' \in [Clients -> 0 .. RetryMax]
      BY <2>2, <3>1
    <3>3. pc' \in [Clients -> {"idle", "dial", "up", "sleep"}]
      BY <2>2
    <3>4. QED
      BY <2>1, <2>2, <3>2, <3>3
  <2>4. QED
    BY <2>2, <2>3
<1>4. ASSUME NEW c \in Clients, Wake(c) PROVE SessionInv'
  BY <1>4 DEF Wake, Goto, Return
<1>5. ASSUME NEW c \in Clients, Verify(c) PROVE SessionInv'
  BY <1>5 DEF Verify, Goto, Return
<1>6. ASSUME NEW c \in Clients, Mismatch(c) PROVE SessionInv'
  BY <1>6 DEF Mismatch, Goto, Return, Hang
<1>7. ASSUME NEW c \in Clients, Drop(c) PROVE SessionInv'
  BY <1>7 DEF Drop, Hang
<1>8. ASSUME Disconnect PROVE SessionInv'
  BY <1>8 DEF Disconnect, Hang
<1>9. ASSUME Notice PROVE SessionInv'
  BY <1>9 DEF Notice
<1>10. QED
  BY <1>1, <1>2, <1>3, <1>4, <1>5, <1>6, <1>7, <1>8, <1>9 DEF SessionStep, Connecting

LEMMA SessionInvStutter == SessionInv /\ UNCHANGED session => SessionInv'
  BY DEF SessionInv, SessionTypeOK, VerifiedOnly, SessionsOwned, Connected, Open, session

(* What the rest of the system does leaves the connection alone.             *)
LEMMA StepOfSession == [Next]_vars => SessionStep \/ UNCHANGED session
  BY DEF Next, vars, session, Syncing, Trade, Report, Select, Flush, FlushFails, Commit, Abort, End

LEMMA SessionInvariant == Spec => []SessionInv
<1>1. Init => SessionInv
  BY SessionInvInit DEF Init
<1>2. SessionInv /\ [Next]_vars => SessionInv'
  BY StepOfSession, SessionInvStep, SessionInvStutter
<1>3. QED
  BY <1>1, <1>2, PTL DEF Spec

(* A read of the broker finds no session whose account connect has not       *)
(* looked at, or found to be another, whatever calls of connect, disconnect  *)
(* and of the reads overlap.                                                 *)
THEOREM Verified == Spec => []VerifiedOnly
  BY SessionInvariant, PTL DEF SessionInv

(* Every open session has somebody who will close it: the provider, or the   *)
(* call of connect that opened it.                                           *)
THEOREM Owned == Spec => []SessionsOwned
  BY SessionInvariant, PTL DEF SessionInv

-----------------------------------------------------------------------------
(* What is written in one row. *)

MaybeRow == Rows \cup {Absent}

LEMMA RowsTyped == Rows \subseteq [quantity : Int, price : Nat] /\ Absent \notin Rows
<1>1. ASSUME NEW h \in Holdings PROVE Shares(h.halves) \in Int
  <2>1. h.halves \in Int
    BY HoldingsAssumption DEF HoldingsAssumption
  <2>2. QED
    BY <2>1 DEF Shares
<1>2. Rows \subseteq [quantity : Int, price : Nat]
  BY <1>1, HoldingsAssumption DEF HoldingsAssumption, Rows
<1>3. QED
  BY <1>2, HoldingsAssumption DEF HoldingsAssumption

(* What a sync has to do with a row agrees with the row and the report.      *)
Sensible(row, columns, r) ==
  /\ columns \subseteq Columns
  /\ "insert" \in columns => r # Absent
  /\ columns # {} => "insert" \in columns \/ row # Absent

(* A row says what the report says.                                          *)
Matches(row, r) == IF r = Absent THEN row = Absent \/ row.quantity = 0 ELSE row = r

LEMMA WrittenTyped ==
  ASSUME NEW row \in MaybeRow, NEW r \in MaybeRow, NEW columns, Sensible(row, columns, r)
  PROVE  /\ Written(row, columns, r) \in MaybeRow
         /\ row # Absent => Written(row, columns, r) # Absent
<1>1. CASE "insert" \in columns \/ columns = {}
  BY <1>1 DEF Written, Sensible
<1>2. CASE "insert" \notin columns /\ columns # {}
  <2>1. row \in Rows
    BY <1>2 DEF Sensible, MaybeRow
  <2>2. Target(row, r) \in Rows
    BY <2>1 DEF Target, MaybeRow, Rows
  <2>3. Written(row, columns, r) \in Rows
    BY <1>2, <2>1, <2>2 DEF Written, Rows
  <2>4. QED
    BY <2>3, RowsTyped DEF MaybeRow
<1>3. QED
  BY <1>1, <1>2

LEMMA DifferingSensible ==
  ASSUME NEW row \in MaybeRow, NEW r \in MaybeRow
  PROVE  Sensible(row, Differing(row, r), r)
  BY DEF Sensible, Differing, Columns

(* Once compared, a row that is written says what the report said.           *)
LEMMA DifferingMatches ==
  ASSUME NEW row \in MaybeRow, NEW r \in MaybeRow
  PROVE  Matches(Written(row, Differing(row, r), r), r)
<1>1. CASE row = Absent
  BY <1>1 DEF Matches, Written, Differing
<1>2. CASE row \in Rows /\ r = Absent
  BY <1>2, RowsTyped DEF Matches, Written, Differing, Target, Rows
<1>3. CASE row \in Rows /\ r \in Rows
  BY <1>3, RowsTyped DEF Matches, Written, Differing, Target, Rows
<1>4. QED
  BY <1>1, <1>2, <1>3 DEF MaybeRow

(* A row that is right stays right, whoever writes what the report said.     *)
LEMMA MatchesKept ==
  ASSUME NEW row \in MaybeRow, NEW r \in MaybeRow, NEW columns,
         Sensible(row, columns, r), Matches(row, r)
  PROVE  Matches(Written(row, columns, r), r)
<1>1. CASE "insert" \in columns \/ columns = {}
  BY <1>1 DEF Matches, Written, Sensible
<1>2. CASE "insert" \notin columns /\ columns # {}
  <2>1. row \in Rows
    BY <1>2 DEF Sensible, MaybeRow
  <2>2. CASE r = Absent
    BY <1>2, <2>1, <2>2, RowsTyped DEF Matches, Written, Target, Rows
  <2>3. CASE r # Absent
    BY <1>2, <2>1, <2>3, RowsTyped DEF Matches, Written, Target, Rows
  <2>4. QED
    BY <2>2, <2>3
<1>3. QED
  BY <1>1, <1>2

(* What a sync will write is right still after another one, with the same    *)
(* report, wrote other columns.                                              *)
LEMMA MatchesThroughout ==
  ASSUME NEW row \in MaybeRow, NEW r \in MaybeRow, NEW mine, NEW others,
         Sensible(row, mine, r), Sensible(row, others, r),
         Matches(Written(row, mine, r), r)
  PROVE  Matches(Written(Written(row, others, r), mine, r), r)
<1> DEFINE next == Written(row, others, r)
<1>1. CASE "insert" \in mine
  BY <1>1 DEF Matches, Written, Sensible
<1>2. CASE mine = {}
  BY <1>2, MatchesKept DEF Written
<1>3. CASE "insert" \in others \/ others = {}
  <2>1. CASE others = {}
    BY <2>1 DEF Written
  <2>2. CASE "insert" \in others
    <3>1. next = r /\ Matches(next, r) /\ next # Absent
      BY <2>2 DEF Written, Matches, Sensible
    <3>2. Sensible(next, mine, r)
      BY <3>1 DEF Sensible
    <3>3. QED
      BY <3>1, <3>2, MatchesKept
  <2>3. QED
    BY <1>3, <2>1, <2>2
<1>4. CASE "insert" \notin mine /\ mine # {} /\ "insert" \notin others /\ others # {}
  <2>1. row \in Rows
    BY <1>4 DEF Sensible, MaybeRow
  <2>2. CASE r = Absent
    BY <1>4, <2>1, <2>2, RowsTyped DEF Matches, Written, Target, Rows
  <2>3. CASE r # Absent
    BY <1>4, <2>1, <2>3, RowsTyped DEF Matches, Written, Target, Rows, MaybeRow
  <2>4. QED
    BY <2>2, <2>3
<1>5. QED
  BY <1>1, <1>2, <1>3, <1>4

-----------------------------------------------------------------------------
(* The rows. *)

Told(r, x) ==
  \/ HeldIn(x) = {} /\ r = Absent
  \/ \E k \in HeldIn(x) : r = Reported(holdings[k])

ShownBy(row, x) ==
  \/ HeldIn(x) = {} /\ (row = Absent \/ row.quantity = 0)
  \/ \E k \in HeldIn(x) : row = Reported(holdings[k])

Writing(s) == spc[s] \in {"flush", "commit"}

Agrees(s, x) == Matches(Written(table[x], dirty[s][x], report[s][x]), report[s][x])

TableTypeOK ==
  /\ holdings \in [Contracts -> Holdings \cup {Absent}]
  /\ trades \in 0 .. MaxTrades
  /\ table \in [Symbols -> MaybeRow]
  /\ lock \in Syncs \cup {Free}
  /\ spc \in [Syncs -> {"idle", "select", "flush", "commit", "done"}]
  /\ report \in [Syncs -> [Symbols -> MaybeRow]]
  /\ dirty \in [Syncs -> [Symbols -> SUBSET Columns]]
  /\ settled \in [Syncs -> SUBSET Symbols]

AllSensible ==
  \A s \in Syncs : Writing(s) =>
    \A x \in Symbols : Sensible(table[x], dirty[s][x], report[s][x])

(* About a symbol that some sync can settle, all that run were told the same *)
(* thing, and it is so.                                                      *)
Undisputed ==
  \A s \in Syncs : \A x \in settled[s] : \A u, v \in Syncs :
    Running(u) /\ Running(v) => Told(report[v][x], x) /\ report[u][x] = report[v][x]

(* A sync that can settle a symbol will write it right; once one has settled *)
(* it, all others will.                                                      *)
Compared ==
  \A s \in Syncs : \A x \in settled[s] : \A v \in Syncs :
    Writing(v) /\ (v = s \/ spc[s] = "done") => Agrees(v, x)

TableInv == TableTypeOK /\ AllSensible /\ Undisputed /\ Compared /\ SettledSynced

LEMMA ToldShown ==
  ASSUME TableTypeOK, NEW x \in Symbols, NEW r, NEW row, Told(r, x), Matches(row, r)
  PROVE  ShownBy(row, x)
<1>1. ASSUME NEW k \in HeldIn(x) PROVE Reported(holdings[k]) # Absent
  <2>1. holdings[k] \in Holdings
    BY <1>1 DEF HeldIn, TableTypeOK
  <2>2. Reported(holdings[k]) \in Rows
    BY <2>1 DEF Reported, Rows
  <2>3. QED
    BY <2>2, RowsTyped
<1>2. QED
  BY <1>1 DEF Told, Matches, ShownBy

LEMMA TableInvInit == Init => TableInv
<1> SUFFICES ASSUME Init PROVE TableInv
  OBVIOUS
<1>1. TableTypeOK
  BY HoldingsAssumption DEF HoldingsAssumption, Init, TableTypeOK, MaybeRow, Nothing, Clean
<1>2. QED
  BY <1>1 DEF Init, TableInv, TableTypeOK, AllSensible, Undisputed, Compared, SettledSynced, Writing

LEMMA TableInvStutter == TableInv /\ UNCHANGED tableVars => TableInv'
  BY DEF TableInv, TableTypeOK, AllSensible, Undisputed, Compared, SettledSynced, Writing, Running,
         Told, HeldIn, Agrees, Shown, tableVars, account, own

(* A trade takes its symbol from those that can be settled, and leaves the   *)
(* holdings of the others alone.                                             *)
LEMMA TradeKeeps ==
  ASSUME TableInv, NEW k \in Contracts, Trade(k)
  PROVE  TableInv'
<1> USE DEF TableInv, Trade
<1>1. TableTypeOK'
  BY HoldingsAssumption DEF HoldingsAssumption, TableTypeOK, own
<1>2. ASSUME NEW s \in Syncs, NEW x \in settled'[s]
      PROVE  /\ x \in settled[s] /\ x \in Symbols
             /\ HeldIn(x)' = HeldIn(x)
             /\ \A c \in HeldIn(x) : holdings'[c] = holdings[c]
  BY <1>2 DEF TableTypeOK, HeldIn
<1>3. AllSensible'
  BY DEF AllSensible, Writing, own
<1>4. Undisputed'
  BY <1>2 DEF Undisputed, Running, Told, own
<1>5. Compared'
  BY <1>2 DEF Compared, Writing, Agrees, own
<1>6. SettledSynced'
  BY <1>2 DEF SettledSynced, Shown, own
<1>7. QED
  BY <1>1, <1>3, <1>4, <1>5, <1>6

(* A report that contradicts one that is still to be written leaves its      *)
(* symbol to nobody.                                                         *)
LEMMA ReportKeeps ==
  ASSUME TableInv, NEW s \in Syncs, Report(s)
  PROVE  TableInv'
<1>1. PICK r \in [Symbols -> Rows \cup {Absent}] : Answer(r) /\ Receive(s, r)
  BY DEF Report
<1>2. /\ report' = [report EXCEPT ![s] = r]
      /\ spc' = [spc EXCEPT ![s] = "select"]
      /\ settled' = [v \in Syncs |-> (IF v = s THEN Symbols ELSE settled[v]) \ Contradicted(s, r)]
      /\ UNCHANGED <<holdings, trades, table, lock, dirty>>
  BY <1>1 DEF Report, Receive, account
<1> USE DEF TableInv
<1>3. TableTypeOK'
  BY <1>2 DEF TableTypeOK, MaybeRow
<1>4. ASSUME NEW v \in Syncs, NEW x \in settled'[v]
      PROVE  /\ x \in Symbols
             /\ v # s => x \in settled[v]
             /\ \A u \in Syncs \ {s} : Running(u) => report[u][x] = r[x]
  BY <1>2, <1>4 DEF TableTypeOK, Contradicted
<1>5. \A x \in Symbols : Told(r[x], x)
  BY <1>1 DEF Answer, Told
<1>6. AllSensible'
  BY <1>2 DEF AllSensible, TableTypeOK, Writing
<1>7. Undisputed'
  <2>1. SUFFICES ASSUME NEW v \in Syncs, NEW x \in settled'[v], NEW u \in Syncs, Running(u)'
                 PROVE  report'[u][x] = r[x] /\ Told(r[x], x)'
    BY <1>2 DEF Undisputed
  <2>2. QED
    BY <1>2, <1>4, <1>5, <2>1 DEF TableTypeOK, Running, Told, HeldIn
<1>8. Compared'
  BY <1>2, <1>4 DEF Compared, TableTypeOK, Writing, Agrees
<1>9. SettledSynced'
  BY <1>2, <1>4 DEF SettledSynced, TableTypeOK, Shown, HeldIn
<1>10. QED
  BY <1>3, <1>6, <1>7, <1>8, <1>9

LEMMA SelectKeeps ==
  ASSUME TableInv, NEW s \in Syncs, Select(s)
  PROVE  TableInv'
<1> USE DEF TableInv
<1>1. /\ dirty' = [dirty EXCEPT ![s] = Dirty(s)]
      /\ spc' = [spc EXCEPT ![s] = "flush"]
      /\ spc[s] = "select"
      /\ UNCHANGED <<holdings, trades, table, lock, report, settled>>
  BY DEF Select, account
<1>2. ASSUME NEW x \in Symbols
      PROVE  /\ table[x] \in MaybeRow /\ report[s][x] \in MaybeRow
             /\ dirty'[s][x] = Differing(table[x], report[s][x])
             /\ Sensible(table[x], dirty'[s][x], report[s][x])
             /\ Agrees(s, x)'
  <2>1. table[x] \in MaybeRow /\ report[s][x] \in MaybeRow
    BY DEF TableTypeOK
  <2>2. dirty'[s][x] = Differing(table[x], report[s][x])
    BY <1>1 DEF Dirty, TableTypeOK
  <2>3. QED
    BY <1>1, <2>1, <2>2, DifferingSensible, DifferingMatches DEF Agrees
<1>3. TableTypeOK'
  <2>1. Dirty(s) \in [Symbols -> SUBSET Columns]
    BY DEF Dirty, Differing, Columns
  <2>2. QED
    BY <1>1, <2>1 DEF TableTypeOK
<1>4. AllSensible'
  BY <1>1, <1>2 DEF AllSensible, TableTypeOK, Writing
<1>5. Undisputed'
  BY <1>1 DEF Undisputed, TableTypeOK, Running, Told, HeldIn
<1>6. Compared'
  BY <1>1, <1>2 DEF Compared, TableTypeOK, Writing, Agrees
<1>7. SettledSynced'
  BY <1>1 DEF SettledSynced, TableTypeOK, Shown, HeldIn
<1>8. QED
  BY <1>3, <1>4, <1>5, <1>6, <1>7

LEMMA FlushKeeps ==
  ASSUME TableInv, NEW s \in Syncs, Flush(s)
  PROVE  TableInv'
<1>1. /\ spc' = [spc EXCEPT ![s] = "commit"]
      /\ spc[s] = "flush"
      /\ lock' \in {lock, s}
      /\ UNCHANGED <<holdings, trades, table, report, dirty, settled>>
  BY DEF Flush, account
<1> USE DEF TableInv
<1>2. TableTypeOK'
  BY <1>1 DEF TableTypeOK
<1>3. ASSUME NEW v \in Syncs
      PROVE  /\ Writing(v)' = Writing(v) /\ Running(v)' = Running(v)
             /\ (spc'[v] = "done") = (spc[v] = "done")
  BY <1>1 DEF TableTypeOK, Writing, Running
<1>4. AllSensible' /\ Compared'
  BY <1>1, <1>3 DEF AllSensible, Compared, Agrees
<1>5. Undisputed' /\ SettledSynced'
  BY <1>1, <1>3 DEF Undisputed, SettledSynced, Told, Shown, HeldIn
<1>6. QED
  BY <1>2, <1>4, <1>5

(* A sync that rolls back settles nothing.                                   *)
LEMMA RollbackKeeps ==
  ASSUME TableInv, NEW s \in Syncs, FlushFails(s) \/ Abort(s)
  PROVE  TableInv'
<1>1. /\ spc' = [spc EXCEPT ![s] = "idle"]
      /\ report' = [report EXCEPT ![s] = Nothing]
      /\ dirty' = [dirty EXCEPT ![s] = Clean]
      /\ settled' = [settled EXCEPT ![s] = {}]
      /\ lock' \in {lock, Free}
      /\ UNCHANGED <<holdings, trades, table>>
  BY DEF FlushFails, Abort, End, account
<1> USE DEF TableInv
<1>2. TableTypeOK'
  BY <1>1 DEF TableTypeOK, Nothing, Clean, MaybeRow
<1>3. AllSensible'
  BY <1>1 DEF AllSensible, TableTypeOK, Writing
<1>4. Undisputed'
  BY <1>1 DEF Undisputed, TableTypeOK, Running, Told, HeldIn
<1>5. Compared'
  BY <1>1 DEF Compared, TableTypeOK, Writing, Agrees
<1>6. SettledSynced'
  BY <1>1 DEF SettledSynced, TableTypeOK, Shown, HeldIn
<1>7. QED
  BY <1>2, <1>3, <1>4, <1>5, <1>6

(* What s writes matches its report when s can settle the symbol, or when a  *)
(* sync that is done has settled it; and then the others will write the same.*)
LEMMA CommitKeeps ==
  ASSUME TableInv, NEW s \in Syncs, Commit(s)
  PROVE  TableInv'
<1>1. /\ table' = [x \in Symbols |-> Written(table[x], dirty[s][x], report[s][x])]
      /\ spc' = [spc EXCEPT ![s] = "done"]
      /\ report' = [report EXCEPT ![s] = Nothing]
      /\ dirty' = [dirty EXCEPT ![s] = Clean]
      /\ lock' \in {lock, Free}
      /\ Writing(s) /\ Running(s)
      /\ UNCHANGED <<holdings, trades, settled>>
  BY DEF Commit, End, account, Writing, Running
<1> USE DEF TableInv
<1>2. ASSUME NEW x \in Symbols
      PROVE  /\ table[x] \in MaybeRow /\ report[s][x] \in MaybeRow
             /\ Sensible(table[x], dirty[s][x], report[s][x])
             /\ table'[x] = Written(table[x], dirty[s][x], report[s][x])
             /\ table'[x] \in MaybeRow
             /\ table[x] # Absent => table'[x] # Absent
  <2>1. table[x] \in MaybeRow /\ report[s][x] \in MaybeRow
    BY DEF TableTypeOK
  <2>2. Sensible(table[x], dirty[s][x], report[s][x])
    BY <1>1 DEF AllSensible
  <2>3. QED
    BY <1>1, <2>1, <2>2, WrittenTyped
<1>3. TableTypeOK'
  BY <1>1, <1>2 DEF TableTypeOK, Nothing, Clean, MaybeRow
<1>4. ASSUME NEW v \in Syncs, v # s
      PROVE  /\ Writing(v)' = Writing(v) /\ Running(v)' = Running(v) /\ spc'[v] = spc[v]
             /\ report'[v] = report[v] /\ dirty'[v] = dirty[v]
             /\ Writing(v) => Running(v)
  BY <1>1, <1>4 DEF TableTypeOK, Writing, Running
<1>5. ~Writing(s)' /\ ~Running(s)' /\ spc'[s] = "done"
  BY <1>1 DEF TableTypeOK, Writing, Running
<1>6. AllSensible'
  BY <1>2, <1>4, <1>5 DEF AllSensible, Sensible
<1>7. Undisputed'
  BY <1>1, <1>4, <1>5 DEF Undisputed, Told, HeldIn
<1>8. ASSUME NEW w \in Syncs, NEW x \in settled[w], w = s \/ spc[w] = "done"
      PROVE  Matches(table'[x], report[s][x]) /\ ShownBy(table'[x], x)
  <2>1. x \in Symbols
    BY DEF TableTypeOK
  <2>2. Matches(table'[x], report[s][x])
    BY <1>1, <1>2, <1>8, <2>1 DEF Compared, Agrees
  <2>3. Told(report[s][x], x)
    BY <1>1 DEF Undisputed
  <2>4. QED
    BY <2>1, <2>2, <2>3, ToldShown
<1>9. Compared'
  <2>1. SUFFICES ASSUME NEW w \in Syncs, NEW x \in settled[w], NEW v \in Syncs, v # s,
                        Writing(v), v = w \/ spc'[w] = "done"
                 PROVE  Matches(Written(table'[x], dirty[v][x], report[v][x]), report[v][x])
    BY <1>1, <1>4, <1>5 DEF Compared, Agrees
  <2>2. x \in Symbols /\ report[v][x] = report[s][x]
    BY <1>1, <1>4, <2>1 DEF TableTypeOK, Undisputed
  <2>3. Sensible(table[x], dirty[v][x], report[s][x])
    BY <2>1, <2>2 DEF AllSensible
  <2>4. CASE w = s \/ spc[w] = "done"
    <3>1. Sensible(table'[x], dirty[v][x], report[s][x])
      BY <1>2, <2>2, <2>3 DEF Sensible
    <3>2. QED
      BY <1>2, <1>8, <2>2, <2>4, <3>1, MatchesKept
  <2>5. CASE v = w
    <3>1. Matches(Written(table[x], dirty[v][x], report[s][x]), report[s][x])
      BY <2>1, <2>2, <2>5 DEF Compared, Agrees
    <3>2. QED
      BY <1>2, <2>2, <2>3, <3>1, MatchesThroughout
  <2>6. QED
    BY <1>4, <2>1, <2>4, <2>5
<1>10. SettledSynced'
  <2>1. SUFFICES ASSUME NEW w \in Syncs, NEW x \in settled[w], w = s \/ spc[w] = "done"
                 PROVE  ShownBy(table'[x], x)
    BY <1>1, <1>4 DEF SettledSynced, Shown, ShownBy, HeldIn
  <2>2. QED
    BY <1>8, <2>1
<1>11. QED
  BY <1>3, <1>6, <1>7, <1>9, <1>10

LEMMA TableInvStep == TableInv /\ [Next]_vars => TableInv'
<1> SUFFICES ASSUME TableInv, [Next]_vars PROVE TableInv'
  OBVIOUS
<1>1. CASE UNCHANGED vars
  BY <1>1, TableInvStutter DEF vars, tableVars
<1>2. CASE SessionStep /\ UNCHANGED <<account, table, lock, own, settled>>
  BY <1>2, TableInvStutter DEF tableVars
<1>3. ASSUME NEW k \in Contracts, Trade(k) PROVE TableInv'
  BY <1>3, TradeKeeps
<1>4. ASSUME NEW s \in Syncs, Syncing(s) PROVE TableInv'
  BY <1>4, ReportKeeps, SelectKeeps, FlushKeeps, RollbackKeeps, CommitKeeps DEF Syncing
<1>5. QED
  BY <1>1, <1>2, <1>3, <1>4 DEF Next

LEMMA TableInvariant == Spec => []TableInv
  BY TableInvInit, TableInvStep, PTL DEF Spec

(* Every variable keeps its type: no attempt is counted past ib_retry_max,   *)
(* and no row is written that mixes anything but reported quantities and     *)
(* prices.                                                                   *)
THEOREM TypeCorrect == Spec => []TypeOK
<1>1. SessionInv /\ TableInv => TypeOK
  BY DEF SessionInv, TableInv, TableTypeOK, TypeOK, MaybeRow
<1>2. QED
  BY <1>1, SessionInvariant, TableInvariant, PTL

(* The table is right, after a commit and from then on, about every symbol   *)
(* that did not change and about which overlapping syncs were told the same, *)
(* although a sync writes columns it chose when the row was another.         *)
THEOREM Synced == Spec => []SettledSynced
  BY TableInvariant, PTL DEF TableInv

-----------------------------------------------------------------------------
(* The list of monitored accounts: MonitorList, for all accounts and syncs,  *)
(* and any number of attempts, toggles and stragglers.                       *)

CONSTANTS Accounts, AccountSyncs, HttpRetryMax, MaxToggles, MaxStragglers
VARIABLES active, toggles, remote, stragglers, late, at, snapshot, toAdd, toRemove,
          attempt, settledFor

ML == INSTANCE MonitorList
        WITH Syncs <- AccountSyncs, RetryMax <- HttpRetryMax, pc <- at, settled <- settledFor

(* What First chooses from exists: a set of numbers has a least one. *)
LEMMA Least ==
  ASSUME NEW T, T \subseteq Nat, T # {}
  PROVE  \E x \in T : \A y \in T : x <= y
<1> DEFINE R == OpToRel(<, Nat)
<1>1. IsWellFoundedOn(R, Nat)
  BY NatLessThanWellFounded, Zenon
<1>2. \A x, y \in Nat : x < y => <<x, y>> \in R
  BY DEF OpToRel
<1> HIDE DEF R
<1>3. PICK x \in T : \A y \in T : <<y, x>> \notin R
  BY <1>1, WFMin
<1>4. ASSUME NEW y \in T PROVE x <= y
  <2>1. x \in Nat /\ y \in Nat
    OBVIOUS
  <2>2. ~(y < x)
    BY <1>2, <1>3, <2>1
  <2>3. QED
    BY <2>1, <2>2
<1>5. QED
  BY <1>4

LEMMA FirstIn ==
  ASSUME ML!MonitorAssumption, NEW T, T \subseteq Accounts, T # {}
  PROVE  ML!First(T) \in T
<1>1. \E a \in T : \A b \in T : a <= b
  BY Least DEF ML!MonitorAssumption
<1>2. QED
  BY <1>1 DEF ML!First

(* What a sync asks for is what its snapshot wants. *)
TodoOK(s) ==
  /\ at[s] \in {"list", "update"} => snapshot[s] \subseteq Accounts
  /\ at[s] = "update" => toAdd[s] \subseteq snapshot[s] /\ toRemove[s] \cap snapshot[s] = {}

(* Nobody who may still write is wrong about the account. *)
Uncontested(a) ==
  /\ \A t \in AccountSyncs : ML!Running(t) => (a \in snapshot[t] <=> a \in active)
  /\ \A r \in stragglers : ~ML!Wrong(r.request, a)

Aligned(a) == a \in remote <=> a \in active

SettledOK(u, a) ==
  /\ Uncontested(a)
  /\ at[u] = "update" => Aligned(a) \/ a \in toAdd[u] \cup toRemove[u]
  /\ at[u] = "done" => Aligned(a)

SettledInv == \A s \in AccountSyncs : \A a \in settledFor[s] : SettledOK(s, a)

ListInv == ML!TypeOK /\ (\A s \in AccountSyncs : TodoOK(s)) /\ SettledInv

(* Every action of MonitorList keeps its types. *)
LEMMA ListTypeStep ==
  ASSUME ML!MonitorAssumption, ML!TypeOK, [ML!Next]_ML!vars
  PROVE  ML!TypeOK'
<1> USE DEF ML!MonitorAssumption, ML!TypeOK, ML!database, ML!server, ML!sync
<1>1. CASE UNCHANGED ML!vars
  BY <1>1 DEF ML!vars
<1>2. ASSUME NEW a \in Accounts, ML!Toggle(a) PROVE ML!TypeOK'
  BY <1>2 DEF ML!Toggle
<1>3. ASSUME NEW r \in stragglers, ML!Arrive(r) PROVE ML!TypeOK'
  BY <1>3 DEF ML!Arrive, ML!Executed, ML!Requests
<1>4. ASSUME NEW s \in AccountSyncs, ML!Begin(s) PROVE ML!TypeOK'
  BY <1>4 DEF ML!Begin
<1>5. ASSUME NEW s \in AccountSyncs, ML!List(s) PROVE ML!TypeOK'
  <2>1. attempt' \in [AccountSyncs -> 0 .. HttpRetryMax - 1]
    BY <1>5 DEF ML!List
  <2>2. /\ toAdd' \in [AccountSyncs -> SUBSET Accounts]
        /\ toRemove' \in [AccountSyncs -> SUBSET Accounts]
    BY <1>5 DEF ML!List
  <2>3. QED
    BY <1>5, <2>1, <2>2 DEF ML!List
<1>6. ASSUME NEW s \in AccountSyncs, ML!Update(s) PROVE ML!TypeOK'
  <2>1. ML!Current(s) \in ML!Requests
    BY <1>6, FirstIn DEF ML!Update, ML!Pending, ML!Current, ML!Requests
  <2>2. ML!Current(s).account \in Accounts
    BY <2>1 DEF ML!Requests
  <2>3. remote' \subseteq Accounts
    BY <1>6, <2>2 DEF ML!Update, ML!Executed
  <2>4. QED
    BY <1>6, <2>3 DEF ML!Update, ML!GoOn
<1>7. ASSUME NEW s \in AccountSyncs, ML!Refuse(s) PROVE ML!TypeOK'
  BY <1>7 DEF ML!Refuse, ML!Raise
<1>8. ASSUME NEW s \in AccountSyncs, ML!Lose(s) PROVE ML!TypeOK'
  <2>1. ML!Pending(s) => ML!Current(s) \in ML!Requests
    BY FirstIn DEF ML!Pending, ML!Current, ML!Requests
  <2>2. ML!Pending(s) => ML!Current(s).account \in Accounts
    BY <2>1 DEF ML!Requests
  <2>3. remote' \subseteq Accounts /\ late' \in Nat
        /\ \A r \in stragglers' : r.number \in 1 .. late' /\ r.request \in ML!Requests
    <3>1. CASE UNCHANGED ML!server
      BY <3>1
    <3>2. CASE /\ ML!Pending(s)
               /\ remote' = ML!Executed(ML!Current(s), remote)
               /\ UNCHANGED <<stragglers, late>>
      BY <2>2, <3>2 DEF ML!Executed
    <3>3. CASE /\ ML!Pending(s)
               /\ late' = late + 1
               /\ stragglers' = stragglers \cup {[number |-> late', request |-> ML!Current(s)]}
               /\ UNCHANGED remote
      BY <2>1, <3>3
    <3>4. QED
      BY <1>8, <3>1, <3>2, <3>3 DEF ML!Lose, ML!Fate
  <2>4. QED
    BY <1>8, <2>3 DEF ML!Lose, ML!Raise
<1>9. ASSUME NEW s \in AccountSyncs, ML!Return(s) PROVE ML!TypeOK'
  BY <1>9 DEF ML!Return
<1>10. ASSUME NEW s \in AccountSyncs, ML!Redirect(s) PROVE ML!TypeOK'
  BY <1>10 DEF ML!Redirect, ML!GoOn
<1>11. QED
  BY <1>1, <1>2, <1>3, <1>4, <1>5, <1>6, <1>7, <1>8, <1>9, <1>10 DEF ML!Next, ML!Progress

LEMMA TodoStep ==
  ASSUME ML!TypeOK, [ML!Next]_ML!vars, \A s \in AccountSyncs : TodoOK(s)
  PROVE  \A s \in AccountSyncs : TodoOK(s)'
<1> SUFFICES ASSUME NEW u \in AccountSyncs PROVE TodoOK(u)'
  OBVIOUS
<1> USE DEF ML!TypeOK, TodoOK, ML!database, ML!server, ML!sync
<1>1. CASE UNCHANGED ML!vars
  BY <1>1 DEF ML!vars
<1>2. ASSUME NEW a \in Accounts, ML!Toggle(a) PROVE TodoOK(u)'
  BY <1>2 DEF ML!Toggle
<1>3. ASSUME NEW r \in stragglers, ML!Arrive(r) PROVE TodoOK(u)'
  BY <1>3 DEF ML!Arrive
<1>4. ASSUME NEW s \in AccountSyncs, ML!Begin(s) \/ ML!List(s) PROVE TodoOK(u)'
  BY <1>4 DEF ML!Begin, ML!List
<1>5. ASSUME NEW s \in AccountSyncs, ML!Update(s) \/ ML!Redirect(s) PROVE TodoOK(u)'
  BY <1>5 DEF ML!Update, ML!Redirect, ML!GoOn
<1>6. ASSUME NEW s \in AccountSyncs, ML!Refuse(s) \/ ML!Lose(s) \/ ML!Return(s) PROVE TodoOK(u)'
  BY <1>6 DEF ML!Refuse, ML!Lose, ML!Raise, ML!Return
<1>7. QED
  BY <1>1, <1>2, <1>3, <1>4, <1>5, <1>6 DEF ML!Next, ML!Progress

(* A sync is not wrong about an account of which it is right. *)
LEMMA CurrentRight ==
  ASSUME ML!MonitorAssumption, ML!TypeOK, NEW s \in AccountSyncs, TodoOK(s),
         ML!Pending(s), NEW a, a \in snapshot[s] <=> a \in active
  PROVE  /\ ~ML!Wrong(ML!Current(s), a)
         /\ ML!Current(s) \in ML!Requests
         /\ ML!Current(s).op = "add" <=> toAdd[s] # {}
         /\ ML!Current(s).account =
              IF toAdd[s] # {} THEN ML!First(toAdd[s]) ELSE ML!First(toRemove[s])
<1>1. toAdd[s] # {} => ML!First(toAdd[s]) \in toAdd[s]
  BY FirstIn DEF ML!TypeOK
<1>2. toAdd[s] = {} => ML!First(toRemove[s]) \in toRemove[s]
  BY FirstIn DEF ML!TypeOK, ML!Pending
<1>3. QED
  BY <1>1, <1>2 DEF ML!Current, ML!Wrong, TodoOK, ML!Pending, ML!TypeOK, ML!Requests

(* What is executed and not wrong puts an account right, and no other out. *)
LEMMA ExecutedRight ==
  ASSUME NEW r, NEW a, ~ML!Wrong(r, a), UNCHANGED active, remote' = ML!Executed(r, remote)
  PROVE  /\ Aligned(a) => Aligned(a)'
         /\ r.account = a => Aligned(a)'
  BY DEF ML!Wrong, ML!Executed, Aligned

(* What is settled after a step was settled before, or its sync began. *)
LEMMA SettledStep ==
  ASSUME ML!MonitorAssumption, ML!TypeOK, [ML!Next]_ML!vars,
         \A s \in AccountSyncs : TodoOK(s),
         NEW u \in AccountSyncs, NEW a \in settledFor'[u], a \in settledFor[u] => SettledOK(u, a)
  PROVE  SettledOK(u, a)'
<1> USE DEF ML!database, ML!server, ML!sync, ML!Running
<1>0. /\ settledFor \in [AccountSyncs -> SUBSET Accounts]
      /\ at \in [AccountSyncs -> {"idle", "list", "update", "done", "failed"}]
      /\ snapshot \in [AccountSyncs -> SUBSET Accounts]
      /\ toAdd \in [AccountSyncs -> SUBSET Accounts]
      /\ toRemove \in [AccountSyncs -> SUBSET Accounts]
  BY DEF ML!TypeOK
<1>1. CASE UNCHANGED ML!vars
  BY <1>1 DEF ML!vars, SettledOK, Uncontested, Aligned, ML!Wrong
<1>2. ASSUME NEW b \in Accounts, ML!Toggle(b) PROVE SettledOK(u, a)'
  <2>1. a # b /\ a \in settledFor[u]
    BY <1>0, <1>2 DEF ML!Toggle
  <2>2. a \in active' <=> a \in active
    BY <1>2, <2>1 DEF ML!Toggle
  <2>3. QED
    BY <1>2, <2>1, <2>2 DEF ML!Toggle, SettledOK, Uncontested, Aligned, ML!Wrong
<1>3. ASSUME NEW r \in stragglers, ML!Arrive(r) PROVE SettledOK(u, a)'
  <2>1. a \in settledFor[u] /\ ~ML!Wrong(r.request, a)
    BY <1>3 DEF ML!Arrive, SettledOK, Uncontested
  <2>2. Aligned(a) => Aligned(a)'
    BY <1>3, <2>1, ExecutedRight DEF ML!Arrive
  <2>3. Uncontested(a)'
    BY <1>3, <2>1 DEF ML!Arrive, SettledOK, Uncontested, ML!Wrong
  <2>4. QED
    BY <1>3, <2>1, <2>2, <2>3 DEF ML!Arrive, SettledOK
<1>4. ASSUME NEW s \in AccountSyncs, ML!Begin(s) PROVE SettledOK(u, a)'
  <2>1. CASE s = u
    BY <1>0, <1>4, <2>1 DEF ML!Begin, SettledOK, Uncontested, Aligned, ML!Wrong
  <2>2. CASE s # u
    <3>1. a \in settledFor[u]
      BY <1>0, <1>4, <2>2 DEF ML!Begin
    <3>2. QED
      BY <1>0, <1>4, <2>2, <3>1 DEF ML!Begin, SettledOK, Uncontested, Aligned, ML!Wrong
  <2>3. QED
    BY <2>1, <2>2
<1>5. ASSUME NEW s \in AccountSyncs, ML!Redirect(s) PROVE SettledOK(u, a)'
  <2>1. a \in settledFor[u] /\ (s = u => a # ML!Current(s).account)
    BY <1>0, <1>5 DEF ML!Redirect
  <2>2. Uncontested(a)' /\ (Aligned(a)' <=> Aligned(a)) /\ UNCHANGED at
    BY <1>5, <2>1 DEF ML!Redirect, ML!GoOn, SettledOK, Uncontested, ML!Wrong, Aligned
  <2>3. a \in toAdd[u] \cup toRemove[u] => a \in toAdd'[u] \cup toRemove'[u]
    BY <1>0, <1>5, <2>1 DEF ML!Redirect, ML!GoOn, ML!Current
  <2>4. QED
    BY <2>1, <2>2, <2>3 DEF SettledOK
<1>6. ASSUME NEW s \in AccountSyncs, ML!List(s) PROVE SettledOK(u, a)'
  <2>1. a \in settledFor[u] /\ (a \in snapshot[s] <=> a \in active)
    BY <1>6 DEF ML!List, SettledOK, Uncontested
  <2>2. QED
    BY <1>0, <1>6, <2>1 DEF ML!List, SettledOK, Uncontested, Aligned, ML!Wrong
<1>7. ASSUME NEW s \in AccountSyncs, ML!Update(s) PROVE SettledOK(u, a)'
  <2>1. a \in settledFor[u] /\ (a \in snapshot[s] <=> a \in active)
    BY <1>7 DEF ML!Update, ML!Pending, SettledOK, Uncontested
  <2>2. ~ML!Wrong(ML!Current(s), a)
    BY <1>7, <2>1, CurrentRight DEF ML!Update
  <2>3. (Aligned(a) => Aligned(a)') /\ (ML!Current(s).account = a => Aligned(a)')
    BY <1>7, <2>2, ExecutedRight DEF ML!Update
  <2>4. Uncontested(a)'
    BY <1>7, <2>1 DEF ML!Update, ML!GoOn, SettledOK, Uncontested, ML!Wrong
  <2>5. a \in toAdd[u] \cup toRemove[u] =>
          a \in toAdd'[u] \cup toRemove'[u] \/ (s = u /\ a = ML!Current(s).account)
    BY <1>0, <1>7 DEF ML!Update, ML!GoOn, ML!Current
  <2>6. QED
    BY <1>7, <2>1, <2>3, <2>4, <2>5 DEF ML!Update, SettledOK
<1>8. ASSUME NEW s \in AccountSyncs, ML!Refuse(s) \/ ML!Return(s) PROVE SettledOK(u, a)'
  <2>1. a \in settledFor[u]
    BY <1>8 DEF ML!Refuse, ML!Return
  <2>2. Uncontested(a)' /\ (Aligned(a)' <=> Aligned(a))
    BY <1>0, <1>8, <2>1
       DEF ML!Refuse, ML!Raise, ML!Return, SettledOK, Uncontested, ML!Wrong, Aligned
  <2>3. QED
    BY <1>0, <1>8, <2>1, <2>2 DEF ML!Refuse, ML!Raise, ML!Return, SettledOK, ML!Pending
<1>9. ASSUME NEW s \in AccountSyncs, ML!Lose(s) PROVE SettledOK(u, a)'
  <2>1. a \in settledFor[u] /\ (ML!Pending(s) => (a \in snapshot[s] <=> a \in active))
    BY <1>9 DEF ML!Lose, ML!Pending, SettledOK, Uncontested
  <2>2. ML!Pending(s) => ~ML!Wrong(ML!Current(s), a)
    BY <2>1, CurrentRight
  <2>3. Aligned(a) => Aligned(a)'
    BY <1>9, <2>2, ExecutedRight DEF ML!Lose, ML!Fate, Aligned
  <2>4. \A r \in stragglers' : ~ML!Wrong(r.request, a)'
    BY <1>9, <2>1, <2>2 DEF ML!Lose, ML!Fate, SettledOK, Uncontested, ML!Wrong
  <2>5. at' = at \/ at' = [at EXCEPT ![s] = "failed"]
    BY <1>9 DEF ML!Lose, ML!Raise
  <2>6. UNCHANGED <<active, snapshot, toAdd, toRemove>>
    BY <1>9 DEF ML!Lose
  <2>7. Uncontested(a)'
    BY <1>0, <2>1, <2>4, <2>5, <2>6 DEF SettledOK, Uncontested
  <2>8. QED
    BY <1>0, <2>1, <2>3, <2>5, <2>6, <2>7 DEF SettledOK
<1>10. QED
  BY <1>1, <1>2, <1>3, <1>4, <1>5, <1>6, <1>7, <1>8, <1>9 DEF ML!Next, ML!Progress

LEMMA ListInvariant ==
  ASSUME ML!MonitorAssumption
  PROVE  ML!Spec => []ListInv
<1>1. ML!Init => ListInv
  BY DEF ML!MonitorAssumption, ML!Init, ListInv, ML!TypeOK, TodoOK, SettledInv
<1>2. ListInv /\ [ML!Next]_ML!vars => ListInv'
  <2> SUFFICES ASSUME ListInv, [ML!Next]_ML!vars PROVE ListInv'
    OBVIOUS
  <2>1. ML!TypeOK' /\ \A s \in AccountSyncs : TodoOK(s)'
    BY ListTypeStep, TodoStep DEF ListInv
  <2>2. SettledInv'
    BY SettledStep DEF ListInv, SettledInv
  <2>3. QED
    BY <2>1, <2>2 DEF ListInv
<1>3. QED
  BY <1>1, <1>2, PTL DEF ML!Spec

(* SettledAligned: when sync_watched_accounts returns, the server's list is  *)
(* right about every settled account, whatever was lost, repeated or late.   *)
THEOREM AccountsSettled ==
  ASSUME ML!MonitorAssumption
  PROVE  ML!Spec => []ML!SettledAligned
<1>1. ListInv => ML!SettledAligned
  BY DEF ListInv, SettledInv, SettledOK, Aligned, ML!SettledAligned
<1>2. QED
  BY <1>1, ListInvariant, PTL

-----------------------------------------------------------------------------
(* The tweets of a stream: TweetStream, for every number of messages.        *)

CONSTANTS BackoffMax, MaxMessages
VARIABLES running, phase, backoff, link, inbox, sent, opened, handed, streamFailures

TS == INSTANCE TweetStream WITH failures <- streamFailures

Increasing(s) == \A i, j \in DOMAIN s : i < j => s[i] < s[j]

(* What waits in the inbox came over this connection, after what was handed. *)
InboxOK ==
  /\ Increasing(inbox) /\ Increasing(handed)
  /\ \A i \in DOMAIN handed, j \in DOMAIN inbox : handed[i] < inbox[j]
  /\ \A j \in DOMAIN inbox : opened < inbox[j] /\ sent[inbox[j]].first = opened + 1
  /\ phase \in {"connecting", "waiting"} => inbox = <<>>

Garbled(n) == \E g \in sent[n].first .. n - 1 : sent[g].text = "garbled"

Among(n, s) == \E i \in DOMAIN s : s[i] = n

(* A tweet was handed over, waits, or came behind a message that could not   *)
(* be read.                                                                  *)
Kept == phase # "stopped" =>
  \A n \in DOMAIN sent : sent[n].text = "tweet" =>
    Among(n, handed) \/ Among(n, inbox) \/ Garbled(n)

StreamInv == TS!TypeOK /\ InboxOK /\ Kept

(* Appending and dropping, as the steps below use them. *)
LEMMA Appended ==
  ASSUME NEW S, NEW s \in Seq(S), NEW x
  PROVE  /\ DOMAIN s = 1 .. Len(s) /\ DOMAIN Append(s, x) = 1 .. Len(s) + 1
         /\ Len(s) \in Nat /\ Len(Append(s, x)) = Len(s) + 1
         /\ \A i \in DOMAIN s : Append(s, x)[i] = s[i] /\ s[i] \in S
         /\ Append(s, x)[Len(s) + 1] = x
         /\ x \in S => Append(s, x) \in Seq(S)
  OBVIOUS

LEMMA Dropped ==
  ASSUME NEW S, NEW s \in Seq(S), s # <<>>
  PROVE  /\ DOMAIN s = 1 .. Len(s) /\ DOMAIN Tail(s) = 1 .. Len(s) - 1
         /\ Len(s) \in Nat \ {0}
         /\ \A i \in DOMAIN s : s[i] \in S
         /\ Tail(s) \in Seq(S) /\ Head(s) = s[1] /\ s[1] \in S
         /\ \A i \in 1 .. Len(s) - 1 : Tail(s)[i] = s[i + 1]
  OBVIOUS

LEMMA AppendIncreasing ==
  ASSUME NEW s \in Seq(Nat), NEW x \in Nat, Increasing(s), \A i \in DOMAIN s : s[i] < x
  PROVE  Increasing(Append(s, x))
<1>1. /\ DOMAIN s = 1 .. Len(s) /\ DOMAIN Append(s, x) = 1 .. Len(s) + 1 /\ Len(s) \in Nat
      /\ \A i \in DOMAIN s : Append(s, x)[i] = s[i]
      /\ Append(s, x)[Len(s) + 1] = x
  BY Appended
<1> DEFINE t == Append(s, x)
<1>2. \A i, j \in DOMAIN s : i < j => s[i] < s[j]
  BY DEF Increasing
<1>3. ASSUME NEW i \in DOMAIN t, NEW j \in DOMAIN t, i < j PROVE t[i] < t[j]
  <2> HIDE DEF t
  <2>1. i \in DOMAIN s /\ t[i] = s[i]
    BY <1>1, <1>3 DEF t
  <2>2. CASE j = Len(s) + 1
    BY <1>1, <2>1, <2>2 DEF t
  <2>3. CASE j \in DOMAIN s
    BY <1>1, <1>2, <1>3, <2>1, <2>3 DEF t
  <2>4. QED
    BY <1>1, <2>2, <2>3 DEF t
<1>4. QED
  BY <1>3 DEF Increasing

LEMMA TailIncreasing ==
  ASSUME NEW s \in Seq(Nat), s # <<>>, Increasing(s)
  PROVE  Increasing(Tail(s)) /\ \A i \in DOMAIN Tail(s) : Head(s) < Tail(s)[i]
<1>1. /\ DOMAIN s = 1 .. Len(s) /\ DOMAIN Tail(s) = 1 .. Len(s) - 1 /\ Len(s) \in Nat \ {0}
      /\ Head(s) = s[1] /\ \A i \in 1 .. Len(s) - 1 : Tail(s)[i] = s[i + 1]
  BY Dropped
<1>2. \A i, j \in DOMAIN s : i < j => s[i] < s[j]
  BY DEF Increasing
<1>3. \A i, j \in DOMAIN Tail(s) : i < j => Tail(s)[i] < Tail(s)[j]
  BY <1>1, <1>2
<1>4. \A i \in DOMAIN Tail(s) : Head(s) < Tail(s)[i]
  BY <1>1, <1>2
<1>5. QED
  BY <1>3, <1>4 DEF Increasing

LEMMA StreamTypeStep ==
  ASSUME TS!StreamAssumption, TS!TypeOK, [TS!Next]_TS!vars
  PROVE  TS!TypeOK'
<1> USE DEF TS!StreamAssumption, TS!TypeOK, TS!client, TS!server, TS!Enough
<1>1. CASE UNCHANGED TS!vars
  BY <1>1 DEF TS!vars
<1>2. ASSUME NEW text \in TS!Texts, TS!Send(text) PROVE TS!TypeOK'
  <2>1. opened + 1 \in 1 .. MaxMessages
    BY <1>2 DEF TS!Send
  <2>2. /\ sent' \in Seq([text : TS!Texts, first : 1 .. MaxMessages])
        /\ Len(sent') = Len(sent) + 1
    BY <1>2, <2>1 DEF TS!Send
  <2>3. \A s \in Seq(1 .. Len(sent)) : s \in Seq(1 .. Len(sent'))
    BY <2>2
  <2>4. inbox' \in Seq(1 .. Len(sent'))
    BY <1>2, <2>2, <2>3 DEF TS!Send
  <2>5. QED
    BY <1>2, <2>2, <2>3, <2>4 DEF TS!Send
<1>3. ASSUME NEW how \in {"closed", "broken"}, TS!Hang(how) PROVE TS!TypeOK'
  BY <1>3 DEF TS!Hang
<1>4. CASE TS!Close \/ TS!Connect
  <2>1. CASE TS!Close
    BY <2>1 DEF TS!Close
  <2>2. CASE TS!Connect
    <3>1. Len(sent) \in Nat /\ inbox' \in Seq(1 .. Len(sent))
      BY <2>2 DEF TS!Connect
    <3>2. QED
      BY <2>2, <3>1 DEF TS!Connect
  <2>3. QED
    BY <1>4, <2>1, <2>2
<1>5. CASE TS!Except
  BY <1>5 DEF TS!Except
<1>6. CASE TS!Wake
  BY <1>6 DEF TS!Wake, TS!Again
<1>7. CASE TS!Read
  <2>1. Tail(inbox) \in Seq(1 .. Len(sent)) /\ Head(inbox) \in 1 .. Len(sent)
    BY <1>7, Dropped DEF TS!Read
  <2>2. handed' \in Seq(1 .. Len(sent))
    <3>1. Append(handed, Head(inbox)) \in Seq(1 .. Len(sent))
      BY <2>1
    <3>2. QED
      BY <1>7, <3>1 DEF TS!Read
  <2>3. QED
    BY <1>7, <2>1, <2>2 DEF TS!Read
<1>8. CASE TS!Ended \/ TS!Resume \/ TS!Leave
  BY <1>8 DEF TS!Ended, TS!Again, TS!Resume, TS!Leave
<1>9. QED
  BY <1>1, <1>2, <1>3, <1>4, <1>5, <1>6, <1>7, <1>8
     DEF TS!Next, TS!Attempt, TS!Progress, TS!ConnectFails, TS!ReadGarbled, TS!Broken

LEMMA InboxStep == TS!TypeOK /\ InboxOK /\ [TS!Next]_TS!vars => InboxOK'
<1> SUFFICES ASSUME TS!TypeOK, InboxOK, [TS!Next]_TS!vars PROVE InboxOK'
  OBVIOUS
<1>1. /\ inbox \in Seq(1 .. Len(sent)) /\ handed \in Seq(1 .. Len(sent))
      /\ inbox \in Seq(Nat) /\ handed \in Seq(Nat)
  BY DEF TS!TypeOK
<1>2. /\ Len(sent) \in Nat /\ opened \in 0 .. Len(sent)
      /\ Len(handed) \in Nat /\ DOMAIN handed = 1 .. Len(handed)
      /\ \A i \in DOMAIN handed : handed[i] \in 1 .. Len(sent)
      /\ Len(inbox) \in Nat /\ DOMAIN inbox = 1 .. Len(inbox)
      /\ \A j \in DOMAIN inbox : inbox[j] \in 1 .. Len(sent)
  BY DEF TS!TypeOK
<1>3. /\ \A i \in DOMAIN handed, j \in DOMAIN inbox : handed[i] < inbox[j]
      /\ \A j \in DOMAIN inbox : opened < inbox[j] /\ sent[inbox[j]].first = opened + 1
      /\ Increasing(inbox) /\ Increasing(handed)
  BY DEF InboxOK
<1>4. CASE UNCHANGED TS!vars
  BY <1>4 DEF TS!vars, TS!server, TS!client, InboxOK
<1>5. ASSUME NEW text \in TS!Texts, TS!Send(text) PROVE InboxOK'
  <2>1. /\ inbox' = Append(inbox, Len(sent) + 1) /\ UNCHANGED <<handed, opened, phase>>
        /\ phase \in {"open", "handed"}
        /\ sent' = Append(sent, [text |-> text, first |-> opened + 1])
    BY <1>2, <1>5 DEF TS!Send, TS!Connected, TS!client, TS!TypeOK
  <2>2. /\ DOMAIN inbox' = 1 .. Len(inbox) + 1
        /\ \A j \in DOMAIN inbox : inbox'[j] = inbox[j]
        /\ inbox'[Len(inbox) + 1] = Len(sent) + 1
    BY <1>1, <2>1, Appended
  <2>3. /\ \A n \in 1 .. Len(sent) : sent'[n] = sent[n]
        /\ sent'[Len(sent) + 1].first = opened + 1
    BY <2>1 DEF TS!TypeOK
  <2>4. Increasing(inbox')
    <3>1. \A j \in DOMAIN inbox : inbox[j] < Len(sent) + 1
      BY <1>2
    <3>2. QED
      BY <1>1, <1>2, <1>3, <2>1, <3>1, AppendIncreasing
  <2>5. ASSUME NEW j \in DOMAIN inbox'
        PROVE  /\ \A i \in DOMAIN handed : handed[i] < inbox'[j]
               /\ opened < inbox'[j] /\ sent'[inbox'[j]].first = opened + 1
    <3>1. CASE j = Len(inbox) + 1
      BY <1>2, <2>2, <2>3, <3>1
    <3>2. CASE j \in DOMAIN inbox
      BY <1>2, <1>3, <2>2, <2>3, <3>2
    <3>3. QED
      BY <1>2, <2>2, <3>1, <3>2
  <2>6. QED
    BY <1>3, <2>1, <2>4, <2>5 DEF InboxOK
<1>6. ASSUME NEW how \in {"closed", "broken"}, TS!Hang(how) PROVE InboxOK'
  BY <1>6 DEF TS!Hang, TS!client, InboxOK
<1>7. CASE TS!Close \/ TS!Wake \/ TS!Ended \/ TS!Resume \/ TS!Leave
  BY <1>7
     DEF TS!Close, TS!Wake, TS!Ended, TS!Again, TS!Resume, TS!Leave, TS!server, TS!client,
         InboxOK
<1>8. CASE TS!Connect \/ TS!Except
  <2>1. inbox' = <<>> /\ UNCHANGED handed
    BY <1>8 DEF TS!Connect, TS!Except
  <2>2. DOMAIN inbox' = {}
    BY <2>1
  <2>3. QED
    BY <1>3, <2>1, <2>2 DEF Increasing, InboxOK
<1>9. CASE TS!Read
  <2>1. /\ inbox # <<>> /\ inbox' = Tail(inbox) /\ UNCHANGED <<sent, opened>>
        /\ phase' \notin {"connecting", "waiting"}
        /\ UNCHANGED handed \/ handed' = Append(handed, Head(inbox))
    BY <1>9 DEF TS!Read
  <2>2. /\ DOMAIN inbox' = 1 .. Len(inbox) - 1
        /\ Len(inbox) \in Nat \ {0} /\ Head(inbox) = inbox[1]
        /\ \A j \in 1 .. Len(inbox) - 1 : inbox'[j] = inbox[j + 1]
    BY <1>1, <2>1, Dropped
  <2>3. 1 \in DOMAIN inbox /\ inbox[1] \in Nat
    BY <1>2, <2>2
  <2>4. Increasing(inbox') /\ \A j \in DOMAIN inbox' : inbox[1] < inbox'[j]
    BY <1>1, <1>3, <2>1, <2>2, TailIncreasing
  <2>5. ASSUME NEW j \in DOMAIN inbox'
        PROVE  /\ \A i \in DOMAIN handed : handed[i] < inbox'[j]
               /\ opened < inbox'[j] /\ sent[inbox'[j]].first = opened + 1
    <3>1. j + 1 \in DOMAIN inbox /\ inbox'[j] = inbox[j + 1]
      BY <1>2, <2>2
    <3>2. QED
      BY <1>3, <3>1
  <2>6. Increasing(handed')
    <3>1. \A i \in DOMAIN handed : handed[i] < inbox[1]
      BY <1>3, <2>3
    <3>2. QED
      BY <1>1, <1>3, <2>1, <2>2, <2>3, <3>1, AppendIncreasing
  <2>7. ASSUME NEW i \in DOMAIN handed', NEW j \in DOMAIN inbox' PROVE handed'[i] < inbox'[j]
    <3>1. CASE UNCHANGED handed
      BY <2>5, <3>1
    <3>2. CASE handed' = Append(handed, Head(inbox))
      <4>1. /\ DOMAIN handed' = 1 .. Len(handed) + 1
            /\ \A k \in DOMAIN handed : handed'[k] = handed[k]
            /\ handed'[Len(handed) + 1] = Head(inbox)
        BY <1>1, <3>2, Appended
      <4>2. CASE i = Len(handed) + 1
        BY <2>2, <2>4, <4>1, <4>2
      <4>3. CASE i \in DOMAIN handed
        BY <2>5, <4>1, <4>3
      <4>4. QED
        BY <1>2, <4>1, <4>2, <4>3
    <3>3. QED
      BY <2>1, <3>1, <3>2
  <2>8. QED
    BY <2>1, <2>4, <2>5, <2>6, <2>7 DEF InboxOK
<1>10. QED
  BY <1>4, <1>5, <1>6, <1>7, <1>8, <1>9
     DEF TS!Next, TS!Attempt, TS!Progress, TS!ConnectFails, TS!ReadGarbled, TS!Broken

LEMMA Firsts ==
  TS!StreamAssumption /\ TS!TypeOK =>
    \A m \in DOMAIN sent : sent[m].first \in Nat \ {0}
<1> SUFFICES ASSUME TS!StreamAssumption, TS!TypeOK, NEW m \in DOMAIN sent
             PROVE  sent[m].first \in Nat \ {0}
  OBVIOUS
<1> DEFINE S == [text : TS!Texts, first : 1 .. MaxMessages]
<1>1. sent[m] \in S
  <2>1. sent \in Seq(S)
    BY DEF TS!TypeOK
  <2> HIDE DEF S
  <2>2. QED
    BY <2>1, Appended
<1>2. QED
  BY <1>1 DEF TS!StreamAssumption

LEMMA KeptStep == TS!StreamAssumption /\ TS!TypeOK /\ InboxOK /\ Kept /\ [TS!Next]_TS!vars => Kept'
<1> SUFFICES ASSUME TS!StreamAssumption, TS!TypeOK, InboxOK, Kept, [TS!Next]_TS!vars,
                    phase' # "stopped", NEW n \in DOMAIN sent', sent'[n].text = "tweet"
             PROVE  (Among(n, handed) \/ Among(n, inbox) \/ Garbled(n))'
  BY DEF Kept
<1> USE DEF Kept, Among, Garbled, TS!client, TS!server
<1>1. CASE UNCHANGED TS!vars
  BY <1>1 DEF TS!vars
<1>2. ASSUME NEW text \in TS!Texts, TS!Send(text)
      PROVE  (Among(n, handed) \/ Among(n, inbox) \/ Garbled(n))'
  <2>1. /\ DOMAIN inbox = 1 .. Len(inbox) /\ DOMAIN inbox' = 1 .. Len(inbox) + 1
        /\ \A j \in DOMAIN inbox : inbox'[j] = inbox[j]
        /\ inbox'[Len(inbox) + 1] = Len(sent) + 1
        /\ Len(inbox) \in Nat /\ Len(sent) \in Nat
    <3>1. inbox \in Seq(1 .. Len(sent)) /\ Len(sent) \in Nat
      BY DEF TS!TypeOK
    <3>2. sent' = Append(sent, [text |-> text, first |-> opened + 1])
          /\ inbox' = Append(inbox, Len(sent'))
      BY <1>2 DEF TS!Send
    <3>3. Len(sent') = Len(sent) + 1
      <4>1. sent \in Seq([text : TS!Texts, first : 1 .. MaxMessages])
        BY DEF TS!TypeOK
      <4>2. QED
        BY <3>2, <4>1, Appended
    <3>4. QED
      BY <3>1, <3>2, <3>3, Appended
  <2>2. /\ DOMAIN sent = 1 .. Len(sent) /\ DOMAIN sent' = 1 .. Len(sent) + 1
        /\ \A m \in DOMAIN sent : sent'[m] = sent[m] /\ sent[m].first \in Nat \ {0}
    <3>1. sent \in Seq([text : TS!Texts, first : 1 .. MaxMessages])
      BY DEF TS!TypeOK
    <3>2. \A m \in DOMAIN sent : sent[m].first \in Nat \ {0}
      BY Firsts
    <3>3. sent' = Append(sent, [text |-> text, first |-> opened + 1])
      BY <1>2 DEF TS!Send
    <3>4. QED
      BY <3>1, <3>2, <3>3, Appended
  <2>3. UNCHANGED <<handed, phase>>
    BY <1>2 DEF TS!Send
  <2>4. CASE n = Len(sent) + 1
    BY <2>1, <2>4
  <2>5. CASE n \in DOMAIN sent
    <3>1. Garbled(n) => Garbled(n)'
      BY <2>2, <2>5
    <3>2. QED
      BY <2>1, <2>2, <2>3, <2>5, <3>1
  <2>6. QED
    BY <2>2, <2>4, <2>5
<1>3. ASSUME NEW how \in {"closed", "broken"}, TS!Hang(how)
      PROVE  (Among(n, handed) \/ Among(n, inbox) \/ Garbled(n))'
  BY <1>3 DEF TS!Hang
<1>4. CASE TS!Close \/ TS!Wake \/ TS!Ended \/ TS!Resume \/ TS!Leave
  BY <1>4 DEF TS!Close, TS!Wake, TS!Ended, TS!Again, TS!Resume, TS!Leave
<1>5. CASE TS!Connect \/ TS!ConnectFails \/ TS!Broken
  <2>1. inbox = <<>> /\ UNCHANGED <<handed, sent>>
    BY <1>5 DEF InboxOK, TS!Connect, TS!ConnectFails, TS!Broken, TS!Except
  <2>2. ~Among(n, inbox)
    BY <2>1
  <2>3. phase # "stopped"
    BY <1>5 DEF TS!Connect, TS!ConnectFails, TS!Broken
  <2>4. QED
    BY <2>1, <2>2, <2>3
<1>6. CASE TS!Read
  <2>1. /\ inbox # <<>> /\ inbox' = Tail(inbox) /\ phase # "stopped"
        /\ sent' = sent
        /\ \/ sent[Head(inbox)].text # "tweet" /\ UNCHANGED handed
           \/ handed' = Append(handed, Head(inbox))
    BY <1>6 DEF TS!Read, TS!HeadText
  <2>2. Among(n, inbox) => Among(n, inbox)' \/ n = Head(inbox)
    <3>1. /\ DOMAIN inbox = 1 .. Len(inbox) /\ DOMAIN inbox' = 1 .. Len(inbox) - 1
          /\ Len(inbox) \in Nat \ {0} /\ Head(inbox) = inbox[1]
          /\ \A j \in 1 .. Len(inbox) - 1 : inbox'[j] = inbox[j + 1]
      BY <2>1, Dropped DEF TS!TypeOK
    <3>2. ASSUME NEW j \in DOMAIN inbox, j # 1
          PROVE  j - 1 \in DOMAIN inbox' /\ inbox'[j - 1] = inbox[j]
      BY <3>1, <3>2
    <3>3. QED
      BY <3>1, <3>2
  <2>3. ASSUME handed' = Append(handed, Head(inbox))
        PROVE  /\ DOMAIN handed = 1 .. Len(handed) /\ DOMAIN handed' = 1 .. Len(handed) + 1
               /\ Len(handed) \in Nat /\ \A i \in DOMAIN handed : handed'[i] = handed[i]
               /\ handed'[Len(handed) + 1] = Head(inbox)
    <3> HIDE DEF Kept, Among, Garbled
    <3>1. handed \in Seq(1 .. Len(sent))
      BY DEF TS!TypeOK
    <3>2. QED
      BY <2>3, <3>1, Appended
  <2>4. Among(n, handed) => Among(n, handed)'
    BY <2>1, <2>3
  <2>5. n = Head(inbox) => Among(n, handed)'
    BY <2>1, <2>3
  <2>6. QED
    BY <2>1, <2>2, <2>4, <2>5
<1>7. CASE TS!ReadGarbled
  <2>1. /\ inbox # <<>> /\ sent[Head(inbox)].text = "garbled" /\ phase # "stopped"
        /\ UNCHANGED <<sent, handed>>
    BY <1>7 DEF TS!ReadGarbled, TS!Except, TS!HeadText
  <2>2. ASSUME Among(n, inbox) PROVE Garbled(n)
    <3>1. PICK j \in DOMAIN inbox : inbox[j] = n
      BY <2>2
    <3>2. 1 \in DOMAIN inbox /\ Head(inbox) = inbox[1] /\ DOMAIN inbox = 1 .. Len(inbox)
      BY <2>1 DEF TS!TypeOK
    <3>3. inbox[1] \in 1 .. Len(sent) /\ n \in 1 .. Len(sent) /\ opened \in Nat
      BY <3>1, <3>2 DEF TS!TypeOK
    <3>4. sent[n].first = opened + 1 /\ opened < inbox[1]
      BY <3>1, <3>2 DEF InboxOK
    <3>5. j # 1
      BY <2>1, <3>1, <3>2
    <3>6. inbox[1] < n
      BY <3>1, <3>2, <3>5 DEF InboxOK, Increasing
    <3>7. inbox[1] \in sent[n].first .. n - 1
      BY <3>3, <3>4, <3>6
    <3>8. QED
      BY <2>1, <3>2, <3>7
  <2>3. Garbled(n) => Garbled(n)'
    BY <2>1
  <2>4. QED
    BY <2>1, <2>2, <2>3
<1>8. QED
  BY <1>1, <1>2, <1>3, <1>4, <1>5, <1>6, <1>7 DEF TS!Next, TS!Attempt, TS!Progress

LEMMA StreamInvariant ==
  ASSUME TS!StreamAssumption
  PROVE  TS!Spec => []StreamInv
<1>1. TS!Init => StreamInv
  BY DEF TS!StreamAssumption, TS!Init, StreamInv, TS!TypeOK, TS!Enough, InboxOK, Increasing, Kept
<1>2. StreamInv /\ [TS!Next]_TS!vars => StreamInv'
  BY StreamTypeStep, InboxStep, KeptStep DEF StreamInv
<1>3. QED
  BY <1>1, <1>2, PTL DEF TS!Spec

(* HandedInOrder: subscribe yields the tweets in the order in which they     *)
(* came, each one once, and drops one only behind a message of its           *)
(* connection that could not be read.                                        *)
THEOREM InOrder ==
  ASSUME TS!StreamAssumption
  PROVE  TS!Spec => []TS!HandedInOrder
<1>1. StreamInv => TS!HandedInOrder
  <2> SUFFICES ASSUME StreamInv PROVE TS!HandedInOrder
    OBVIOUS
  <2>1. \A n : Among(n, handed) => n \in TS!ToSet(handed)
    BY DEF Among, TS!ToSet
  <2>2. \A n : Among(n, inbox) => n \in TS!ToSet(inbox)
    BY DEF Among, TS!ToSet
  <2>3. QED
    BY <2>1, <2>2 DEF StreamInv, InboxOK, Increasing, Kept, Garbled, TS!HandedInOrder
<1>2. QED
  BY <1>1, StreamInvariant, PTL

(* A set of naturals that has zero and every successor is all of them. *)
LEMMA Induction ==
  ASSUME NEW T, T \subseteq Nat, 0 \in T, \A n \in T : n + 1 \in T
  PROVE  T = Nat
<1> SUFFICES ASSUME Nat \ T # {} PROVE FALSE
  OBVIOUS
<1>1. PICK x \in Nat \ T : \A y \in Nat \ T : x <= y
  BY Least
<1>2. x - 1 \in Nat /\ x - 1 \notin Nat \ T
  BY <1>1
<1>3. (x - 1) + 1 = x
  BY <1>1
<1>4. QED
  BY <1>1, <1>2, <1>3

(* The powers of two up to the n-th.  They are the beginnings of Doubled,    *)
(* which is their limit.                                                     *)
Chain(h, n) ==
  /\ h \in [0 .. n -> Nat]
  /\ h[0] = 1
  /\ \A i \in 1 .. n : h[i] = 2 * h[i - 1]

LEMMA ChainExists == \A n \in Nat : \E h : Chain(h, n)
<1> DEFINE T == {n \in Nat : \E h : Chain(h, n)}
<1>1. 0 \in T
  <2>1. Chain([i \in 0 .. 0 |-> 1], 0)
    BY DEF Chain
  <2>2. QED
    BY <2>1
<1>2. ASSUME NEW n \in T PROVE n + 1 \in T
  <2>1. PICK h : Chain(h, n)
    OBVIOUS
  <2> DEFINE g == [i \in 0 .. n + 1 |-> IF i = n + 1 THEN 2 * h[n] ELSE h[i]]
  <2>2. g \in [0 .. n + 1 -> Nat]
    BY <2>1 DEF Chain
  <2>3. g[0] = 1
    BY <2>1 DEF Chain
  <2>4. ASSUME NEW i \in 1 .. n + 1 PROVE g[i] = 2 * g[i - 1]
    BY <2>1 DEF Chain
  <2> HIDE DEF g
  <2>5. Chain(g, n + 1)
    BY <2>2, <2>3, <2>4 DEF Chain
  <2>6. QED
    BY <2>5
<1>3. T = Nat
  <2> HIDE DEF T
  <2>1. T \subseteq Nat
    BY DEF T
  <2>2. QED
    BY <1>1, <1>2, <2>1, Induction
<1>4. QED
  BY <1>3

LEMMA ChainsAgree ==
  ASSUME NEW m \in Nat, NEW n \in Nat, NEW g, NEW h, Chain(g, m), Chain(h, n)
  PROVE  \A i \in Nat : i <= m /\ i <= n => g[i] = h[i]
<1> DEFINE T == {i \in Nat : i <= m /\ i <= n => g[i] = h[i]}
<1>1. 0 \in T
  BY DEF Chain
<1>2. ASSUME NEW i \in T PROVE i + 1 \in T
  <2> SUFFICES ASSUME i + 1 <= m, i + 1 <= n PROVE g[i + 1] = h[i + 1]
    OBVIOUS
  <2>1. i + 1 \in 1 .. m /\ i + 1 \in 1 .. n /\ (i + 1) - 1 = i /\ g[i] = h[i]
    OBVIOUS
  <2>2. g[i + 1] = 2 * g[i] /\ h[i + 1] = 2 * h[i]
    BY <2>1 DEF Chain
  <2>3. QED
    BY <2>1, <2>2
<1>3. T = Nat
  <2> HIDE DEF T
  <2>1. T \subseteq Nat
    BY DEF T
  <2>2. QED
    BY <1>1, <1>2, <2>1, Induction
<1>4. QED
  BY <1>3

LEMMA DoubledDef == TS!Doubled = [k \in Nat |-> IF k = 0 THEN 1 ELSE 2 * TS!Doubled[k - 1]]
<1> DEFINE powers == [k \in Nat |-> (CHOOSE h : Chain(h, k))[k]]
<1>1. ASSUME NEW k \in Nat, NEW h, Chain(h, k) PROVE powers[k] = h[k]
  <2>1. Chain(CHOOSE g : Chain(g, k), k)
    BY <1>1
  <2>2. QED
    BY <1>1, <2>1, ChainsAgree
<1> HIDE DEF powers
<1>2. ASSUME NEW k \in Nat PROVE powers[k] = IF k = 0 THEN 1 ELSE 2 * powers[k - 1]
  <2>1. PICK h : Chain(h, k)
    BY ChainExists
  <2>2. powers[k] = h[k]
    BY <1>1, <2>1
  <2>3. CASE k = 0
    BY <2>1, <2>2, <2>3 DEF Chain
  <2>4. CASE k # 0
    <3>1. k - 1 \in Nat /\ k \in 1 .. k
      BY <2>4
    <3>2. PICK g : Chain(g, k - 1)
      BY <3>1, ChainExists
    <3>3. powers[k - 1] = g[k - 1]
      BY <1>1, <3>1, <3>2
    <3>4. g[k - 1] = h[k - 1]
      BY <2>1, <3>1, <3>2, ChainsAgree
    <3>5. h[k] = 2 * h[k - 1]
      BY <2>1, <3>1 DEF Chain
    <3>6. QED
      BY <2>2, <2>4, <3>3, <3>4, <3>5
  <2>5. QED
    BY <2>3, <2>4
<1>3. powers = [k \in Nat |-> IF k = 0 THEN 1 ELSE 2 * powers[k - 1]]
  <2>1. powers = [k \in Nat |-> powers[k]]
    BY DEF powers
  <2>2. QED
    BY <1>2, <2>1
<1>4. QED
  BY <1>3 DEF TS!Doubled

LEMMA DoubledGrows ==
  /\ TS!Doubled[0] = 1
  /\ \A k \in Nat : /\ TS!Doubled[k] \in Nat /\ TS!Doubled[k] > k
                    /\ TS!Doubled[k + 1] = 2 * TS!Doubled[k]
<1>1. TS!Doubled[0] = 1
  BY DoubledDef
<1>2. ASSUME NEW k \in Nat PROVE TS!Doubled[k + 1] = 2 * TS!Doubled[k]
  BY DoubledDef
<1> DEFINE T == {k \in Nat : TS!Doubled[k] \in Nat /\ TS!Doubled[k] > k}
<1>3. 0 \in T
  BY <1>1
<1>4. ASSUME NEW k \in T PROVE k + 1 \in T
  BY <1>2
<1>5. T = Nat
  <2> HIDE DEF T
  <2>1. T \subseteq Nat
    BY DEF T
  <2>2. QED
    BY <1>3, <1>4, <2>1, Induction
<1>6. QED
  BY <1>1, <1>2, <1>5

LEMMA WaitGrows ==
  ASSUME TS!StreamAssumption
  PROVE  /\ TS!Wait(0) = 1
         /\ \A k \in Nat : TS!Wait(k + 1) = IF 2 * TS!Wait(k) < BackoffMax
                                            THEN 2 * TS!Wait(k) ELSE BackoffMax
         /\ \A k \in Nat : k >= BackoffMax => TS!Wait(k) = BackoffMax
<1> USE DEF TS!StreamAssumption, TS!Wait
<1>1. TS!Wait(0) = 1
  BY DoubledGrows
<1>2. ASSUME NEW k \in Nat
      PROVE  TS!Wait(k + 1) = IF 2 * TS!Wait(k) < BackoffMax THEN 2 * TS!Wait(k) ELSE BackoffMax
  BY DoubledGrows
<1>3. ASSUME NEW k \in Nat, k >= BackoffMax PROVE TS!Wait(k) = BackoffMax
  BY <1>3, DoubledGrows
<1>4. QED
  BY <1>1, <1>2, <1>3

(* The wait that is due, wherever the generator is. *)
WaitInv ==
  /\ phase = "connecting" => backoff = TS!Wait(streamFailures)
  /\ phase \in {"open", "handed"} => streamFailures = 0 /\ backoff = 1
  /\ phase = "waiting" => streamFailures >= 1 /\ backoff = TS!Wait(streamFailures - 1)

LEMMA WaitStep ==
  ASSUME TS!StreamAssumption, TS!TypeOK, WaitInv, [TS!Next]_TS!vars
  PROVE  WaitInv'
<1>1. /\ streamFailures \in 0 .. BackoffMax + 1 /\ BackoffMax \in Nat \ {0}
      /\ phase \in {"connecting", "open", "handed", "waiting", "stopped"}
  BY DEF TS!StreamAssumption, TS!TypeOK, TS!Enough
<1>2. /\ phase = "connecting" => backoff = TS!Wait(streamFailures)
      /\ phase \in {"open", "handed"} => streamFailures = 0 /\ backoff = 1
      /\ phase = "waiting" => streamFailures >= 1 /\ backoff = TS!Wait(streamFailures - 1)
  BY DEF WaitInv
<1> SUFFICES /\ phase' = "connecting" => backoff' = TS!Wait(streamFailures')
             /\ phase' \in {"open", "handed"} => streamFailures' = 0 /\ backoff' = 1
             /\ phase' = "waiting" => /\ streamFailures' >= 1
                                      /\ backoff' = TS!Wait(streamFailures' - 1)
  BY DEF WaitInv, TS!Wait
<1>3. CASE UNCHANGED <<phase, backoff, streamFailures>>
  BY <1>2, <1>3
<1>4. CASE TS!Connect
  BY <1>4 DEF TS!Connect
<1>5. CASE phase \in {"connecting", "open"} /\ TS!Except
  <2>1. /\ phase' \in {"waiting", "stopped"} /\ backoff' = backoff
        /\ streamFailures' = IF streamFailures < BackoffMax + 1 THEN streamFailures + 1
                                                                ELSE streamFailures
    BY <1>5 DEF TS!Except, TS!Enough
  <2>2. backoff = TS!Wait(streamFailures)
    BY <1>2, <1>5, WaitGrows
  <2>3. CASE streamFailures < BackoffMax + 1
    <3>1. streamFailures' = streamFailures + 1
      BY <2>1, <2>3
    <3>2. streamFailures' - 1 = streamFailures /\ streamFailures' >= 1
      BY <1>1, <3>1
    <3>3. QED
      BY <2>1, <2>2, <3>2
  <2>4. CASE streamFailures = BackoffMax + 1
    <3>1. /\ streamFailures \in Nat /\ streamFailures >= BackoffMax
          /\ streamFailures' - 1 \in Nat /\ streamFailures' - 1 >= BackoffMax
          /\ streamFailures' >= 1
      BY <1>1, <2>1, <2>4
    <3>2. TS!Wait(streamFailures) = BackoffMax /\ TS!Wait(streamFailures' - 1) = BackoffMax
      BY <3>1, WaitGrows
    <3>3. QED
      BY <2>1, <2>2, <3>1, <3>2
  <2>5. QED
    BY <1>1, <2>3, <2>4
<1>6. CASE TS!Wake
  <2>1. /\ phase = "waiting" /\ phase' \in {"connecting", "stopped"}
        /\ backoff' = IF 2 * backoff < BackoffMax THEN 2 * backoff ELSE BackoffMax
        /\ streamFailures' = streamFailures
    BY <1>6 DEF TS!Wake, TS!Again
  <2>2. streamFailures - 1 \in Nat /\ (streamFailures - 1) + 1 = streamFailures
    BY <1>1, <1>2, <2>1
  <2>3. backoff' = TS!Wait(streamFailures)
    BY <1>2, <2>1, <2>2, WaitGrows
  <2>4. QED
    BY <2>1, <2>3
<1>7. CASE TS!Ended
  BY <1>2, <1>7, WaitGrows DEF TS!Ended, TS!Again
<1>8. CASE TS!Read \/ TS!Resume \/ TS!Leave
  BY <1>2, <1>8 DEF TS!Read, TS!Resume, TS!Leave
<1>9. QED
  BY <1>3, <1>4, <1>5, <1>6, <1>7, <1>8
     DEF TS!Next, TS!Send, TS!Hang, TS!Close, TS!Attempt, TS!Progress, TS!ConnectFails,
         TS!ReadGarbled, TS!Broken, TS!vars, TS!client, TS!server

(* WaitsDouble: the k-th exception since a connection was made is followed   *)
(* by a wait of 2^(k-1) seconds, at most _WS_BACKOFF_MAX, however many of    *)
(* them come in a row and wherever they were raised.                         *)
THEOREM WaitsAreDoubled ==
  ASSUME TS!StreamAssumption
  PROVE  TS!Spec => []TS!WaitsDouble
<1>1. TS!Init => WaitInv
  BY WaitGrows DEF TS!Init, WaitInv
<1>2. TS!TypeOK /\ WaitInv /\ [TS!Next]_TS!vars => WaitInv'
  BY WaitStep
<1>3. TS!Spec => []TS!TypeOK
  <2>1. StreamInv => TS!TypeOK
    BY DEF StreamInv
  <2>2. QED
    BY <2>1, StreamInvariant, PTL
<1>4. WaitInv => TS!WaitsDouble
  BY DEF WaitInv, TS!WaitsDouble
<1>5. QED
  BY <1>1, <1>2, <1>3, <1>4, PTL DEF TS!Spec

-----------------------------------------------------------------------------
(* The tickers of a tweet's mentions: Aliases, for all tables and texts.     *)

CONSTANTS Cores, Spelled, Tickers, Tables
VARIABLES aliasTable, resolving, mentions, pending, grouped, resolved

AL == INSTANCE Aliases WITH table <- aliasTable, running <- resolving

(* The rows that a call selected. *)
Selected == {r \in aliasTable : ~r.text.dollar /\ \E m \in mentions : m.core = r.text.core}

(* A call keeps one row of a core, and a row that it looked at is no better  *)
(* than the one it keeps.                                                    *)
GroupInv ==
  /\ pending \subseteq Selected
  /\ grouped \subseteq Selected \ pending
  /\ \A r, s \in grouped : r.text.core = s.text.core => r = s
  /\ \A r \in Selected \ pending :
       \E s \in grouped : s.text.core = r.text.core /\ ~AL!Better(r, s)

(* What the table and the argument are. *)
RowsType ==
  /\ aliasTable \in Tables
  /\ mentions \subseteq AL!Texts
  /\ \A r \in aliasTable : /\ r.text \in AL!Texts /\ r.text.dollar \in BOOLEAN
                      /\ r.ticker \in Tickers /\ r.ticker[1] \in Nat /\ r.priority \in Int

AliasesInv ==
  /\ RowsType
  /\ ~resolving => pending = {}
  /\ resolving => GroupInv
  /\ AL!BestRowDecides

LEMMA AliasesTyped ==
  ASSUME AL!AliasesAssumption, aliasTable \in Tables, NEW r \in aliasTable
  PROVE  /\ r.text \in AL!Texts /\ r.text.dollar \in BOOLEAN
         /\ r.ticker \in Tickers /\ r.ticker[1] \in Nat /\ r.priority \in Int
<1>1. r.text \in AL!Texts /\ r.ticker \in Tickers /\ r.priority \in Int
  BY DEF AL!AliasesAssumption
<1>2. r.text.dollar \in BOOLEAN
  BY <1>1 DEF AL!Texts
<1>3. r.ticker[1] \in Nat
  BY <1>1 DEF AL!AliasesAssumption
<1>4. QED
  BY <1>1, <1>2, <1>3

(* The next row replaces the one that is kept, or is no better. *)
LEMMA GroupStep ==
  ASSUME RowsType, GroupInv, resolving, NEW r \in aliasTable, AL!Group(r)
  PROVE  GroupInv'
<1> DEFINE known == {s \in grouped : s.text.core = r.text.core}
<1>1. /\ r \in pending /\ pending' = pending \ {r}
      /\ UNCHANGED <<aliasTable, mentions>>
      /\ IF \A s \in known : AL!Better(r, s) THEN grouped' = (grouped \ known) \cup {r}
                                          ELSE grouped' = grouped
  BY DEF AL!Group
<1>2. /\ Selected' = Selected /\ r \in Selected /\ r \notin grouped
      /\ \A x, y : AL!Better(x, y)' <=> AL!Better(x, y)
  BY <1>1 DEF Selected, GroupInv, AL!Better
<1>3. pending' \subseteq Selected' /\ grouped' \subseteq Selected' \ pending'
  BY <1>1, <1>2 DEF GroupInv
<1>4. \A x, y \in grouped' : x.text.core = y.text.core => x = y
  BY <1>1 DEF GroupInv
<1>5. ASSUME NEW x \in Selected \ pending'
      PROVE  \E s \in grouped' : s.text.core = x.text.core /\ ~AL!Better(x, s)
  <2>1. \A y \in aliasTable : y.ticker[1] \in Nat /\ y.priority \in Int
    BY DEF RowsType
  <2>2. ~AL!Better(r, r)
    BY <2>1 DEF AL!Better
  <2>3. CASE x = r
    <3>1. CASE \A s \in known : AL!Better(r, s)
      BY <1>1, <2>2, <2>3, <3>1
    <3>2. CASE ~\A s \in known : AL!Better(r, s)
      BY <1>1, <2>3, <3>2
    <3>3. QED
      BY <3>1, <3>2
  <2>4. CASE x # r
    <3>1. PICK s \in grouped : s.text.core = x.text.core /\ ~AL!Better(x, s)
      BY <1>1, <2>4 DEF GroupInv
    <3>2. CASE s \in grouped'
      BY <3>1, <3>2
    <3>3. CASE s \notin grouped'
      <4>1. s \in known /\ AL!Better(r, s) /\ r \in grouped'
        BY <1>1, <3>3
      <4>2. x \in aliasTable /\ s \in aliasTable
        BY <3>1 DEF GroupInv, Selected
      <4>3. ~AL!Better(x, r)
        BY <2>1, <3>1, <4>1, <4>2 DEF AL!Better
      <4>4. QED
        BY <3>1, <4>1, <4>3
    <3>4. QED
      BY <3>2, <3>3
  <2>5. QED
    BY <2>3, <2>4
<1>6. QED
  BY <1>2, <1>3, <1>4, <1>5 DEF GroupInv

(* When no row is left, the row that is kept is one of the best. *)
LEMMA KeptIsBest ==
  ASSUME RowsType, GroupInv, pending = {}, NEW s \in grouped
  PROVE  s \in AL!Best(s.text.core)
<1>1. s \in aliasTable /\ ~s.text.dollar /\ \E m \in mentions : m.core = s.text.core
  BY DEF GroupInv, Selected
<1>2. s.text = [dollar |-> FALSE, core |-> s.text.core]
  BY <1>1 DEF RowsType, AL!Texts
<1>3. ASSUME NEW r \in aliasTable, r.text = s.text
      PROVE  r.priority < s.priority \/ (r.priority = s.priority /\ s.ticker[1] <= r.ticker[1])
  <2>1. r \in Selected \ pending
    BY <1>1, <1>3 DEF Selected
  <2>2. ~AL!Better(r, s)
    BY <1>3, <2>1 DEF GroupInv
  <2>3. QED
    BY <1>1, <2>2 DEF AL!Better, RowsType
<1>4. QED
  BY <1>1, <1>2, <1>3 DEF AL!Best

(* A core of which no row is kept has none. *)
LEMMA NoneKept ==
  ASSUME RowsType, GroupInv, pending = {}, NEW m \in mentions,
         ~\E s \in grouped : s.text.core = m.core
  PROVE  AL!Best(m.core) = {}
<1> SUFFICES ASSUME NEW r \in aliasTable, r.text = [dollar |-> FALSE, core |-> m.core] PROVE FALSE
  BY DEF AL!Best
<1>1. r \in Selected \ pending
  BY DEF Selected
<1>2. QED
  BY <1>1 DEF GroupInv

(* The answer is made of what the rows that were kept contribute. *)
LEMMA AnswerStep ==
  ASSUME AL!AliasesAssumption, RowsType, GroupInv, AL!Answer
  PROVE  AL!BestRowDecides'
<1> DEFINE known == {s.text.core : s \in grouped}
           cores == {m.core : m \in mentions}
           choice == [c \in cores |->
             IF c \in known THEN {s.ticker : s \in {g \in grouped : g.text.core = c}}
             ELSE {Spelled[x] : x \in {c} \cap DOMAIN Spelled}]
<1>1. /\ pending = {} /\ UNCHANGED <<aliasTable, mentions>>
      /\ resolved' = {s.ticker : s \in grouped} \cup
                     {Spelled[c] : c \in (cores \ known) \cap DOMAIN Spelled}
  BY DEF AL!Answer
<1>2. \A core : AL!Contributions(core)' = AL!Contributions(core)
  BY <1>1 DEF AL!Contributions, AL!Best
<1>3. \A s \in grouped : s \in aliasTable /\ s.text.core \in cores
  BY DEF GroupInv, Selected
<1>4. ASSUME NEW c \in cores PROVE choice[c] \in AL!Contributions(c) /\ choice[c] \subseteq Tickers
  <2>1. CASE c \in known
    <3>1. PICK s \in grouped : s.text.core = c
      BY <2>1
    <3>2. choice[c] = {s.ticker}
      BY <2>1, <3>1 DEF GroupInv
    <3>3. s \in AL!Best(c)
      BY <1>1, <3>1, KeptIsBest
    <3>4. s.ticker \in Tickers
      BY <1>3 DEF RowsType
    <3>5. QED
      BY <3>2, <3>3, <3>4 DEF AL!Contributions
  <2>2. CASE c \notin known
    <3>1. choice[c] = {Spelled[x] : x \in {c} \cap DOMAIN Spelled}
      BY <2>2
    <3>2. PICK m \in mentions : m.core = c
      OBVIOUS
    <3>3. AL!Best(c) = {}
      BY <1>1, <2>2, <3>2, NoneKept
    <3>4. choice[c] \subseteq Tickers
      BY <3>1 DEF AL!AliasesAssumption
    <3>5. QED
      BY <3>1, <3>3, <3>4 DEF AL!Contributions
  <2>3. QED
    BY <2>1, <2>2
<1>5. resolved' = UNION {choice[c] : c \in cores}
  <2>1. ASSUME NEW t \in resolved' PROVE t \in UNION {choice[c] : c \in cores}
    <3>1. CASE t \in {s.ticker : s \in grouped}
      <4>1. PICK s \in grouped : t = s.ticker
        BY <3>1
      <4>2. s.text.core \in cores /\ s.text.core \in known
        BY <1>3
      <4>3. t \in choice[s.text.core]
        BY <4>1, <4>2
      <4>4. QED
        BY <4>2, <4>3
    <3>2. CASE t \in {Spelled[c] : c \in (cores \ known) \cap DOMAIN Spelled}
      BY <3>2
    <3>3. QED
      BY <1>1, <2>1, <3>1, <3>2
  <2>2. ASSUME NEW c \in cores, NEW t \in choice[c] PROVE t \in resolved'
    <3>1. CASE c \in known
      BY <1>1, <3>1
    <3>2. CASE c \notin known
      BY <1>1, <3>2
    <3>3. QED
      BY <3>1, <3>2
  <2> HIDE DEF choice, cores
  <2>3. QED
    BY <2>1, <2>2
<1>6. choice \in [cores -> SUBSET Tickers] /\ DOMAIN choice = cores
  BY <1>4
<1> HIDE DEF choice
<1>7. /\ \A core \in DOMAIN choice : choice[core] \in AL!Contributions(core)'
      /\ resolved' = UNION {choice[core] : core \in DOMAIN choice}
  BY <1>2, <1>4, <1>5, <1>6
<1>8. choice \in [{m.core : m \in mentions'} -> SUBSET Tickers]
  BY <1>1, <1>6
<1>9. QED
  BY <1>7, <1>8 DEF AL!BestRowDecides

LEMMA AliasesInvariant ==
  ASSUME AL!AliasesAssumption
  PROVE  AL!Spec => []AliasesInv
<1>1. AL!Init => AliasesInv
  <2> SUFFICES ASSUME AL!Init PROVE AliasesInv
    OBVIOUS
  <2>1. RowsType /\ pending = {} /\ ~resolving
    BY AliasesTyped DEF AL!Init, RowsType
  <2>2. AL!BestRowDecides
    <3> DEFINE choice == [c \in {m.core : m \in mentions} |-> {}]
    <3>1. mentions = {} /\ resolved = {}
      BY DEF AL!Init
    <3>2. /\ choice \in [{m.core : m \in mentions} -> SUBSET Tickers]
          /\ DOMAIN choice = {}
      BY <3>1
    <3>3. resolved = UNION {choice[core] : core \in DOMAIN choice}
      BY <3>1, <3>2
    <3> HIDE DEF choice
    <3>4. QED
      BY <3>2, <3>3 DEF AL!BestRowDecides
  <2>3. QED
    BY <2>1, <2>2 DEF AliasesInv
<1>2. AliasesInv /\ [AL!Next]_AL!vars => AliasesInv'
  <2> SUFFICES ASSUME AliasesInv, [AL!Next]_AL!vars PROVE AliasesInv'
    OBVIOUS
  <2>1. CASE UNCHANGED AL!vars
    <3>1. UNCHANGED <<aliasTable, resolving, mentions, pending, grouped, resolved>>
      BY <2>1 DEF AL!vars
    <3>2. RowsType' <=> RowsType
      BY <3>1 DEF RowsType
    <3>3. GroupInv' <=> GroupInv
      BY <3>1 DEF GroupInv, Selected, AL!Better
    <3>4. \A core : AL!Contributions(core)' = AL!Contributions(core)
      BY <3>1 DEF AL!Contributions, AL!Best
    <3>5. AL!BestRowDecides' <=> AL!BestRowDecides
      BY <3>1, <3>4 DEF AL!BestRowDecides
    <3>6. QED
      BY <3>1, <3>2, <3>3, <3>5 DEF AliasesInv
  <2>2. ASSUME NEW asked \in SUBSET AL!Texts, AL!Call(asked) PROVE AliasesInv'
    <3>1. GroupInv'
      BY <2>2 DEF AL!Call, GroupInv, Selected
    <3>2. RowsType' /\ resolving'
      BY <2>2 DEF AL!Call, AliasesInv, RowsType
    <3>3. QED
      BY <3>1, <3>2 DEF AliasesInv, AL!BestRowDecides
  <2>3. ASSUME NEW r \in aliasTable, AL!Group(r) PROVE AliasesInv'
    <3>1. resolving /\ resolving' /\ RowsType /\ RowsType'
      BY <2>3 DEF AL!Group, AliasesInv, RowsType
    <3>2. GroupInv'
      BY <2>3, <3>1, GroupStep DEF AliasesInv
    <3>3. QED
      BY <3>1, <3>2 DEF AliasesInv, AL!BestRowDecides
  <2>4. CASE AL!Answer
    <3>1. RowsType' /\ ~resolving' /\ pending' = {}
      BY <2>4 DEF AL!Answer, AliasesInv, RowsType
    <3>2. AL!BestRowDecides'
      BY <2>4, AnswerStep DEF AliasesInv, AL!Answer
    <3>3. QED
      BY <3>1, <3>2 DEF AliasesInv
  <2>5. QED
    BY <2>1, <2>2, <2>3, <2>4 DEF AL!Next
<1>3. QED
  BY <1>1, <1>2, PTL DEF AL!Spec

(* BestRowDecides: resolve_tickers answers with a best row of every mention, *)
(* in whatever order the SELECT returns the rows, and with nothing else.     *)
THEOREM BestDecides ==
  ASSUME AL!AliasesAssumption
  PROVE  AL!Spec => []AL!BestRowDecides
<1>1. AliasesInv => AL!BestRowDecides
  BY DEF AliasesInv
<1>2. QED
  BY <1>1, AliasesInvariant, PTL
=============================================================================
