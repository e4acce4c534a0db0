----------------------------- MODULE PositionSync -----------------------------
(***************************************************************************)
(* From the positions at the broker to the table positions:                *)
(* backend/services/positions_sync.py over backend/providers/ib.py.        *)
(*                                                                         *)
(*   idle    not running                                                   *)
(*   select  has the broker's report, reads the table                      *)
(*   flush   sends the differences, which takes the write lock             *)
(*   commit  the caller commits                                            *)
(*   done    committed                                                     *)
(*                                                                         *)
(* Several contracts may have one symbol (a share and its options), and a  *)
(* holding may have a fraction of a share: quantities at the broker are in *)
(* half shares, those of the table in whole ones.                          *)
(*                                                                         *)
(* Syncs are called by whoever wants one: nothing keeps two from           *)
(* overlapping.                                                            *)
(***************************************************************************)
EXTENDS IbProvider, Integers

CONSTANTS
  Syncs,       \* calls of sync_positions
  Free,        \* the write lock has no holder
  Contracts,
  SymbolOf,    \* the symbol of a contract
  Holdings,    \* what an account may hold of a contract
  Absent,      \* no holding, no row
  MaxTrades    \* bound on changes of the holdings

Symbols == {SymbolOf[k] : k \in Contracts}

ASSUME HoldingsAssumption ==
  /\ Free \notin Syncs
  /\ Holdings \subseteq [halves : Int, price : Nat]
  /\ Absent \notin Holdings \cup [quantity : Int, price : Nat]
  /\ MaxTrades \in Nat

VARIABLES
  holdings,   \* the account: holdings[k]
  trades,     \* how often the holdings changed
  table,      \* table[x]: the committed row of the symbol x
  lock,       \* the write lock
  spc,        \* spc[s]: what s does next
  report,     \* report[s]: what get_positions answered
  dirty,      \* dirty[s]: by symbol, the columns s will write
  settled     \* history: the symbols about which no two syncs that overlap were told
              \* different things, and that did not change, since the report of s

account == <<holdings, trades>>
own == <<spc, report, dirty>>
vars == <<session, account, table, lock, own, settled>>

Shares(halves) == IF halves >= 0 THEN halves \div 2 ELSE -((-halves) \div 2)

(* A Position of providers/base.py: int() cuts the fraction off. *)
Reported(holding) == [quantity |-> Shares(holding.halves), price |-> holding.price]

(* Syncs that overlap may mix the columns of two reports in a row. *)
Rows == [quantity : {Shares(h.halves) : h \in Holdings} \cup {0},
         price : {h.price : h \in Holdings}]

HeldIn(x) == {k \in Contracts : SymbolOf[k] = x /\ holdings[k] # Absent}

Columns == {"insert", "quantity", "price"}

TypeOK ==
  /\ SessionTypeOK
  /\ holdings \in [Contracts -> Holdings \cup {Absent}]
  /\ trades \in 0 .. MaxTrades
  /\ table \in [Symbols -> Rows \cup {Absent}]
  /\ lock \in Syncs \cup {Free}
  /\ spc \in [Syncs -> {"idle", "select", "flush", "commit", "done"}]
  /\ report \in [Syncs -> [Symbols -> Rows \cup {Absent}]]
  /\ dirty \in [Syncs -> [Symbols -> SUBSET Columns]]
  /\ settled \in [Syncs -> SUBSET Symbols]

Nothing == [x \in Symbols |-> Absent]
Clean == [x \in Symbols |-> {}]

Init ==
  /\ SessionInit
  /\ holdings \in [Contracts -> Holdings \cup {Absent}]
  /\ trades = 0
  /\ table = Nothing
  /\ lock = Free
  /\ spc = [s \in Syncs |-> "idle"]
  /\ report = [s \in Syncs |-> Nothing]
  /\ dirty = [s \in Syncs |-> Clean]
  /\ settled = [s \in Syncs |-> {}]

Running(s) == spc[s] \in {"select", "flush", "commit"}

(* An order is filled, somewhere. *)
Trade(k) ==
  /\ trades < MaxTrades
  /\ trades' = trades + 1
  /\ \E h \in Holdings \cup {Absent} :
       /\ h # holdings[k]
       /\ holdings' = [holdings EXCEPT ![k] = h]
  /\ settled' = [s \in Syncs |-> settled[s] \ {SymbolOf[k]}]
  /\ UNCHANGED <<session, table, lock, own>>

-----------------------------------------------------------------------------
(* get_positions, which awaits nothing, and raises unless Connected.  Of      *)
(* several contracts with the same symbol the last one counts, in whatever   *)
(* order they come.                                                          *)
Answer(r) ==
  \A x \in Symbols :
    \/ HeldIn(x) = {} /\ r[x] = Absent
    \/ \E k \in HeldIn(x) : r[x] = Reported(holdings[k])

(* While two syncs that run were told different things of a symbol, nobody   *)
(* can settle it.                                                            *)
Contradicted(s, r) ==
  {x \in Symbols : \E v \in Syncs \ {s} : Running(v) /\ report[v][x] # r[x]}

Receive(s, r) ==
  /\ report' = [report EXCEPT ![s] = r]
  /\ settled' = [v \in Syncs |-> (IF v = s THEN Symbols ELSE settled[v]) \ Contradicted(s, r)]
  /\ spc' = [spc EXCEPT ![s] = "select"]

ReportAnyway(s) ==     \* without a connection there are no positions
  /\ ~Running(s)
  /\ \E r \in [Symbols -> Rows \cup {Absent}] :
       /\ IF Connected THEN Answer(r) ELSE r = Nothing
       /\ Receive(s, r)
  /\ UNCHANGED <<session, account, table, lock, dirty>>

Report(s) ==
  /\ ~Running(s)
  /\ Connected
  /\ \E r \in [Symbols -> Rows \cup {Absent}] : Answer(r) /\ Receive(s, r)
  /\ UNCHANGED <<session, account, table, lock, dirty>>

(* The SELECT, which sees committed rows, and the comparison: a row is       *)
(* written in the columns that differ.                                       *)
Target(row, r) == IF r = Absent THEN [row EXCEPT !.quantity = 0] ELSE r

Differing(row, r) ==
  IF row = Absent THEN IF r = Absent THEN {} ELSE {"insert"}
  ELSE {f \in {"quantity", "price"} : row[f] # Target(row, r)[f]}

DirtyReported(s) ==    \* rows that were not reported are left alone
  [x \in Symbols |-> IF report[s][x] = Absent THEN {} ELSE Differing(table[x], report[s][x])]

Dirty(s) == [x \in Symbols |-> Differing(table[x], report[s][x])]

Select(s) ==
  /\ spc[s] = "select"
  /\ dirty' = [dirty EXCEPT ![s] = Dirty(s)]
  /\ spc' = [spc EXCEPT ![s] = "flush"]
  /\ UNCHANGED <<session, account, table, lock, report, settled>>

(* A symbol is unique. *)
Clashes(s) == \E x \in Symbols : "insert" \in dirty[s][x] /\ table[x] # Absent

Flush(s) ==
  /\ spc[s] = "flush"
  /\ \/ dirty[s] = Clean /\ UNCHANGED lock
     \/ dirty[s] # Clean /\ ~Clashes(s) /\ lock = Free /\ lock' = s
  /\ spc' = [spc EXCEPT ![s] = "commit"]
  /\ UNCHANGED <<session, account, table, report, dirty, settled>>

(* s is over: what it knew is gone. *)
End(s, how) ==
  /\ spc' = [spc EXCEPT ![s] = how]
  /\ report' = [report EXCEPT ![s] = Nothing]
  /\ dirty' = [dirty EXCEPT ![s] = Clean]
  /\ lock' = IF lock = s THEN Free ELSE lock
  /\ UNCHANGED <<session, account>>

(* IntegrityError, or the busy timeout. *)
FlushFails(s) ==
  /\ spc[s] = "flush" /\ dirty[s] # Clean
  /\ lock # Free \/ Clashes(s)
  /\ End(s, "idle")
  /\ settled' = [settled EXCEPT ![s] = {}]
  /\ UNCHANGED table

Written(row, columns, r) ==
  IF "insert" \in columns THEN r
  ELSE IF columns = {} THEN row
  ELSE [f \in {"quantity", "price"} |-> IF f \in columns THEN Target(row, r)[f] ELSE row[f]]

Commit(s) ==
  /\ spc[s] = "commit"
  /\ table' = [x \in Symbols |-> Written(table[x], dirty[s][x], report[s][x])]
  /\ End(s, "done")
  /\ UNCHANGED settled

(* An await raises, or the process dies: the session rolls back. *)
Abort(s) ==
  /\ Running(s)
  /\ End(s, "idle")
  /\ settled' = [settled EXCEPT ![s] = {}]
  /\ UNCHANGED table

-----------------------------------------------------------------------------
Syncing(s) ==
  \/ Report(s) \/ Select(s) \/ Flush(s) \/ FlushFails(s)
  \/ Commit(s) \/ Abort(s)

Next ==
  \/ SessionStep /\ UNCHANGED <<account, table, lock, own, settled>>
  \/ \E k \in Contracts : Trade(k)
  \/ \E s \in Syncs : Syncing(s)

Spec == Init /\ [][Next]_vars

(* connect is a coroutine: its attempts have a timeout, its waits end. *)
FairSpec ==
  Spec /\ \A c \in Clients :
    WF_vars(Connecting(c) /\ UNCHANGED <<account, table, lock, own, settled>>)

-----------------------------------------------------------------------------
(* What the table shows of a symbol is what the account holds of it. *)
Shown(x) ==
  \/ HeldIn(x) = {} /\ (table[x] = Absent \/ table[x].quantity = 0)
  \/ \E k \in HeldIn(x) : table[x] = Reported(holdings[k])

(* A sync that commits leaves the table right about every symbol that did    *)
(* not change since its report and about which no two overlapping syncs were *)
(* told different things, and it stays so whatever other syncs write later:  *)
(* although a sync writes only the columns that differed from rows it read   *)
(* some steps before, although the connection may be gone, and although the  *)
(* report says nothing of symbols that are no longer held.                   *)
SettledSynced == \A s \in Syncs : spc[s] = "done" => \A x \in settled[s] : Shown(x)

(* positions_sync.py: upsert every broker position into `positions'.  Then   *)
(* every contract that is held would be in the row of its symbol.            *)
EveryPositionUpserted ==
  \A s \in Syncs : spc[s] = "done" =>
    \A k \in Contracts :
      SymbolOf[k] \in settled[s] /\ holdings[k] # Absent =>
        table[SymbolOf[k]] = Reported(holdings[k])
=============================================================================
