------------------------------- MODULE Aliases -------------------------------
(***************************************************************************)
(* From the mentions of a tweet to tickers: resolve_tickers of             *)
(* backend/services/aliases.py.  The rows of the table aliases come in the *)
(* order the database likes (the SELECT has no ORDER BY); the function     *)
(* goes over them once and keeps the best row of each mention.             *)
(*                                                                         *)
(* A text is [dollar, core]: whether it has a leading `$', and what is left*)
(* without regard to case.  A core that has one to five letters and nothing*)
(* else spells a ticker.  A ticker is a pair: the rank of its first letter,*)
(* and the rank of the others.  A text and a ticker may be in two rows:    *)
(* that they are unique in the table is with regard to case.               *)
(***************************************************************************)
EXTENDS Integers, FiniteSets

CONSTANTS
  Cores,
  Spelled,      \* a function from the cores that spell a ticker to tickers
  Tickers,
  Tables        \* the contents that the table may have

Texts == [dollar : BOOLEAN, core : Cores]

ASSUME AliasesAssumption ==
  /\ DOMAIN Spelled \subseteq Cores
  /\ Tickers \subseteq Nat \X Nat
  /\ \A core \in DOMAIN Spelled : Spelled[core] \in Tickers
  /\ \A table \in Tables : \A r \in table :
       r.text \in Texts /\ r.ticker \in Tickers /\ r.priority \in Int

VARIABLES
  table,      \* the rows of aliases: [text, ticker, priority]
  running,    \* a call is in progress
  mentions,   \* its argument
  pending,    \* the selected rows that it has not looked at
  grouped,    \* the row that it keeps of each core
  resolved    \* the answer

vars == <<table, running, mentions, pending, grouped, resolved>>

Init ==
  /\ table \in Tables
  /\ running = FALSE
  /\ mentions = {} /\ pending = {} /\ grouped = {} /\ resolved = {}

(* The call and its SELECT: the rows whose text is, without regard to case,  *)
(* a mention without its `$'.                                                *)
Call(asked) ==
  /\ ~running
  /\ running' = TRUE
  /\ mentions' = asked
  /\ pending' = {r \in table : ~r.text.dollar /\ \E m \in asked : m.core = r.text.core}
  /\ grouped' = {}
  /\ resolved' = {}
  /\ UNCHANGED table

(* Variants with a defect are kept before the definition they differ from.   *)
BetterOrEqual(r, s) == r.priority >= s.priority    \* the last row wins

(* Of the tickers, the first letters are compared and nothing else. *)
Better(r, s) ==
  r.priority > s.priority \/ (r.priority = s.priority /\ r.ticker[1] < s.ticker[1])

Group(r) ==
  /\ r \in pending
  /\ pending' = pending \ {r}
  /\ LET known == {s \in grouped : s.text.core = r.text.core} IN
       IF \A s \in known : Better(r, s)
       THEN grouped' = (grouped \ known) \cup {r}
       ELSE UNCHANGED grouped
  /\ UNCHANGED <<table, running, mentions, resolved>>

(* A mention without a row spells a ticker, or is dropped. *)
Answer ==
  /\ running
  /\ pending = {}
  /\ LET known == {s.text.core : s \in grouped}
         other == {m.core : m \in mentions} \ known
     IN  resolved' = {s.ticker : s \in grouped} \cup
                     {Spelled[c] : c \in other \cap DOMAIN Spelled}
  /\ running' = FALSE
  /\ UNCHANGED <<table, mentions, pending, grouped>>

Next ==
  \/ \E asked \in SUBSET Texts : Call(asked)
  \/ \E r \in table : Group(r)
  \/ Answer

Spec == Init /\ [][Next]_vars

-----------------------------------------------------------------------------
(* The rows that may decide about a core: without `$', of the highest        *)
(* priority, and with the smallest first letter among those.                 *)
Best(core) ==
  {r \in table :
     /\ r.text = [dollar |-> FALSE, core |-> core]
     /\ \A s \in table : s.text = r.text =>
          s.priority < r.priority
          \/ (s.priority = r.priority /\ r.ticker[1] <= s.ticker[1])}

(* What a mention with that core may contribute to the answer. *)
Contributions(core) ==
  IF Best(core) # {} THEN {{r.ticker} : r \in Best(core)}
  ELSE {{Spelled[c] : c \in {core} \cap DOMAIN Spelled}}

(* In whatever order the rows come, every mention contributes one ticker:    *)
(* that of a best row, or the one it spells when it has no row.  Nothing     *)
(* else is in the answer.                                                    *)
BestRowDecides ==
  ~running =>
    \E choice \in [{m.core : m \in mentions} -> SUBSET Tickers] :
      /\ \A core \in DOMAIN choice : choice[core] \in Contributions(core)
      /\ resolved = UNION {choice[core] : core \in DOMAIN choice}

(* Of two tickers, the lexicographically smaller one. *)
Smaller(t, u) == t[1] < u[1] \/ (t[1] = u[1] /\ t[2] < u[2])

(* aliases.py: ties resolve to the lexicographically smaller ticker, for     *)
(* determinism.  Then a ticker would not be the answer of a row when a row   *)
(* as good has a smaller one.                                                *)
TiesAreLexicographic ==
  ~running =>
    \A r \in grouped, s \in table :
      s.text = r.text /\ s.priority = r.priority => ~Smaller(s.ticker, r.ticker)

(* models/alias.py: a row maps a mention such as `$TSLA' to its ticker.  Then*)
(* a row whose text begins with `$' would be found for that mention when it  *)
(* is the only row for it.                                                   *)
DollarRowsCount ==
  ~running =>
    \A m \in mentions, r \in table :
      m = r.text /\ (\A s \in table : s.text.core = m.core => s = r)
        => r.ticker \in resolved
=============================================================================
