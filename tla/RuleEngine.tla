------------------------------ MODULE RuleEngine ------------------------------
(***************************************************************************)
(* The declarative rules: loading them from a directory                    *)
(* (backend/rules/loader.py), the store that keeps them and is reloaded    *)
(* while it is in use (backend/rules/store.py, backend/api/admin_rules.py),*)
(* and the engine that evaluates them on an event (backend/rules/engine.py)*)
(*                                                                         *)
(* The store is shared by threads: the reload endpoint is a plain function,*)
(* which FastAPI runs in a thread of its own.  A reload reads the files    *)
(* one after the other, while they may change, and replaces the list of    *)
(* the store at the end; the engine takes a copy of the list and examines  *)
(* its rules one after the other.                                          *)
(*                                                                         *)
(* An identifier is a number that stands for its rank in the order of      *)
(* strings, and so is the name of a file.  The list in the store is always *)
(* sorted, and the engine sorts it again: it is modelled as a set.         *)
(***************************************************************************)
EXTENDS Integers, Sequences, FiniteSets

CONSTANTS
  Files,       \* names *.yaml and *.yml in the directory
  Drafts,      \* those that begin with an underscore
  Rules,       \* rules that a file may hold: [id, priority, enabled, conditions]
  Absent,      \* there is no such file
  Broken,      \* its content is not a rule
  Events,      \* events, functions from fields to values
  Loaders,     \* threads that run RuleStore.reload
  MaxEdits     \* bound on the changes to the directory

ASSUME RulesAssumption ==
  /\ Files \subseteq Nat /\ IsFiniteSet(Files) /\ Drafts \subseteq Files
  /\ \A r \in Rules : r.id \in Nat /\ r.priority \in Int /\ r.enabled \in BOOLEAN
  /\ \A r \in Rules : DOMAIN r.conditions = 1 .. Len(r.conditions)   \* a list
  /\ {Absent, Broken} \cap Rules = {} /\ Absent # Broken
  /\ MaxEdits \in Nat

VARIABLES
  disk,      \* disk[f]: the content of the file f
  edits,     \* how many times the directory changed
  store,     \* RuleStore._rules
  loading,   \* loading[l]: l is in reload
  paths,     \* paths[l]: the files that l has still to read
  loaded,    \* loaded[l]: the rules that l has read
  touched,   \* history: touched[l]: the files that changed since l listed them
  stale,     \* history: the files that changed since the store's list was begun
  running,   \* the engine is in evaluate
  rules,     \* RuleEngine._rules, in the order of the engine
  event,     \* the event it evaluates
  records,   \* the evaluations recorded so far
  matched    \* the rule that matched, or NoRule

directory == <<disk, edits>>
loader == <<loading, paths, loaded>>
history == <<touched, stale>>
engine == <<running, rules, event, records, matched>>
vars == <<directory, store, loader, history, engine>>

NoRule == [id |-> -1]

(* Descending priority, then ascending id. *)
Before(r, s) == r.priority > s.priority \/ (r.priority = s.priority /\ r.id < s.id)

Sorted(set) ==
  CHOOSE list \in [1 .. Cardinality(set) -> set] :
    \A i, j \in DOMAIN list : i < j => Before(list[i], list[j])

-----------------------------------------------------------------------------
(* Conditions.  A value is a number, a text or a list.                       *)

Comparisons == {"gt", "gte", "lt", "lte"}

(* _check raises TypeError or ValueError: float() of what is no number, or   *)
(* `in' something that is no list.                                           *)
Raises(c, e) ==
  \/ c.op \in Comparisons /\ {e[c.field].kind, c.value.kind} # {"number"}
  \/ c.op = "in" /\ c.value.kind # "list"

Holds(c, e) ==
  LET actual == e[c.field] IN
    CASE c.op = "eq"  -> actual = c.value
      [] c.op = "neq" -> actual # c.value
      [] c.op = "gt"  -> actual.is > c.value.is
      [] c.op = "gte" -> actual.is >= c.value.is
      [] c.op = "lt"  -> actual.is < c.value.is
      [] c.op = "lte" -> actual.is <= c.value.is
      [] c.op = "in"  -> actual \in c.value.is

HoldsUpTo(rule, e, n) ==
  \A i \in 1 .. n : ~Raises(rule.conditions[i], e) /\ Holds(rule.conditions[i], e)

(* all() stops at the first condition that is false, and so a condition      *)
(* raises only if those before it hold.                                      *)
Met(rule, e) == HoldsUpTo(rule, e, Len(rule.conditions))

Fails(rule, e) ==
  \E i \in DOMAIN rule.conditions :
    Raises(rule.conditions[i], e) /\ HoldsUpTo(rule, e, i - 1)

-----------------------------------------------------------------------------
Contents == Rules \cup {Absent, Broken}

TypeOK ==
  /\ disk \in [Files -> Contents]
  /\ edits \in Nat
  /\ store \subseteq Rules
  /\ loading \in [Loaders -> BOOLEAN]
  /\ paths \in [Loaders -> SUBSET Files]
  /\ loaded \in [Loaders -> SUBSET Rules]
  /\ touched \in [Loaders -> SUBSET Files]
  /\ stale \subseteq Files
  /\ running \in BOOLEAN
  /\ rules \in Seq(Rules)
  /\ event \in Events
  /\ records \in Seq([id : Nat, outcome : {"matched", "skipped", "failed"}])
  /\ matched \in Rules \cup {NoRule}

Init ==
  /\ disk \in [Files -> Contents]
  /\ edits = 0
  /\ store = {}
  /\ loading = [l \in Loaders |-> FALSE]
  /\ paths = [l \in Loaders |-> {}]
  /\ loaded = [l \in Loaders |-> {}]
  /\ touched = [l \in Loaders |-> {}]
  /\ stale = Files
  /\ running = FALSE
  /\ rules = <<>>
  /\ event \in Events
  /\ records = <<>>
  /\ matched = NoRule

Touch(files) ==
  /\ edits < MaxEdits
  /\ edits' = edits + 1
  /\ touched' = [l \in Loaders |-> IF loading[l] THEN touched[l] \cup files ELSE {}]
  /\ stale' = stale \cup files
  /\ UNCHANGED <<store, loader, engine>>

(* Someone writes or removes a file, or renames it. *)
Edit(f, content) ==
  /\ disk' = [disk EXCEPT ![f] = content]
  /\ Touch({f})

Rename(f, g) ==
  /\ disk[f] # Absent /\ f # g
  /\ disk' = [disk EXCEPT ![f] = Absent, ![g] = disk[f]]
  /\ Touch({f, g})

-----------------------------------------------------------------------------
(* reload, at boot and on POST /admin/rules/reload: list the directory, read *)
(* every file, replace the list.                                             *)
Reload(l) ==
  /\ ~loading[l]
  /\ loading' = [loading EXCEPT ![l] = TRUE]
  /\ paths' = [paths EXCEPT ![l] = {f \in Files \ Drafts : disk[f] # Absent}]
  /\ UNCHANGED <<directory, store, loaded, history, engine>>

(* The locals of reload are gone when it ends. *)
End(l) ==
  /\ loading' = [loading EXCEPT ![l] = FALSE]
  /\ paths' = [paths EXCEPT ![l] = {}]
  /\ loaded' = [loaded EXCEPT ![l] = {}]
  /\ touched' = [touched EXCEPT ![l] = {}]
  /\ UNCHANGED <<directory, engine>>

First(set) == CHOOSE f \in set : \A g \in set : f <= g

(* A rule whose id was read before is refused, the same rule included: what  *)
(* was read is a list without repetitions in the code, and a set here.       *)
Duplicate(l, rule) == \E r \in loaded[l] : r.id = rule.id

(* Variants with a defect are kept before the action they differ from.       *)
ReadUnchecked(l) ==    \* duplicate ids are let in
  /\ loading[l] /\ paths[l] # {}
  /\ LET f == First(paths[l]) IN
       /\ disk[f] \in Rules
       /\ paths' = [paths EXCEPT ![l] = @ \ {f}]
       /\ loaded' = [loaded EXCEPT ![l] = @ \cup {disk[f]}]
  /\ UNCHANGED <<directory, store, loading, history, engine>>

Read(l) ==
  /\ loading[l] /\ paths[l] # {}
  /\ LET f == First(paths[l]) IN
       /\ disk[f] \in Rules /\ ~Duplicate(l, disk[f])
       /\ paths' = [paths EXCEPT ![l] = @ \ {f}]
       /\ loaded' = [loaded EXCEPT ![l] = @ \cup {disk[f]}]
  /\ UNCHANGED <<directory, store, loading, history, engine>>

SkipDuplicate(l) ==    \* a second rule with an id is left out of the list
  /\ loading[l] /\ paths[l] # {}
  /\ disk[First(paths[l])] \in Rules /\ Duplicate(l, disk[First(paths[l])])
  /\ paths' = [paths EXCEPT ![l] = @ \ {First(@)}]
  /\ UNCHANGED <<directory, store, loading, loaded, history, engine>>

(* RuleLoadError, or OSError when the file is gone: the list is not replaced.*)
ReadFails(l) ==
  /\ loading[l] /\ paths[l] # {}
  /\ LET f == First(paths[l]) IN
       disk[f] \in Rules => Duplicate(l, disk[f])
  /\ End(l)
  /\ UNCHANGED <<store, stale>>

Swap(l) ==
  /\ loading[l] /\ paths[l] = {}
  /\ store' = loaded[l]
  /\ stale' = touched[l]
  /\ End(l)

-----------------------------------------------------------------------------
(* RuleEngine(store.get_rules()).evaluate(e). *)
Evaluate(e) ==
  /\ ~running
  /\ running' = TRUE
  /\ rules' = Sorted(store)
  /\ event' = e
  /\ records' = <<>>
  /\ matched' = NoRule
  /\ UNCHANGED <<directory, store, loader, history>>

Record(rule, outcome) ==
  records' = Append(records, [id |-> rule.id, outcome |-> outcome])

ExamineTheLast ==      \* the last rule that matches wins
  /\ running /\ Len(records) < Len(rules)
  /\ LET rule == rules[Len(records) + 1] IN
       IF rule.enabled /\ Met(rule, event)
       THEN Record(rule, "matched") /\ matched' = rule
       ELSE Record(rule, "skipped") /\ UNCHANGED matched
  /\ UNCHANGED <<directory, store, loader, history, running, rules, event>>

ExamineSilently ==     \* a rule that raises leaves no mark
  /\ running /\ Len(records) < Len(rules)
  /\ LET rule == rules[Len(records) + 1] IN
       IF rule.enabled /\ Met(rule, event) /\ matched = NoRule
       THEN Record(rule, "matched") /\ matched' = rule
       ELSE Record(rule, "skipped") /\ UNCHANGED matched
  /\ UNCHANGED <<directory, store, loader, history, running, rules, event>>

Examine ==
  /\ running /\ Len(records) < Len(rules)
  /\ LET rule == rules[Len(records) + 1] IN
       \/ /\ ~rule.enabled
          /\ Record(rule, "skipped")
          /\ UNCHANGED matched
       \/ /\ rule.enabled /\ Fails(rule, event)
          /\ Record(rule, "failed")
          /\ UNCHANGED matched
       \/ /\ rule.enabled /\ Met(rule, event) /\ matched = NoRule
          /\ Record(rule, "matched")
          /\ matched' = rule
       \/ /\ rule.enabled /\ ~Fails(rule, event)
          /\ ~Met(rule, event) \/ matched # NoRule
          /\ Record(rule, "skipped")
          /\ UNCHANGED matched
  /\ UNCHANGED <<directory, store, loader, history, running, rules, event>>

Return ==
  /\ running /\ Len(records) = Len(rules)
  /\ running' = FALSE
  /\ UNCHANGED <<directory, store, loader, history, rules, event, records, matched>>

-----------------------------------------------------------------------------
Next ==
  \/ \E f \in Files, content \in Contents : Edit(f, content)
  \/ \E f, g \in Files : Rename(f, g)
  \/ \E l \in Loaders : Reload(l) \/ Read(l) \/ ReadFails(l) \/ Swap(l)
  \/ \E e \in Events : Evaluate(e)
  \/ Examine
  \/ Return

Spec == Init /\ [][Next]_vars

-----------------------------------------------------------------------------
Snapshot == {rules[i] : i \in DOMAIN rules}

Candidates == {r \in Snapshot : r.enabled /\ Met(r, event)}

(* Whatever is reloaded meanwhile, the rule that wins is, among those of one *)
(* and the same list, the enabled one whose conditions hold and that comes   *)
(* before the others: no rule that raises, and no order of the files, decides*)
(* otherwise.                                                                *)
WinnerIsBest ==
  ~running =>
    \/ Candidates = {} /\ matched = NoRule
    \/ /\ matched \in Candidates
       /\ \A r \in Candidates \ {matched} : Before(matched, r)

(* INV-4.  Every rule has its record, in the order of the engine, and the    *)
(* record says what happened: one rule at most matched, a rule failed if a   *)
(* condition raised, even when another rule had matched before.              *)
EveryRuleRecorded ==
  ~running =>
    /\ Len(records) = Len(rules)
    /\ \A i \in DOMAIN rules :
         /\ records[i].id = rules[i].id
         /\ records[i].outcome = "matched" <=> rules[i] = matched
         /\ records[i].outcome = "failed" <=> rules[i].enabled /\ Fails(rules[i], event)

(* No reload, not even one that reads the directory while rules move between *)
(* files, gives the store or the engine two rules with the same id: the      *)
(* order of the engine is total, and an id in rule_evaluations is one rule.  *)
IdsUnique ==
  \A set \in {store, Snapshot} : \A r, s \in set : r.id = s.id => r = s

(* A reload is no snapshot of the directory, and of two reloads the one that *)
(* began first may be the one that ends last.  All the same, the store has   *)
(* the rule of every file that did not change since the reload that filled   *)
(* it began, no rule is left out to get a list; and beside those rules it    *)
(* has one at most for each file that did change.                            *)
StandingRulesKept ==
  LET standing == {disk[f] : f \in Files \ (Drafts \cup stale)} \ {Absent} IN
    /\ standing \subseteq store
    /\ Cardinality(store \ standing) <= Cardinality(stale)
=============================================================================
