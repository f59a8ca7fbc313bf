----------------------------- MODULE Collections -----------------------------
(***************************************************************************)
(* A collection of the store (store/collection/base.py), in memory           *)
(* (ListBasedCollection) and in MongoDB (MongoBasedCollection): what writes  *)
(* leave behind, and that the two answer a query alike although one walks a  *)
(* nested dict, by its keys if it can, and the other translates the filter.  *)
(*                                                                         *)
(* An item has two primary keys, as an attempt has, and one more field.  The *)
(* upper case of a letter stands for the letters that differ from it only in *)
(* case; containment is the containment of one letter in a word of one.      *)
(***************************************************************************)
EXTENDS Integers, Sequences, SequencesExt, FiniteSets, Selections

CONSTANTS
  Values,       \* of the fields
  Fold,         \* what a value is when its case is ignored
  MaxItems      \* bound on the items stored

Fields == {"k1", "k2", "x"}
Items == [Fields -> Values]

VARIABLES
  backing,    \* memory or mongo
  rows,       \* the items, in the order they were inserted
  nodes,      \* memory: the keys of the outer dict, in their order
  size        \* memory: _size

collVars == <<backing, rows, nodes, size>>

CollInit ==
  /\ backing \in {"memory", "mongo"}
  /\ rows = <<>>
  /\ nodes = <<>>
  /\ size = 0

-----------------------------------------------------------------------------
(* Writes.                                                                 *)

KeyOf(i) == <<i["k1"], i["k2"]>>
Has(items, i) == \E j \in ToSet(items) : KeyOf(j) = KeyOf(i)
Without(items, i) == Those(items, {j \in Items : KeyOf(j) # KeyOf(i)})
Replaced(items, i) ==
  [n \in DOMAIN items |-> IF KeyOf(items[n]) = KeyOf(i) THEN i ELSE items[n]]

Modes == {"insert", "update", "upsert", "delete"}

\* Whether one item may be written: the ValueError otherwise.
Allowed(items, i, mode) ==
  CASE mode = "insert" -> ~Has(items, i)
    [] mode = "upsert" -> TRUE
    [] OTHER -> Has(items, i)

Written(items, i, mode) ==
  CASE mode = "delete" -> Without(items, i)
    [] mode # "delete" /\ Has(items, i) -> Replaced(items, i)
    [] OTHER -> Append(items, i)

\* The items of a batch are written one after the other: what there is after n of them.
Steps(batch, mode) ==
  LET after[n \in 0 .. Len(batch)] ==
        IF n = 0 THEN rows ELSE Written(after[n - 1], batch[n], mode)
  IN after

\* The first item that may not be written ends it; with MongoDB the whole batch is a
\* transaction, and an insert looks at all first.
BatchLength(batch, mode) ==
  LET ok(n) == \A m \in 1 .. n : Allowed(Steps(batch, mode)[m - 1], batch[m], mode)
      longest == CHOOSE n \in 0 .. Len(batch) :
        ok(n) /\ \A m \in 0 .. Len(batch) : ok(m) => m <= n
  IN IF backing = "mongo" /\ longest < Len(batch) THEN 0 ELSE longest

\* A dict keeps a key whose own dict is empty, and its place.
Noded(batch, mode) ==
  LET after[n \in 0 .. Len(batch)] ==
        IF n = 0 THEN nodes
        ELSE IF mode \in {"update", "delete"} \/ batch[n]["k1"] \in ToSet(after[n - 1])
        THEN after[n - 1]
        ELSE Append(after[n - 1], batch[n]["k1"])
  IN after

Mutate(batch, mode) ==
  LET done == BatchLength(batch, mode)
      after == Steps(batch, mode)[done] IN
  /\ Len(after) <= MaxItems
  /\ rows' = after
  /\ nodes' = IF backing = "memory" THEN Noded(batch, mode)[done] ELSE nodes
  /\ size' = IF backing = "memory" THEN size + Len(after) - Len(rows) ELSE size
  /\ size' <= MaxItems + 1
  /\ UNCHANGED backing

\* evict_spans_for_rollout takes a branch out of the dict and leaves the size as it is.
Evict(k) ==
  /\ backing = "memory"
  /\ rows' = Those(rows, {i \in Items : i["k1"] # k})
  /\ nodes' = Those(nodes, Values \ {k})
  /\ UNCHANGED <<backing, size>>

-----------------------------------------------------------------------------
(* Filters.  A condition is a field, an operator and a value; one that was   *)
(* not given has <<>>.  "within" takes a set of values.  named: the filter   *)
(* names fields, be it without a condition, as query_spans does.             *)

\* Nothing, or one condition with the operator and one of the values.
Optional(field, op, values) == {{}} \cup {{<<field, op, <<v>>>>} : v \in values}
Sets == SUBSET Values

\* Every choice of one set out of each of the two.
Both(S, T) == {s \cup t : s \in S, t \in T}

Logics == {"and", "or"}

\* The queries of the store.  query_rollouts and query_workers leave the filter out if
\* there is none.
QueryRollouts ==
  {[must |-> {}, opt |-> o, named |-> o # {}, logic |-> l] :
     o \in Both(Optional("x", "within", Sets),
                Both(Optional("k1", "within", Sets), Optional("k1", "contains", Values))),
     l \in Logics}

QueryWorkers ==
  {[must |-> {}, opt |-> o, named |-> o # {}, logic |-> l] :
     o \in Both(Optional("x", "within", Sets), Optional("k1", "contains", Values)),
     l \in Logics}

QueryAttempts ==
  {[must |-> {}, opt |-> {<<"k1", "exact", <<v>>>>}, named |-> TRUE, logic |-> "and"] :
     v \in Values}

QueryResources ==
  {[must |-> {}, opt |-> o, named |-> o # {}, logic |-> "and"] :
     o \in Both(Optional("k1", "exact", Values), Optional("k1", "contains", Values))}

\* The rollout, and the attempt if there is one, are a must.  The span's own id and its
\* other fields are named in every case.
QuerySpans ==
  {[must |-> m, opt |-> o, named |-> TRUE, logic |-> l] :
     m \in Both({{<<"k1", "exact", <<v>>>>} : v \in Values}, Optional("k2", "exact", Values)),
     o \in Both(Optional("x", "exact", Values),
                Both(Optional("x", "contains", Values), Optional("k2", "exact", Values))),
     l \in Logics}

Filters == QueryRollouts \cup QueryWorkers \cup QueryAttempts \cup QueryResources \cup QuerySpans

Given(conds) == {c \in conds : c[3] # <<>>}

\* Mongo matches a pattern and ignores case; Python looks for the letters themselves.
HoldsFor(i, c, how) ==
  LET v == i[c[1]] w == c[3][1] IN
  CASE c[2] = "exact" -> v = w
    [] c[2] = "within" -> v \in w
    [] c[2] = "contains" -> IF how = "mongo" THEN Fold[v] = Fold[w] ELSE v = w

\* _item_matches_filters
Matches(i, f) ==
  /\ \A c \in Given(f.must) : HoldsFor(i, c, "memory")
  /\ \/ ~f.named
     \/ f.logic = "and" /\ \A c \in Given(f.opt) : HoldsFor(i, c, "memory")
     \/ f.logic = "or" /\ \E c \in Given(f.opt) : HoldsFor(i, c, "memory")

Matching(f) == {i \in Items : Matches(i, f)}

\* _build_mongo_filter: alternatives that are not given do not count.
MongoMatches(i, f) ==
  /\ \A c \in Given(f.must) : HoldsFor(i, c, "mongo")
  /\ \/ f.logic = "and" /\ \A c \in Given(f.opt) : HoldsFor(i, c, "mongo")
     \/ f.logic = "or" /\ \/ Given(f.opt) = {}
                          \/ \E c \in Given(f.opt) : HoldsFor(i, c, "mongo")

MongoMatching(f) == {i \in Items : MongoMatches(i, f)}

\* _iter_items: the dicts are walked from a stack, so the last branch comes first.
Scan ==
  FlattenSeq([n \in DOMAIN nodes |->
    Those(rows, {i \in Items : i["k1"] = nodes[Len(nodes) + 1 - n]})])

\* What the filter says of a primary key with nothing but exact values.
Sources(f) == f.must \cup (IF f.logic = "and" THEN f.opt ELSE {})
ExactValues(f, k) ==
  LET about == {c \in Sources(f) : c[1] = k} IN
  IF about # {} /\ \A c \in about : c[2] = "exact" /\ c[3] # <<>>
  THEN {c[3][1] : c \in about} ELSE {}

Prefix(f) ==
  IF ExactValues(f, "k1") = {} THEN <<>>
  ELSE IF ExactValues(f, "k2") = {} \/ Cardinality(ExactValues(f, "k1")) > 1
  THEN <<ExactValues(f, "k1")>>
  ELSE <<ExactValues(f, "k1"), ExactValues(f, "k2")>>

Under(prefix) == {i \in Items : \A n \in DOMAIN prefix : prefix[n] = {KeyOf(i)[n]}}

\* Every condition on the keys is in the prefix.  (A plausible bug of Walk.)
MutantOnlyPrefix(f) == Those(Scan, Under(Prefix(f)))

\* _iter_matching_items: only the branch of the prefix is looked at.  Two exact values
\* for one key contradict each other.
Walk(f) ==
  IF Prefix(f) = <<>> THEN Those(Scan, Matching(f))
  ELSE Those(rows, Under(Prefix(f)) \cap Matching(f))

\* The items on a page, and how many there are in all.
Page(found, limit, offset) ==
  LET last == IF limit = -1 \/ offset + limit > Len(found) THEN Len(found) ELSE offset + limit
  IN [items |-> SubSeq(found, offset + 1, last), total |-> Len(found)]

Query(f, limit, offset) ==
  Page(IF backing = "memory" THEN Walk(f) ELSE Those(rows, MongoMatching(f)), limit, offset)

Batches == UNION {[1 .. n -> Items] : n \in 1 .. 2}

CollNext ==
  \/ \E batch \in Batches, mode \in Modes : Mutate(batch, mode)
  \/ \E k \in Values : Evict(k)

CollSpec == CollInit /\ [][CollNext]_collVars

-----------------------------------------------------------------------------
(* What is expected.                                                       *)

\* Walking a branch finds what the scan of everything finds, in the same order.
BranchIsEnough ==
  backing = "memory" => \A f \in Filters : Walk(f) = Those(Scan, Matching(f))

\* What is found is what is stored and matches, and it is found once.
FoundOnce ==
  \A f \in Filters :
    LET found == Query(f, -1, 0).items
        wanted == IF backing = "memory" THEN Matching(f) ELSE MongoMatching(f)
    IN ToSet(found) = ToSet(rows) \cap wanted /\ IsInjective(found)

\* Both back ends find the same items.  They differ where the case of a letter does,
\* and on alternatives of which none is given: memory finds nothing, Mongo everything.
BackendsAgree ==
  \A f \in Filters :
    /\ f.logic = "or" /\ f.named => Given(f.opt) # {}
    /\ \A c \in f.must \cup f.opt : c[2] # "contains"
    => Matching(f) = MongoMatching(f)

\* The pages of a query are the whole of it, and say how much that is.
PagesAreTheWhole ==
  \A f \in Filters :
    LET whole == Query(f, -1, 0) IN
    /\ Query(f, 1, 0).items \o Query(f, -1, 1).items = whole.items
    /\ whole.total = Len(whole.items) /\ whole.total = Query(f, 1, 1).total

\* A query finds every stored item that its filter matches, once, by whatever way.
QueriesAreComplete ==
  rows # <<>> => BranchIsEnough /\ FoundOnce /\ BackendsAgree /\ PagesAreTheWhole
=============================================================================
