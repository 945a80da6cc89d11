---------------------------- MODULE EventStream ----------------------------
(***************************************************************************)
(* The fact stream one function's walk records (analyzer_events.go) and    *)
(* the on-demand backward lookup over it (analyzer_resolver.go).           *)
(*                                                                         *)
(* A claim is what a source event asserts of a value: a leaf predicate is  *)
(* the singleton {p}, an Or-fact the set of its alternatives, so orKey's   *)
(* order-insensitive comparison is equality of sets. Sources recorded      *)
(* together (the facts of one guard, the postconditions of one call) come  *)
(* out of a Go map or one loop and are a set; the events one statement     *)
(* records are one entry of the stream. Query events are never matched by  *)
(* a lookup and are left out: a lookup is evaluated in the scope the query *)
(* would be recorded in.                                                   *)
(***************************************************************************)
EXTENDS Naturals, Sequences

CONSTANTS
  Pred,   \* predicate identities
  Claim,  \* the claims the walked function mentions: non-empty sets of Pred
  Key,    \* canonical expression keys: "x", "x.F", the synthetic "$arg0"
  Root    \* the root identifier of a key, itself a key

ASSUME ClaimAssumption == Claim \subseteq (SUBSET Pred) \ {{}}
ASSUME RootAssumption  == /\ Root \in [Key -> Key]
                          /\ \A k \in Key : Root[Root[k]] = Root[k]

VARIABLES
  events,   \* the recorded stream, oldest first
  path,     \* path[s]: the scopes on the way from the root scope to s
  current   \* the scope the walk is in

stream == <<events, path, current>>

(***************************************************************************)
(* `asOf` and `at` are ghosts, readings of Analyzer's clock: the moment at *)
(* which the value a fact speaks of was examined, and the moment from      *)
(* which what a statement wrote is the variable's value.                   *)
(***************************************************************************)
DatedFact == [claim : Claim, key : Key, asOf : Nat]

\* What one statement records, in this order: sources, writes, sources.
Entry == [scope : Nat, pre : SUBSET DatedFact, wrote : SUBSET Key,
          at : Nat, post : SUBSET DatedFact]

Recorded(F, V, t, G, s) ==
  [scope |-> s, pre |-> F, wrote |-> V, at |-> t, post |-> G]

Source(G, s) == Recorded({}, {}, 0, G, s)

StreamTypeOK ==
  /\ events \in Seq(Entry)
  /\ path \in Seq(SUBSET Nat)
  /\ current \in 1..Len(path)

StreamInit(seeds) ==
  /\ events = <<Source(seeds, 1)>>
  /\ path = <<{1}>>
  /\ current = 1

(***************************************************************************)
(* The scope tree. Scope 1 is the function root; opening a scope makes a   *)
(* node no other node shares, so a scope that was left is on no later      *)
(* path.                                                                   *)
(***************************************************************************)
NextScope == Len(path) + 1

\* Faulty: the new scope is not entered in the tree.
OpenedUnlisted(parent) == path

Opened(parent) == Append(path, path[parent] \cup {NextScope})

\* Faulty: events of every scope are seen.
AnyScope(a, b) == a \in 1..Len(path)

IsAncestorOrSelf(a, b) == a \in path[b]

(***************************************************************************)
(* The lookup, from scope s: the walk goes backward, skips what s cannot   *)
(* see, stops at the first write on the key's root and succeeds at the     *)
(* first source of exactly this claim on exactly this key.                 *)
(***************************************************************************)
\* The facts entry e leaves standing: its own writes bar what it planted before.
Standing(e) == e.post \cup {f \in e.pre : Root[f.key] \notin e.wrote}

Visible(i, s) == IsAncestorOrSelf(events[i].scope, s)

Bars(i, v, s) == Visible(i, s) /\ v \in events[i].wrote

Sources(i, c, k, s) ==
  Visible(i, s) /\ \E f \in Standing(events[i]) : f.claim = c /\ f.key = k

\* Faulty: a write bars only facts on the very key, not on paths from it.
UnbarredByKey(i, k, s) == \A j \in DOMAIN events : j > i => ~Bars(j, k, s)

Unbarred(i, k, s) == \A j \in DOMAIN events : j > i => ~Bars(j, Root[k], s)

HasFact(c, k, s) ==
  \E i \in DOMAIN events : Sources(i, c, k, s) /\ Unbarred(i, k, s)

(***************************************************************************)
(* An obligation is met by its exact claim or, when it is disjunctive, by  *)
(* any of its alternatives. Inference rules are RuleSearch's subject.      *)
(***************************************************************************)
Discharged(c, k, s) ==
  \/ HasFact(c, k, s)
  \/ \E p \in c : HasFact({p}, k, s)

Snapshot(k, s) == {c \in Claim : HasFact(c, k, s)}
=============================================================================
