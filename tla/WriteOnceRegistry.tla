------------------------- MODULE WriteOnceRegistry -------------------------
(***************************************************************************)
(* What the inscription application promises, without saying how: a        *)
(* registry of at most Capacity entries.  An entry is blank, then bound to *)
(* one key, then sealed with one value that the key's holder approved, and *)
(* nothing more ever happens to it.                                        *)
(*                                                                         *)
(* approved is the set of pairs <<key, entry, value>> ever approved; it    *)
(* only grows, and independently of the registry.                          *)
(***************************************************************************)
EXTENDS Naturals, FiniteSets

CONSTANTS Entries, Keys, Values, Capacity

VARIABLES entry, approved

vars == <<entry, approved>>

Blank == [stage |-> "blank"]
Bound(k) == [stage |-> "bound", key |-> k]
Sealed(k, v) == [stage |-> "sealed", key |-> k, value |-> v]

Init == entry = [e \in Entries |-> Blank] /\ approved = {}

Used == {e \in Entries : entry[e] # Blank}

Bind(e, k) ==
  /\ entry[e] = Blank
  /\ Cardinality(Used) < Capacity
  /\ entry' = [entry EXCEPT ![e] = Bound(k)]
  /\ UNCHANGED approved

Seal(e, k, v) ==
  /\ entry[e] = Bound(k)
  /\ <<k, e, v>> \in approved
  /\ entry' = [entry EXCEPT ![e] = Sealed(k, v)]
  /\ UNCHANGED approved

Approve(k, e, v) ==
  /\ approved' = approved \cup {<<k, e, v>>}
  /\ UNCHANGED entry

Next ==
  \E e \in Entries, k \in Keys :
    \/ Bind(e, k)
    \/ \E v \in Values : Seal(e, k, v) \/ Approve(k, e, v)

Spec == Init /\ [][Next]_vars
=============================================================================
