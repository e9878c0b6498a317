------------------------------ MODULE Container ------------------------------
(***************************************************************************)
(* What the data structures of KaHyPar (datastructure/) promise to those   *)
(* who call them, whatever they are made of: entries of keys and values in *)
(* one or several parts, of which some are open.  A set has entries with   *)
(* the value Present, a structure that is not divided has part 0 only, and *)
(* `call' is the last operation with its arguments and its answer.         *)
(***************************************************************************)
EXTENDS Integers, FiniteSets, TLC

VARIABLES content, open, call

Present == 1
Nothing == -9

Entries(p) == {x \in DOMAIN content : x[1] = p}
Best(p, k, parts) ==
  /\ <<p, k>> \in DOMAIN content
  /\ \A x \in DOMAIN content : x[1] \in parts => content[x] <= content[<<p, k>>]
Without(gone) == [x \in DOMAIN content \ gone |-> content[x]]
TakeOut(p, k) ==
  /\ content' = Without({<<p, k>>})
  /\ open' = IF Entries(p) \subseteq {<<p, k>>} THEN open \ {p} ELSE open

Lookup(p, k) ==
  /\ call' = <<"lookup", p, k, IF <<p, k>> \in DOMAIN content THEN content[<<p, k>>] ELSE Nothing>>
  /\ UNCHANGED <<content, open>>
Size ==
  call' = <<"size", Nothing, Nothing, Cardinality(DOMAIN content)>> /\ UNCHANGED <<content, open>>
(* An entry that is there already is kept.                                 *)
Insert(p, k, v) ==
  /\ call' = <<"insert", p, k, v>> /\ content' = content @@ (<<p, k>> :> v) /\ UNCHANGED open
Assign(p, k, v) ==
  /\ call' = <<"assign", p, k, v>> /\ content' = (<<p, k>> :> v) @@ content /\ UNCHANGED open
Remove(p, k) == call' = <<"remove", p, k, Nothing>> /\ TakeOut(p, k)
(* The best entry of a part, or of all open parts.                         *)
PopFrom(p, k) ==
  Best(p, k, {p}) /\ call' = <<"pop_from", p, k, content[<<p, k>>]>> /\ TakeOut(p, k)
Pop(p, k) ==
  p \in open /\ Best(p, k, open) /\ call' = <<"pop", p, k, content[<<p, k>>]>> /\ TakeOut(p, k)
(* A part without entries cannot be opened.                                *)
Enable(p) ==
  /\ call' = <<"enable", p, Nothing, Nothing>>
  /\ open' = IF Entries(p) = {} THEN open ELSE open \cup {p}
  /\ UNCHANGED content
Disable(p) ==
  call' = <<"disable", p, Nothing, Nothing>> /\ open' = open \ {p} /\ UNCHANGED content
Clear == call' = <<"clear", Nothing, Nothing, Nothing>> /\ content' = Without(DOMAIN content) /\ open' = {}
(* Whoever collects gets every entry once.                                 *)
Collect == call' = <<"collect", Nothing, content, Nothing>> /\ content' = Without(DOMAIN content) /\ open' = {}

Init == DOMAIN content = {} /\ open = {}
(* The call that was made says which entries it may change, and how.       *)
Next ==
  LET p == call'[2]
      k == call'[3]
      v == call'[4]
  IN \/ Lookup(p, k) \/ Size \/ Insert(p, k, v) \/ Assign(p, k, v) \/ Remove(p, k)
     \/ PopFrom(p, k) \/ Pop(p, k) \/ Enable(p) \/ Disable(p) \/ Clear \/ Collect
=============================================================================
