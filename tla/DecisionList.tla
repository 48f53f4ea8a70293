---------------------------- MODULE DecisionList ----------------------------
(***************************************************************************)
(* What the guards of ai/pt_guards.py and ai/wwf_guards.py are made of:    *)
(* vocabularies looked up in a product name, and chains of "if ...: return *)
(* ..." in which the first condition that holds decides.                   *)
(*                                                                         *)
(* A name is the set of the expressions it contains.  A vocabulary is the  *)
(* set of its expressions, kept down to one for each combination of        *)
(* vocabularies that contains an expression of the code.                   *)
(***************************************************************************)
EXTENDS Integers, Sequences, FiniteSetsExt

\* Some expression of the vocabulary occurs in the name.
Has(name, vocabulary) == name \cap vocabulary # {}

Rule(fires, result) == [fires |-> fires, result |-> result]

Firing(rules) == {i \in DOMAIN rules : rules[i].fires}

\* The result of the first rule that fires.
FirstOf(rules, otherwise) ==
    IF Firing(rules) = {} THEN otherwise
    ELSE rules[Min(Firing(rules))].result
=============================================================================
