------------------------------- MODULE Reporting -------------------------------
(***************************************************************************)
(* What the reports of both methodologies share: the counts of the         *)
(* coverage section with the level of uncertainty (exports/coverage.py),   *)
(* and how recommendations are put together (recommendations/engine.py).   *)
(*                                                                         *)
(* A run keeps its rows; the products, their classifications and review    *)
(* items are read when the report is built.  "now" maps the products that  *)
(* exist then to records with by (the source of the classification, "none" *)
(* without one), group, review (the status of the review item, "none"      *)
(* without one) and weight.                                                *)
(***************************************************************************)
EXTENDS Rounding, Sequences, FiniteSetsExt

OpenStatus == {"in_queue", "reviewing"}

SumOver(keys, value(_)) == MapThenSumSet(value, keys)
CountOver(keys, test(_)) == Cardinality({k \in keys : test(k)})

\* At least so many percent, after rounding to a hundredth of one.
AtLeast(n, d, percent) == d > 0 /\ HalfUp(n * 10000, d) >= percent * 100

\* build_coverage_section: unknown and out of scope are counted in the rows, the
\* sources in what is stored now, and review items in the whole project; unvalued is
\* the set of products without a protein value.
SectionCounts(rows, now, unvalued, errors) ==
    LET keys == DOMAIN rows
        live == keys \cap DOMAIN now
        inGroup(g) == CountOver(keys, LAMBDA k : rows[k].group = g)
        items == {k \in DOMAIN now : now[k].review # "none"}
        pending == {k \in items : now[k].review \in OpenStatus}
    IN  [total |-> Cardinality(keys),
         unknown |-> inGroup("unknown"), outOfScope |-> inGroup("out_of_scope"),
         classified |-> Cardinality(keys) - inGroup("unknown") - inGroup("out_of_scope"),
         sources |-> [s \in {"deterministic", "ai", "manual_review"} |->
                        CountOver(live, LAMBDA k : now[k].by = s)],
         sent |-> Cardinality(items), pending |-> Cardinality(pending),
         reviewed |-> Cardinality(items \ pending),
         missingProtein |-> Cardinality(live \cap unvalued),
         missingWeight |-> CountOver(live, LAMBDA k : now[k].weight = 0),
         errors |-> errors]

\* _compute_uncertainty.
Uncertainty(c) ==
    IF \/ c.errors > 0
       \/ AtLeast(c.unknown, c.total, 10)
       \/ c.pending > 0 /\ AtLeast(c.pending, c.total, 5) THEN "high"
    ELSE IF \/ AtLeast(c.sources["ai"], c.total, 30)
            \/ AtLeast(c.missingProtein, c.total, 10)
            \/ AtLeast(c.missingWeight, c.total, 10)
            \/ c.pending > 0 THEN "medium"
    ELSE "low"

ReviewNote(c) ==
    IF c.sent = 0 THEN "none needed" ELSE IF c.pending = 0 THEN "all resolved" ELSE "pending"

-----------------------------------------------------------------------------
(* The report document, which counts for itself *)

\* _classification_sources: a product that is gone has no classification.
Sources(rows, now) ==
    [s \in {"deterministic", "ai", "manual_review", "none"} |->
        CountOver(DOMAIN rows, LAMBDA k :
            (IF k \in DOMAIN now THEN now[k].by ELSE "none") = s)]

\* _review_summary.
ReviewSummary(now) ==
    LET in(status) == CountOver(DOMAIN now, LAMBDA k : now[k].review = status)
    IN  [accepted |-> in("accepted"), changed |-> in("changed"), deferred |-> in("deferred"),
         pending |-> in("in_queue") + in("reviewing")]

-----------------------------------------------------------------------------
(* Recommendations *)

When(condition, action, priority) ==
    IF condition THEN <<[action |-> action, priority |-> priority]>> ELSE <<>>

\* The two rules that both methodologies end with.
CountRules(c) ==
    When(c.total > 0 /\ c.unknown * 100 >= 5 * c.total,
         "review_high_impact_unknowns", "high")
    \o When(c.total > 0 /\ c.sources["ai"] * 100 >= 30 * c.total,
            "improve_data_quality", "medium")

\* _generate_data_quality.
QualityRules(level) ==
    When(level = "high", "improve_data_quality", "critical")
    \o When(level = "high", "create_category_target", "low")

\* An action is recommended once: the rule that comes first gives the priority.
FirstOfEach(recs) ==
    {recs[i] : i \in {i \in DOMAIN recs :
        \A j \in 1 .. i - 1 : recs[j].action # recs[i].action}}

-----------------------------------------------------------------------------
(* Properties *)

\* A report of low uncertainty hides nothing: no error, no open review item, no
\* unknown product beyond a tenth.  More doubt never makes a report surer: with a
\* further open item or unknown product the level does not fall.
UncertaintyIsHonest(c) ==
    LET rank == [low |-> 0, medium |-> 1, high |-> 2]
    IN  /\ Uncertainty(c) = "low" =>
             c.errors = 0 /\ c.pending = 0 /\ 10 * c.unknown <= c.total
        /\ \A d \in {[c EXCEPT !.pending = @ + 1], [c EXCEPT !.unknown = @ + 1]} :
             rank[Uncertainty(d)] >= rank[Uncertainty(c)]
        /\ c.classified + c.unknown + c.outOfScope = c.total
        /\ c.sent = c.pending + c.reviewed

\* The document says twice who classified the products and what became of the review
\* items, and says the same.
DocumentAgrees(document, c) ==
    /\ \A s \in DOMAIN c.sources : document.sources[s] = c.sources[s]
    /\ SumOver(DOMAIN document.sources, LAMBDA s : document.sources[s]) = c.total
    /\ document.review.pending = c.pending
    /\ document.review.accepted + document.review.changed + document.review.deferred
         = c.reviewed

\* No action is recommended twice, and high uncertainty always asks for better data.
AdviceFollows(advice, level) ==
    /\ \A a, b \in advice : a.action = b.action => a = b
    /\ level = "high" => \E a \in advice : a.action = "improve_data_quality"
=============================================================================
