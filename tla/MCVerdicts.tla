----------------------------- MODULE MCVerdicts -----------------------------
EXTENDS Verdicts

Axis(name, score, weight, cited) ==
    [name |-> name, score |-> score, weight |-> weight, cited |-> cited]
Item(weight, axes) == [weight |-> weight, axes |-> axes]

\* Ties, an axis without a score, one without a citation, weights of zero and
\* below, a criterion without a score, and the communication axis.
MCReportChoices ==
    {[separated |-> FALSE,
      items |-> <<Item(1, <<Axis("depth", 70, 1, TRUE), Axis("ownership", 75, 1, TRUE)>>),
                  Item(2, <<Axis("depth", 80, 1, FALSE), Axis("ownership", None, 3, TRUE)>>)>>],
     [separated |-> TRUE,
      items |-> <<Item(0, <<Axis("depth", 61, 0, TRUE), Axis("communication", 10, 5, TRUE)>>),
                  Item(-1, <<Axis("depth", 90, 2, TRUE), Axis("ownership", 31, -4, TRUE)>>),
                  Item(0, <<Axis("depth", None, 1, TRUE)>>)>>],
     [separated |-> FALSE,
      items |-> <<Item(3, <<Axis("communication", None, 1, TRUE)>>)>>]}
=============================================================================
