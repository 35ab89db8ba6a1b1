-------------------------------- MODULE MCCatalog --------------------------------
EXTENDS Catalog, TLC

CONSTANTS p1, p2, v1, v2, k1, k2, c1, c2, c3, b1, m1, a1, o1, o2

\* Two options of one attribute: enough for two variants, a swap and a clash.
AttributeOfBoth == [o \in Options |-> a1]

\* A product with its default variant and SKU ...
Shop == [e \in {p1, v1, k1} |-> CASE e = v1 -> p1 [] e = k1 -> v1 [] e = p1 -> None]

\* ... and one with an attribute and its options, and three categories at the top as
\* well: two can close a cycle that the third runs into.
Furnished ==
    Shop @@ [e \in {a1, o1, o2, c1, c2, c3} |-> None]

Opened == {Shop, Furnished}
==================================================================================
