-------------------------- MODULE DatasetServingMC --------------------------
(* Values for DatasetServing: a negative label, and fractions on both sides *)
(* of the rounding.                                                         *)
EXTENDS DatasetServing

SomeLabels == {-1, 0, 1}
SomeFractions == {<<1, 10>>, <<1, 2>>, <<9, 10>>}
=============================================================================
