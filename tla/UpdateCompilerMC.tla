--------------------------- MODULE UpdateCompilerMC ---------------------------
(* A model at its real size, compiled but not computed: only shapes matter.    *)
EXTENDS UpdateCompiler, ModelJobs

\* Twelve layers of which the last is adapted, over 4096 rows.
LastLayer == << Job(Deep(12), With([filters |-> << {"w12"} >>, batch |-> 4096])) >>
=============================================================================
