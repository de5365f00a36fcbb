------------------------------ MODULE MCExamples -----------------------------
(* ExamplesProps on small instances. *)
EXTENDS ExamplesProps

=============================================================================
