-------------------------------- MODULE Steps --------------------------------
(***************************************************************************)
(* Handlers that are written as steps, each on the record that the step    *)
(* before it left: a record is computed once, whatever a step reads of it. *)
(***************************************************************************)
Then(c, Step(_)) == CHOOSE d \in {Step(e) : e \in {c}} : TRUE
=============================================================================
