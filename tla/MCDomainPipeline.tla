-------------------------- MODULE MCDomainPipeline --------------------------
(* Two sessions over two rows; the batches let them update the rows in     *)
(* opposite orders, remove a row under each other and create the same one. *)
EXTENDS DomainPipeline
CONSTANTS r1, r2

MCRows == {r1, r2}
MCBatches ==
  {<< <<"update", r1>>, <<"update", r2>> >>, << <<"update", r2>>, <<"update", r1>> >>,
   << <<"remove", r1>> >>, << <<"create", r1>>, <<"update", r1>> >>}

(* Few batches, for commands of several actions and messages.              *)
MCOneRow == {r1}
MCFewBatches == {<< <<"create", r1>>, <<"update", r1>> >>, << <<"update", r1>> >>}
=============================================================================
