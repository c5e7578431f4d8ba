------------------------------ MODULE MCService ------------------------------
(***************************************************************************)
(* Instances of Service: a day of two hours, payloads that are right or    *)
(* wrong in one way each, and the configurations that start-up tells apart.*)
(***************************************************************************)
EXTENDS Service

At(h, d) == [hour |-> h, datum |-> d]

Good == [parses |-> TRUE, notes |-> <<TRUE>>, hours |-> <<At(0, 1), At(1, 2)>>,
         capacity |-> 1, initial |-> 1, minimum |-> 1]

MCPayloads ==
  {Good,
   [Good EXCEPT !.hours = <<At(1, 1), At(0, 2)>>],
   [Good EXCEPT !.hours = <<At(0, 1), At(0, 2)>>],
   [Good EXCEPT !.hours = <<At(0, 1), At(2, 2)>>],
   [Good EXCEPT !.notes = <<TRUE, FALSE, TRUE>>],
   [Good EXCEPT !.initial = 2],
   [Good EXCEPT !.minimum = 2],
   [Good EXCEPT !.parses = FALSE]}

Config(gm, gk, qm, qk) ==
  [geminiModel |-> gm, geminiKeys |-> gk, groqModel |-> qm, groqKeys |-> qk]

Adapter(n, h) == [name |-> n, build |-> 0, hook |-> h]

Complete == Config("text", <<"text">>, "text", <<"absent", "text">>)

MCDeployments ==
  [config : {Complete, Config("text", <<"text">>, "blank", <<"blank", "absent">>),
             Config("text", <<"text">>, "blank", <<"text", "absent">>)},
   planner : {NoPlanner}]
  \union
  [config : {Complete},
   planner : {[primary |-> Adapter("a", TRUE), backup |-> Adapter("a", TRUE)],
              [primary |-> Adapter("a", FALSE), backup |-> Adapter("b", TRUE)]}]
=============================================================================
