-------------------------------- MODULE MCStore --------------------------------
(* A small instance of Store: two layouts, of two pages and of one. *)
EXTENDS Store

CONSTANTS main, p1

TwoThreads == {main, p1}
FourFds    == 1..4
TwoShapes  ==
    {[layers |-> 1, blocks |-> 2, layout |-> "bits4", pages |-> 2],
     [layers |-> 2, blocks |-> 1, layout |-> "bits2", pages |-> 1]}
================================================================================
