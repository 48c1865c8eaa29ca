--------------------------- MODULE MCRunReport ---------------------------
(* Versions of a campaign file for RunReport: regions bounded by the size,  *)
(* by the offset_increment and by the end of the file; a job that becomes   *)
(* random, a runtime that is doubled while the region stays, a job that is  *)
(* taken out, and sizes without a suffix.                                   *)
EXTENDS RunReport

Spec1(rw, numjobs, size, inc, runtime) ==
  [rw |-> rw, numjobs |-> numjobs, size |-> size, offset_increment |-> inc,
   suffix |-> TRUE, runtime |-> runtime]

Versions ==
  [first  |-> [seq   |-> Spec1("read", 2, 10, 10, 1),
               mixed |-> Spec1("rw", 1, Unset, Unset, 1)],
   second |-> [seq   |-> Spec1("read", 2, 20, 10, 2),
               mixed |-> Spec1("randrw", 1, Unset, Unset, 2)],
   third  |-> [seq   |-> Spec1("read", 2, Unset, 20, 1)],
   plain  |-> [seq   |-> [Spec1("read", 2, 10, 10, 1) EXCEPT !.suffix = FALSE]]]

\* Around the region and around its 10 % slack, and once round it.
ByThreads == <<{10}, {10, 12, 20, 23}>>
=============================================================================
