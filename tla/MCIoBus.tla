------------------------------- MODULE MCIoBus -------------------------------
(* IoBus with two vCPUs and devices some of which overlap.                 *)
EXTENDS IoBus

MCOffered == {[base |-> 0, len |-> 2], [base |-> 1, len |-> 1],
              [base |-> 2, len |-> 2], [base |-> 1, len |-> 3]}
=============================================================================
