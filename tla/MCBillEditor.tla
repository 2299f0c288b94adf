---------------------------- MODULE MCBillEditor -----------------------------
(* BillEditor with a bill added by hand and the invoice of its period. *)
EXTENDS BillEditor, TLC

MCRecorded ==
  {[id |-> 1, numbered |-> FALSE, period |-> "may"],
   [id |-> 2, numbered |-> TRUE,  period |-> "may"]}
==============================================================================
