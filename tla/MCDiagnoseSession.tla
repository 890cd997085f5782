------------------------- MODULE MCDiagnoseSession -------------------------
(* TLC instance of DiagnoseSession. *)
EXTENDS DiagnoseSession

In(form, kinds, hardware, change, cve) ==
  [form |-> form, kinds |-> kinds, hardware |-> hardware, change |-> change,
   cve |-> cve]

MCInput ==
  {In("blank", {}, FALSE, FALSE, FALSE),
   In("dmesg", {"warn", "oops"}, TRUE, TRUE, FALSE),
   In("sosreport", {"panic"}, TRUE, FALSE, TRUE),
   In("question", {}, TRUE, FALSE, TRUE),
   In("question", {}, FALSE, FALSE, FALSE)}
=============================================================================
