------------------------------ MODULE MCSmsText ------------------------------
(* SmsText with short segments. *)
EXTENDS SmsText

MCSingle == [e \in Encoding |-> IF e = "GSM-7" THEN 4 ELSE 3]
MCMulti == [e \in Encoding |-> IF e = "GSM-7" THEN 3 ELSE 2]
=============================================================================
