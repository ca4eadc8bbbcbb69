------------------------------- MODULE MCSic -------------------------------
EXTENDS Sic

(* Three sources on channels 0, 2, 3.                                      *)
MCSpread == {[i \in Source |-> IF i = 0 THEN 0 ELSE i + 1]}

MCMasks == {Source, Source \ {0}}

MCWrites == {[to |-> "IPEND_W1C", bits |-> {i}] : i \in Source}
              \cup {[to |-> "ILAT_W1C", bits |-> {0}]}
=============================================================================
