----------------------------- MODULE MCEspLink -----------------------------
(* Small instances of EspLink: FIFOs of two entries, two received bytes; one  *)
(* writer of esp_power beside all the traffic there can be, or two beside the *)
(* bytes that are written.                                                    *)
EXTENDS EspLink

OneByte == {"x"}
TwoBytes == {"x", "y"}
OneWriter == [users |-> {"u1"}, rx |-> TRUE, flow |-> TRUE]
TwoWriters == [users |-> {"u1", "u2"}, rx |-> FALSE, flow |-> FALSE]
Everything == {OneWriter, TwoWriters}
Receiving == {[OneWriter EXCEPT !.flow = FALSE]}
Stopping == {OneWriter}
=============================================================================
