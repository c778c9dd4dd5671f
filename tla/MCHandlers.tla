----------------------------- MODULE MCHandlers -----------------------------
(* A pulse with two counters, which feed a log; the log is connected to a  *)
(* client's own actor as well.                                             *)
EXTENDS Handlers

MCKind == [p |-> "Pulse", c1 |-> "Count", c2 |-> "Count", l |-> "Log", x |-> "Custom"]
MCSources == [p |-> {}, c1 |-> {"p"}, c2 |-> {"p"}, l |-> {"c1", "c2", "x"}, x |-> {}]

=============================================================================
