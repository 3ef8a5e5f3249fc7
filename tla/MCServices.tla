----------------------------- MODULE MCServices ----------------------------
(* Lines of up to three bytes; "D" and "~" are text and also end escape sequences.
   Nine announcements and the three answers to one control point compete for ten slots, and
   millis() wraps every seven ticks. *)
EXTENDS Services

CONSTANTS v1, off, s1, ap, p1

MCLetters == {"D", "~"}
\* Part of v1 is missing from off: it was refused, or failed.
MCValues == {v1, off}
MCInstalled == [v \in MCValues |-> {v, off}]

MCStations == {s1}
MCPeers == {p1}
MCSubnets == {<<p1, s1>>, <<p1, ap>>}

MCCommandOf(line) ==
    CASE line = <<"D">> -> "save"
      [] line = <<"~">> -> "restore"
      [] line = <<"D", "D">> -> "set"
      [] line = <<"D", "~">> -> "connect"
      [] line = <<"~", "D">> -> "reboot"
      [] line = <<"~", "~">> -> "exit"
      [] OTHER -> "nothing"

=============================================================================
