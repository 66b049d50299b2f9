--------------------------- MODULE MCEucCollector ---------------------------
(* Instances of EucCollector for TLC.  The catalog holds "a.i"; "xa.i" only *)
(* looks like it.  Port 1 is the default local runtime, "9" an address that *)
(* an operator has listed.                                                  *)
EXTENDS EucCollector

MCLower == [c \in {"A"} |-> "a"]
MCCatalog == {<<"a", ".", "i">>}
MCNames == {<<"x", ".", "A", ".", "i", ".">>, <<"x", ".", "a", ".", "i">>, <<"x", "a", ".", "i">>}
MCConfigs == {[endpoints |-> {<<"9", ".">>}, ports |-> {}]}

Row(remote, rport, lport, listen, loop) ==
  [remote |-> remote, rport |-> rport, laddr |-> "*", lport |-> lport,
   listen |-> listen, loop |-> loop]
MCConns == {Row(<<>>, 0, 1, TRUE, FALSE), Row(<<"9">>, 1, 7, FALSE, FALSE),
            Row(<<"8">>, 1, 1, FALSE, TRUE)}
=============================================================================
