---- MODULE MCChain ----
(* One proxy under every combination of protocols, and two in a row. *)
EXTENDS Chain

OneOrTwo == {1, 2}
AllIn == {"socks5", "run"}
AllOut == {"run", "freedom"}
UpData == <<"u1", "u2", "u3">>
DownData == <<"d1", "d2">>

\* Bytes that are, or make with their neighbours, a CRLF.
OddAddresses == {<<1, 2, 3, CR>>, <<CR, LF, 3, 4>>, <<LF, CR, CR, 4>>}
OddPorts == {LF, CR, 256 * CR + LF, 256 * LF + CR}
OddTexts == {<<>>, <<LF, CR, LF>>, <<CR, LF, 1>>}
====
