---------------------------- MODULE MCConfigForm ----------------------------
(***************************************************************************)
(* ConfigForm with two pages, longs of six bits, and texts that are usual  *)
(* or end in one of the corners of the parsers.                            *)
(***************************************************************************)
EXTENDS ConfigForm, TLC

CONSTANTS p1, p2, t1, t2, t3, n1, n2

MCTexts == {n1, n2}

\* 15 characters
Wide == <<<<1, 9, 2>>, <<1, 6, 8>>, <<1, 0, 0>>, <<2, 5, 5>>>>
\* 010.0.0.8
Leading == <<<<0, 1, 0>>, <<0>>, <<0>>, <<8>>>>
\* 1..2.3.4
Dots == <<<<1>>, <<>>, <<2>>, <<3>>, <<4>>>>
\* 100.100.100.700
Over == <<<<1, 0, 0>>, <<1, 0, 0>>, <<1, 0, 0>>, <<7, 0, 0>>>>

MCNames == {Spaced, Ampersand}
MCPorts == {5, -40}

MCAddresses == {Wide, Leading, Dots, Over}
MCAddressesDots == {Dots}

DefaultIp == <<10, 0, 0, 42>>

Symmetric == Permutations({t1, t2, t3}) \cup Permutations({p1, p2})
=============================================================================
