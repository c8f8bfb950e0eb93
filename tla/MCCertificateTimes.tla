------------------------ MODULE MCCertificateTimes -------------------------
(* CertificateTimes for TLC, with integers of 7 bits and seconds of 2 ns. *)
EXTENDS CertificateTimes

\* Plain times, with and without a fraction, and the edges of each width.
Numbers == {-200, -129, -3, -1, 0, 7, 8, 11, 47, 48, 127, 128, 200, Absent}
Around == {Absent, -200, 0, 9, 14, 47, 48, 200}
MCTokens == [exp : Numbers, nbf : {Absent}, iat : {Absent}]
              \cup [exp : {12}, nbf : Around, iat : {Absent, 9}]
              \cup [exp : {12}, nbf : {Absent}, iat : Around]
MCPolicies == [offset : {Absent, -64, -40, -3, 0, 1, 5, 63}, ttl : {0, 1, 3, 31, 40},
               max : {Absent, 2, 31, 32, 60}]
MCDefaultOffset == -1
MCSkews == {-8, -7, -2, -1, 0, 1, 3, 4, 5, 60, 130}
=============================================================================
