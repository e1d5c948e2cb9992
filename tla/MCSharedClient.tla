--------------------------- MODULE MCSharedClient ---------------------------
(***************************************************************************)
(* Instances of SharedClient for TLC. Workers and sessions are model       *)
(* values; each worker opens at most one session. The Client has the HTTP  *)
(* client of New, or one of the caller's without a jar and a timeout; on a *)
(* transport that takes no TLS options there is none.                      *)
(***************************************************************************)
EXTENDS SharedClient

Config(timeout, client, trusted) ==
    [apiKey |-> TRUE, address |-> TRUE, timeout |-> timeout, httpClient |-> client,
     trusted |-> trusted, skipVerify |-> FALSE]

Bare == [timeout |-> 0, jar |-> FALSE, transport |-> "net/http", tls |-> {}]

Traced == [timeout |-> 0, jar |-> TRUE, transport |-> "other", tls |-> {}]

MCConfigs ==
    {Config(0, None, "certificate"), Config(10, Bare, ""), Config(10, Traced, "certificate")}
=============================================================================
