--------------------------- MODULE ClientSettings ---------------------------
(***************************************************************************)
(* How New makes a Client from a Config: the HTTP client its requests are  *)
(* made with, its own or one the caller brings along, and the options that *)
(* change that one in place, in the order New gives them. What it is       *)
(* called (user agent) and where it connects to have no part in it.        *)
(***************************************************************************)
EXTENDS Integers

CONSTANT None

TLSSettings == {"trusted certificate", "skip verify"}

\* A timeout of 0 is none. TLS options need a transport of net/http.
HTTPClients ==
    [timeout : Nat, jar : BOOLEAN, transport : {"net/http", "other"}, tls : SUBSET TLSSettings]

\* apiKey and address: they are not blank, and the address can be parsed.
ConfigRecords ==
    [apiKey : BOOLEAN, address : BOOLEAN, timeout : Int, httpClient : HTTPClients \cup {None},
     trusted : {"", "certificate", "unreadable"}, skipVerify : BOOLEAN]

DefaultHTTPClient == [timeout |-> 30, jar |-> TRUE, transport |-> "net/http", tls |-> {}]

WithHTTPClient(config, c) == IF config.httpClient = None THEN c ELSE config.httpClient

WithTimeout(config, c) ==
    IF config.timeout > 0 THEN [c EXCEPT !.timeout = config.timeout] ELSE c

TLSOptions(config) ==
    (IF config.trusted = "" THEN {} ELSE {"trusted certificate"})
        \cup (IF config.skipVerify THEN {"skip verify"} ELSE {})

\* Empty when an option fails.
WithTLSOptions(config, c) ==
    {d \in {[c EXCEPT !.tls = c.tls \cup TLSOptions(config)]} :
        TLSOptions(config) # {} => config.trusted # "unreadable" /\ c.transport = "net/http"}

\* Mutant: the caller's HTTP client is installed after the timeout was set.
NewInstallingLast(config) ==
    WithTLSOptions(config, WithHTTPClient(config, WithTimeout(config, DefaultHTTPClient)))

\* The HTTP client of a new Client, or none.
New(config) ==
    IF config.apiKey /\ config.address
    THEN WithTLSOptions(config, WithTimeout(config, WithHTTPClient(config, DefaultHTTPClient)))
    ELSE {}
=============================================================================
