--------------------------- MODULE TlsHandshakes ---------------------------
(***************************************************************************)
(* One TLS manager (ssl/ssl.go): the OCSP response of its certificate and  *)
(* the loop that refreshes it (ssl/ocsp.go), the verification of client    *)
(* certificates (ssl/client_verify.go), and handshakes.  The configuration *)
(* a handshake clones shares its certificates with all the others          *)
(* (ssl.go:266-281), so that there is one staple.  crypto/tls is external. *)
(***************************************************************************)
EXTENDS Integers, FiniteSets

CONSTANTS
    Shakes,       \* handshakes
    Settings,     \* records [stapling, mode, ca, crl, depth]: ca is whether the CA
                  \* file can be read, crl is "none", "listed" or "unreadable"
    Validity,     \* of a response, in ticks
    MaxRetries,   \* OCSPManager.maxRetries
    MaxNow, MaxFetched  \* bounds: ticks and responses

ASSUME TlsAssumption == Validity \in Nat /\ MaxRetries \in Nat \ {0} /\ MaxNow \in Nat /\ MaxFetched \in Nat

VARIABLES
    setting,    \* of this manager
    verifying,  \* clientVerifier configured
    now,
    ocsp,       \* m.responses[serial]: [id, next, status, errors], id 0 if it has no body
    fetched,    \* responses so far
    refreshing, \* refreshAll is under way
    running,    \* OCSPManager.running
    staple,     \* the shared Certificates[0].OCSPStaple
    shake       \* per handshake [at, read, cert, chain, got]

tlsVars == <<setting, verifying, now, ocsp, fetched, refreshing, running, staple, shake>>

NoShake == [at |-> "idle", read |-> [id |-> 0, next |-> 0, status |-> "failed", errors |-> 0],
            cert |-> "none", chain |-> 0, got |-> 0]
Certs == {"none", "trusted", "untrusted", "revoked"}

Failed(errors) == [id |-> 0, next |-> 0, status |-> "failed", errors |-> errors]

\* fetchOCSP: a good response
Fetch == [id |-> fetched + 1, next |-> now + Validity, status |-> "valid", errors |-> 0]

\* NewClientVerifier: what cannot be loaded is a warning, and no verification.
NewClientVerifier(s) ==
    /\ s.mode # "off" /\ s.crl # "unreadable"
    /\ s.mode \in {"on", "optional"} => s.ca

TlsInit ==
    /\ setting \in Settings /\ verifying = NewClientVerifier(setting) /\ now = 0
    /\ ocsp = Failed(0) /\ fetched = 0 /\ refreshing = FALSE /\ running = FALSE /\ staple = 0
    /\ shake = [h \in Shakes |-> NoShake]

\* NewTLSManager: RegisterCertificate asks once, then the loop is started.
Register(ok) ==
    /\ setting.stapling /\ ~running /\ now = 0 /\ running' = TRUE
    /\ ocsp' = IF ok THEN Fetch ELSE Failed(1)
    /\ fetched' = IF ok THEN 1 ELSE 0
    /\ UNCHANGED <<setting, verifying, now, refreshing, staple, shake>>

TimePasses ==
    /\ now < MaxNow /\ running /\ now' = now + 1
    /\ UNCHANGED <<setting, verifying, ocsp, fetched, refreshing, running, staple, shake>>

\* OCSPManager.Stop; a refresh that is under way goes on.
StopOCSP ==
    /\ running /\ now > 0 /\ running' = FALSE
    /\ UNCHANGED <<setting, verifying, now, ocsp, fetched, refreshing, staple, shake>>

\* refreshAll: what is out of date or not valid is asked for again.
RefreshAll ==
    /\ running /\ ~refreshing /\ (now > ocsp.next \/ ocsp.status # "valid") /\ refreshing' = TRUE
    /\ UNCHANGED <<setting, verifying, now, ocsp, fetched, running, staple, shake>>

RefreshSucceeds ==
    /\ refreshing /\ fetched < MaxFetched /\ refreshing' = FALSE
    /\ ocsp' = Fetch /\ fetched' = fetched + 1
    /\ UNCHANGED <<setting, verifying, now, running, staple, shake>>

RefreshFails ==
    /\ refreshing /\ refreshing' = FALSE /\ ocsp.errors < MaxRetries + 1
    /\ ocsp' = [ocsp EXCEPT !.errors = @ + 1,
                            !.status = IF ocsp.errors + 1 >= MaxRetries THEN "failed" ELSE @]
    /\ UNCHANGED <<setting, verifying, now, fetched, running, staple, shake>>

Goes(h, at) == shake' = [shake EXCEPT ![h].at = at]

\* GetOCSPResponse, up to its first unlock.  A client is asked for a certificate
\* only if it is to be verified.
Hello(h, cert, chain) ==
    /\ shake[h].at = "idle" /\ (setting.stapling => running) /\ (cert # "none" => verifying)
    /\ shake' = [shake EXCEPT ![h] = [at |-> IF setting.stapling THEN "read" ELSE "attached", read |-> ocsp,
                                      cert |-> cert, chain |-> chain, got |-> 0]]
    /\ UNCHANGED <<setting, verifying, now, ocsp, fetched, refreshing, running, staple>>

\* Mutant of MarkStale: whatever is there by now is marked.
MarkStaleAny(h) ==
    ocsp' = [ocsp EXCEPT !.status = "stale"]

\* The second half of GetOCSPResponse: the response that was read is marked if it
\* is still the one that is kept.
MarkStale(h) ==
    ocsp' = IF ocsp.id = shake[h].read.id THEN [ocsp EXCEPT !.status = "stale"] ELSE ocsp

GetOCSPResponse(h) ==
    /\ shake[h].at = "read" /\ Goes(h, "attach")
    /\ IF shake[h].read.status = "valid" /\ now > shake[h].read.next THEN MarkStale(h) ELSE UNCHANGED ocsp
    /\ UNCHANGED <<setting, verifying, now, fetched, refreshing, running, staple>>

\* getConfigForClientWithOCSP: a response is written to the shared certificate.
Attach(h) ==
    /\ shake[h].at = "attach" /\ Goes(h, "attached")
    /\ staple' = IF shake[h].read.status # "failed" THEN shake[h].read.id ELSE staple
    /\ UNCHANGED <<setting, verifying, now, ocsp, fetched, refreshing, running>>

\* TLSClientAuth, as crypto/tls (external) acts on it
ClientAuth(cert) ==
    CASE setting.mode = "on" -> cert \in {"trusted", "revoked"}
      [] setting.mode = "optional" -> cert # "untrusted"
      [] OTHER -> TRUE

\* verifyConnection, called only with a depth (ConfigureTLS)
VerifyConnection(cert, chain) ==
    setting.depth > 0 =>
        /\ ~(setting.crl = "listed" /\ cert = "revoked")
        /\ chain <= setting.depth

Finish(h) ==
    LET c == shake[h].cert IN
    /\ shake[h].at = "attached"
    /\ shake' = [shake EXCEPT ![h].got = staple, ![h].at =
                   IF verifying => ClientAuth(c) /\ VerifyConnection(c, shake[h].chain)
                     THEN "accepted" ELSE "refused"]
    /\ UNCHANGED <<setting, verifying, now, ocsp, fetched, refreshing, running, staple>>

TlsNext ==
    \/ (\E ok \in BOOLEAN : Register(ok)) \/ TimePasses \/ StopOCSP
    \/ RefreshAll \/ RefreshSucceeds \/ RefreshFails
    \/ \E h \in Shakes : \/ Hello(h, "none", 0)
                         \/ \E c \in Certs \ {"none"}, n \in 1..2 : Hello(h, c, n)
                         \/ GetOCSPResponse(h) \/ Attach(h) \/ Finish(h)

TlsSpec == TlsInit /\ [][TlsNext]_tlsVars

-----------------------------------------------------------------------------
\* A response is marked stale only past its time, whoever marks it, and is held
\* back only after MaxRetries failures in a row or when there has been none.  A
\* client whose handshake is accepted has the certificate the mode asks for, not
\* revoked and not too far from the root - if a depth is set, for without one the
\* list is not looked at, and if the files of the verification could be read,
\* for otherwise nothing is verified (ocsp.go:190-222, 397-432;
\* client_verify.go:110-216; ssl.go:197-205).
HandshakesSound ==
    /\ ocsp.status = "stale" => now > ocsp.next
    /\ ocsp.status = "failed" => ocsp.id = 0 \/ ocsp.errors >= MaxRetries
    /\ \A h \in Shakes : shake[h].at = "accepted" =>
         LET c == shake[h].cert IN
         /\ setting.mode = "on" /\ setting.ca /\ setting.crl # "unreadable" => c \in {"trusted", "revoked"}
         /\ setting.mode # "off" /\ verifying /\ setting.depth > 0 =>
              /\ setting.crl = "listed" => c # "revoked"
              /\ shake[h].chain <= setting.depth
=============================================================================
