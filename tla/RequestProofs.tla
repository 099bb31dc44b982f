--------------------------- MODULE RequestProofs ---------------------------
(***************************************************************************)
(* Proofs about what decides on a connection and a request, for any        *)
(* configuration: the TLS handshake and its OCSP response, the keys of     *)
(* session tickets, the chain of middlewares, the choice of a second       *)
(* target and the shares the balancers give.                               *)
(***************************************************************************)
EXTENDS Balancers, Pipeline, SessionTickets, TlsHandshakes, CountingTheorems, SequenceTheorems

-----------------------------------------------------------------------------
(* TLS handshakes *)

Responses == [id : Nat, next : Nat, status : {"valid", "stale", "failed"}, errors : Nat]
ShakeStates == [at : {"idle", "read", "attach", "attached", "accepted", "refused"},
                read : Responses, cert : Certs, chain : Nat, got : Nat]

TlsTypeOK ==
  /\ verifying \in BOOLEAN /\ refreshing \in BOOLEAN /\ running \in BOOLEAN
  /\ now \in Nat /\ fetched \in Nat /\ staple \in Nat
  /\ ocsp \in Responses /\ shake \in [Shakes -> ShakeStates]

\* A response without a body is a failed one and identifiers are not used twice,
\* so that the identifier tells which response a handshake has read.
ResponsesKnown(r) ==
  /\ r.id <= fetched
  /\ r.id = 0 => r.status = "failed" /\ r.next = 0
  /\ r.id = ocsp.id => r.next = ocsp.next

\* What the handshakes and the responses they have read rely on: nothing is
\* fetched before the certificate is registered.
ReadsKnown ==
  /\ verifying <=> NewClientVerifier(setting)
  /\ ~running /\ now = 0 => fetched = 0 /\ ~refreshing
  /\ ResponsesKnown(ocsp)
  /\ \A h \in Shakes : ResponsesKnown(shake[h].read)

TlsInv == TlsTypeOK /\ ReadsKnown /\ HandshakesSound

LEMMA TlsInitInv == TlsInit => TlsInv
<1> SUFFICES ASSUME TlsInit PROVE TlsInv
  OBVIOUS
<1>1. NoShake \in ShakeStates
  BY DEF NoShake, ShakeStates, Responses, Certs
<1>2. ocsp \in Responses
  BY DEF TlsInit, Failed, Responses
<1>3. TlsTypeOK
  <2>1. verifying \in BOOLEAN
    BY DEF TlsInit, NewClientVerifier
  <2>2. shake \in [Shakes -> ShakeStates]
    BY <1>1 DEF TlsInit
  <2> QED
    BY <1>2, <2>1, <2>2 DEF TlsInit, TlsTypeOK
<1>4. \A h \in Shakes : shake[h] = NoShake
  BY DEF TlsInit
<1>5. ReadsKnown
  BY <1>4 DEF TlsInit, ReadsKnown, ResponsesKnown, NoShake, Failed, NewClientVerifier
<1>6. HandshakesSound
  BY <1>4 DEF TlsInit, HandshakesSound, NoShake, Failed
<1> QED
  BY <1>3, <1>5, <1>6 DEF TlsInv

\* The handshakes do not move: only what is known of responses can change.
LEMMA ResponseStep ==
  ASSUME TlsInv, UNCHANGED <<setting, verifying, shake>>, TlsTypeOK',
         now <= now', fetched <= fetched',
         ~running' /\ now' = 0 => fetched' = 0 /\ ~refreshing',
         \/ ocsp'.id = ocsp.id /\ ocsp'.next = ocsp.next
         \/ ocsp'.id > fetched /\ ocsp'.id <= fetched',
         ocsp'.id = 0 => ocsp'.status = "failed" /\ ocsp'.next = 0,
         ocsp'.status = "stale" => now' > ocsp'.next,
         ocsp'.status = "failed" => ocsp'.id = 0 \/ ocsp'.errors >= MaxRetries
  PROVE  TlsInv'
<1> USE DEF TlsInv, TlsTypeOK, ShakeStates, Responses
<1>1. \A h \in Shakes : shake[h].read \in Responses
  OBVIOUS
<1>2. ResponsesKnown(ocsp)'
  BY TlsAssumption DEF ReadsKnown, ResponsesKnown
<1>3. \A h \in Shakes : ResponsesKnown(shake[h].read)'
  BY <1>1 DEF ReadsKnown, ResponsesKnown
<1>4. ReadsKnown'
  BY <1>2, <1>3 DEF ReadsKnown, NewClientVerifier
<1>5. HandshakesSound'
  BY DEF HandshakesSound
<1> QED
  BY <1>4, <1>5

\* One handshake moves; its certificate is judged when it is accepted.
LEMMA ShakeStep ==
  ASSUME TlsInv, UNCHANGED <<setting, verifying, now, fetched, refreshing, running>>,
         NEW h \in Shakes, NEW s \in ShakeStates, shake' = [shake EXCEPT ![h] = s],
         staple' \in Nat, ocsp' \in Responses,
         ocsp'.id = ocsp.id /\ ocsp'.next = ocsp.next,
         ocsp'.id = 0 => ocsp'.status = "failed" /\ ocsp'.next = 0,
         ocsp'.status = "stale" => now > ocsp'.next,
         ocsp'.status = "failed" => ocsp'.id = 0 \/ ocsp'.errors >= MaxRetries,
         s.read = ocsp \/ s.read = shake[h].read,
         s.at = "accepted" /\ verifying
           => ClientAuth(s.cert) /\ VerifyConnection(s.cert, s.chain)
  PROVE  TlsInv'
<1> USE DEF TlsInv
<1>1. \A g \in Shakes : shake'[g] = IF g = h THEN s ELSE shake[g]
  BY DEF TlsTypeOK
<1>2. shake' \in [Shakes -> ShakeStates]
  BY DEF TlsTypeOK
<1>3. TlsTypeOK'
  BY <1>2 DEF TlsTypeOK
<1>4. ReadsKnown'
  <2>1. ResponsesKnown(ocsp)'
    BY DEF ReadsKnown, ResponsesKnown
  <2>2. ASSUME NEW g \in Shakes PROVE ResponsesKnown(shake[g].read)'
    BY <1>1 DEF ReadsKnown, ResponsesKnown
  <2> QED
    BY <2>1, <2>2 DEF ReadsKnown, NewClientVerifier
<1>5. HandshakesSound'
  <2>1. ASSUME NEW g \in Shakes, shake'[g].at = "accepted"
        PROVE  LET c == shake'[g].cert IN
               /\ setting.mode = "on" /\ setting.ca /\ setting.crl # "unreadable" => c \in {"trusted", "revoked"}
               /\ setting.mode # "off" /\ verifying /\ setting.depth > 0 =>
                    /\ setting.crl = "listed" => c # "revoked"
                    /\ shake'[g].chain <= setting.depth
    <3>1. CASE g = h
      <4>1. shake'[g] = s
        BY <1>1, <3>1
      <4>2. verifying => ClientAuth(s.cert) /\ VerifyConnection(s.cert, s.chain)
        BY <2>1, <4>1
      <4>3. setting.mode = "on" /\ setting.ca /\ setting.crl # "unreadable" => verifying
        BY DEF ReadsKnown, NewClientVerifier
      <4> QED
        BY <4>1, <4>2, <4>3 DEF ClientAuth, VerifyConnection
    <3>2. CASE g # h
      BY <1>1, <2>1, <3>2 DEF HandshakesSound
    <3> QED
      BY <3>1, <3>2
  <2> QED
    BY <2>1 DEF HandshakesSound
<1> QED
  BY <1>3, <1>4, <1>5

\* A step that leaves the response, or only counts a failure on it.
LEMMA ResponseStays ==
  ASSUME TlsInv, UNCHANGED <<setting, verifying, shake, fetched>>, TlsTypeOK', now <= now',
         ~running' /\ now' = 0 => fetched = 0 /\ ~refreshing',
         ocsp'.id = ocsp.id, ocsp'.next = ocsp.next,
         \/ ocsp'.status = ocsp.status /\ ocsp'.errors >= ocsp.errors
         \/ ocsp'.status = "failed" /\ ocsp'.errors >= MaxRetries
  PROVE  TlsInv'
<1>1. TlsTypeOK /\ ReadsKnown /\ HandshakesSound
  BY DEF TlsInv
<1>2. /\ ocsp.id = 0 => ocsp.status = "failed" /\ ocsp.next = 0
      /\ ocsp.status = "stale" => now > ocsp.next
      /\ ocsp.status = "failed" => ocsp.id = 0 \/ ocsp.errors >= MaxRetries
  BY <1>1 DEF ReadsKnown, ResponsesKnown, HandshakesSound
<1>3. /\ now \in Nat /\ now' \in Nat /\ fetched \in Nat /\ ocsp.next \in Nat
      /\ ocsp.errors \in Nat /\ ocsp'.errors \in Nat /\ MaxRetries \in Nat
  BY <1>1, TlsAssumption DEF TlsTypeOK, Responses
<1>4. /\ ocsp'.id = 0 => ocsp'.status = "failed" /\ ocsp'.next = 0
      /\ ocsp'.status = "stale" => now' > ocsp'.next
      /\ ocsp'.status = "failed" => ocsp'.id = 0 \/ ocsp'.errors >= MaxRetries
  BY <1>2, <1>3
<1>5. fetched <= fetched'
  BY <1>3
<1> QED
  BY <1>4, <1>5, ResponseStep

LEMMA TlsStep == TlsInv /\ [TlsNext]_tlsVars => TlsInv'
<1> SUFFICES ASSUME TlsInv, [TlsNext]_tlsVars PROVE TlsInv'
  OBVIOUS
<1> USE TlsAssumption
<1>t. TlsTypeOK
  BY DEF TlsInv
<1>f. Fetch \in Responses /\ Fetch.id = fetched + 1 /\ Fetch.status = "valid"
  BY <1>t DEF Fetch, Responses, TlsTypeOK
<1>1. CASE UNCHANGED tlsVars
  BY <1>1, <1>t DEF tlsVars, TlsInv, TlsTypeOK, ReadsKnown, ResponsesKnown, HandshakesSound, NewClientVerifier
<1>2. ASSUME NEW ok \in BOOLEAN, Register(ok) PROVE TlsInv'
  <2>1. fetched = 0
    BY <1>2 DEF Register, TlsInv, ReadsKnown
  <2>2. TlsTypeOK'
    BY <1>2, <1>t, <1>f DEF Register, TlsTypeOK, Failed, Responses
  <2>3. CASE ok
    <3>1. ocsp' = Fetch /\ fetched' = 1
      BY <1>2, <2>3 DEF Register
    <3>2. now' = now /\ running' /\ UNCHANGED <<setting, verifying, shake>>
      BY <1>2 DEF Register
    <3> QED
      BY <1>t, <1>f, <2>1, <2>2, <3>1, <3>2, ResponseStep DEF TlsTypeOK, Responses
  <2>4. CASE ~ok
    <3>1. ocsp' = Failed(1) /\ fetched' = 0
      BY <1>2, <2>4 DEF Register
    <3>2. now' = now /\ running' /\ UNCHANGED <<setting, verifying, shake>>
      BY <1>2 DEF Register
    <3>3. ocsp.id = 0 /\ ocsp.next = 0
      BY <1>t, <2>1 DEF TlsInv, ReadsKnown, ResponsesKnown, TlsTypeOK, Responses
    <3> QED
      BY <1>t, <2>1, <2>2, <3>1, <3>2, <3>3, ResponseStep DEF TlsTypeOK, Responses, Failed
  <2> QED
    BY <2>3, <2>4
<1>3. CASE TimePasses
  <2>1. TlsTypeOK'
    BY <1>3, <1>t DEF TimePasses, TlsTypeOK
  <2> QED
    BY <1>3, <1>t, <2>1, ResponseStays DEF TimePasses, TlsTypeOK, Responses
<1>4. CASE StopOCSP
  <2>1. TlsTypeOK'
    BY <1>4, <1>t DEF StopOCSP, TlsTypeOK
  <2> QED
    BY <1>4, <1>t, <2>1, ResponseStays DEF StopOCSP, TlsTypeOK, Responses
<1>5. CASE RefreshAll
  <2>1. TlsTypeOK'
    BY <1>5, <1>t DEF RefreshAll, TlsTypeOK
  <2> QED
    BY <1>5, <1>t, <2>1, ResponseStays DEF RefreshAll, TlsTypeOK, Responses
<1>6. CASE RefreshSucceeds
  <2>1. /\ ocsp' = Fetch /\ fetched' = fetched + 1 /\ ~refreshing'
        /\ UNCHANGED <<setting, verifying, now, running, staple, shake>>
    BY <1>6 DEF RefreshSucceeds
  <2>2. ocsp' \in Responses /\ fetched' \in Nat
    BY <1>t, <1>f, <2>1 DEF TlsTypeOK
  <2>3. refreshing' \in BOOLEAN
    BY <1>6 DEF RefreshSucceeds
  <2>4. TlsTypeOK'
    BY <1>t, <2>1, <2>2, <2>3 DEF TlsTypeOK
  <2>5. ~(~running /\ now = 0)
    BY <1>6, <1>t DEF RefreshSucceeds, TlsInv, ReadsKnown
  <2>6. ocsp'.id = fetched + 1 /\ ocsp'.status = "valid" /\ fetched \in Nat
    BY <1>t, <1>f, <2>1 DEF TlsTypeOK
  <2> QED
    BY <2>1, <2>4, <2>5, <2>6, ResponseStep DEF TlsTypeOK, Responses, TlsInv
<1>7. CASE RefreshFails
  <2> DEFINE st == IF ocsp.errors + 1 >= MaxRetries THEN "failed" ELSE ocsp.status
             er == ocsp.errors + 1
  <2>0. ocsp \in Responses /\ ocsp' = [ocsp EXCEPT !.errors = er, !.status = st]
    BY <1>7, <1>t DEF RefreshFails, TlsTypeOK, Responses
  <2>a. er \in Nat /\ st \in {"valid", "stale", "failed"}
    BY <2>0 DEF Responses
  <2>b. ocsp' \in Responses /\ ocsp'.id = ocsp.id /\ ocsp'.next = ocsp.next
        /\ ocsp'.errors = er /\ ocsp'.status = st
    <3> HIDE DEF st, er
    <3> QED
      BY <2>0, <2>a DEF Responses
  <2>1. ocsp' \in Responses /\ ocsp'.id = ocsp.id /\ ocsp'.next = ocsp.next
        /\ ocsp'.errors = ocsp.errors + 1
        /\ ocsp'.status = IF ocsp.errors + 1 >= MaxRetries THEN "failed" ELSE ocsp.status
    BY <2>b
  <2>2. TlsTypeOK'
    BY <1>7, <1>t, <2>1 DEF RefreshFails, TlsTypeOK
  <2> QED
    <3>1. UNCHANGED <<setting, verifying, now, fetched, running, staple, shake>> /\ ~refreshing'
      BY <1>7 DEF RefreshFails
    <3>2. now <= now' /\ (~running' /\ now' = 0 => fetched = 0)
      BY <1>t, <3>1 DEF TlsTypeOK, TlsInv, ReadsKnown
    <3>3. \/ ocsp'.status = ocsp.status /\ ocsp'.errors >= ocsp.errors
          \/ ocsp'.status = "failed" /\ ocsp'.errors >= MaxRetries
      BY <2>0, <2>1 DEF Responses
    <3> QED
      BY <2>1, <2>2, <3>1, <3>2, <3>3, ResponseStays
<1>8. ASSUME NEW h \in Shakes, NEW c \in Certs, NEW n \in 0..2, Hello(h, c, n) PROVE TlsInv'
  <2> DEFINE s == [at |-> IF setting.stapling THEN "read" ELSE "attached", read |-> ocsp,
                   cert |-> c, chain |-> n, got |-> 0]
  <2>1. s \in ShakeStates /\ s.at # "accepted" /\ s.read = ocsp
    BY <1>t DEF ShakeStates, TlsTypeOK
  <2>2. shake' = [shake EXCEPT ![h] = s]
    BY <1>8 DEF Hello
  <2>3. UNCHANGED <<setting, verifying, now, ocsp, fetched, refreshing, running, staple>>
    BY <1>8 DEF Hello
  <2> HIDE DEF s
  <2> QED
    BY <1>t, <2>1, <2>2, <2>3, ShakeStep DEF TlsTypeOK, TlsInv, ReadsKnown, ResponsesKnown, HandshakesSound
<1>9. ASSUME NEW h \in Shakes, GetOCSPResponse(h) PROVE TlsInv'
  <2> DEFINE s == [shake[h] EXCEPT !.at = "attach"]
  <2>0. shake[h] \in ShakeStates
    BY <1>t DEF TlsTypeOK
  <2>1. s \in ShakeStates /\ s.at = "attach" /\ s.read = shake[h].read
    BY <2>0 DEF ShakeStates
  <2>2. shake' = [shake EXCEPT ![h] = s]
    BY <1>9, <1>t DEF GetOCSPResponse, Goes, TlsTypeOK, ShakeStates
  <2>3. UNCHANGED <<setting, verifying, now, fetched, refreshing, running, staple>>
    BY <1>9 DEF GetOCSPResponse
  <2>4. ocsp' = ocsp \/ /\ ocsp' = [ocsp EXCEPT !.status = "stale"]
                        /\ ocsp.id = shake[h].read.id /\ shake[h].read.status = "valid"
                        /\ now > shake[h].read.next
    BY <1>9 DEF GetOCSPResponse, MarkStale
  <2>5. ResponsesKnown(shake[h].read)
    BY DEF TlsInv, ReadsKnown
  <2>6. /\ ocsp' \in Responses /\ ocsp'.id = ocsp.id /\ ocsp'.next = ocsp.next
        /\ ocsp'.id = 0 => ocsp'.status = "failed" /\ ocsp'.next = 0
        /\ ocsp'.status = "stale" => now > ocsp'.next
        /\ ocsp'.status = "failed" => ocsp'.id = 0 \/ ocsp'.errors >= MaxRetries
    BY <2>4, <2>5, <1>t DEF ResponsesKnown, TlsTypeOK, Responses, TlsInv, ReadsKnown, HandshakesSound
  <2> HIDE DEF s
  <2> QED
    BY <1>t, <2>1, <2>2, <2>3, <2>6, ShakeStep DEF TlsTypeOK
<1>10. ASSUME NEW h \in Shakes, Attach(h) PROVE TlsInv'
  <2> DEFINE s == [shake[h] EXCEPT !.at = "attached"]
  <2>0. shake[h] \in ShakeStates
    BY <1>t DEF TlsTypeOK
  <2>1. s \in ShakeStates /\ s.at = "attached" /\ s.read = shake[h].read
    BY <2>0 DEF ShakeStates
  <2>2. shake' = [shake EXCEPT ![h] = s]
    BY <1>10, <1>t DEF Attach, Goes, TlsTypeOK, ShakeStates
  <2>3. UNCHANGED <<setting, verifying, now, ocsp, fetched, refreshing, running>>
    BY <1>10 DEF Attach
  <2>4. staple' \in Nat
    BY <1>10, <1>t, <2>0 DEF Attach, ShakeStates, Responses, TlsTypeOK
  <2> HIDE DEF s
  <2> QED
    BY <1>t, <2>1, <2>2, <2>3, <2>4, ShakeStep DEF TlsTypeOK, TlsInv, ReadsKnown, ResponsesKnown, HandshakesSound
<1>11. ASSUME NEW h \in Shakes, Finish(h) PROVE TlsInv'
  <2> DEFINE good == verifying => ClientAuth(shake[h].cert) /\ VerifyConnection(shake[h].cert, shake[h].chain)
             s == [shake[h] EXCEPT !.got = staple, !.at = IF good THEN "accepted" ELSE "refused"]
  <2>0. shake[h] \in ShakeStates
    BY <1>t DEF TlsTypeOK
  <2>2. shake' = [shake EXCEPT ![h] = s]
    BY <1>11, <1>t DEF Finish, TlsTypeOK, ShakeStates
  <2> HIDE DEF good
  <2>1. /\ s \in ShakeStates /\ s.read = shake[h].read
        /\ s.cert = shake[h].cert /\ s.chain = shake[h].chain
        /\ s.at = "accepted" => good
    BY <1>t, <2>0 DEF ShakeStates, TlsTypeOK
  <2>3. UNCHANGED <<setting, verifying, now, ocsp, fetched, refreshing, running, staple>>
    BY <1>11 DEF Finish
  <2>4. s.at = "accepted" /\ verifying => ClientAuth(s.cert) /\ VerifyConnection(s.cert, s.chain)
    <3> HIDE DEF s
    <3> QED
      BY <2>1 DEF good
  <2> HIDE DEF s
  <2> QED
    BY <1>t, <2>1, <2>2, <2>3, <2>4, ShakeStep DEF TlsTypeOK, TlsInv, ReadsKnown, ResponsesKnown, HandshakesSound
<1>12. ASSUME NEW h \in Shakes, Hello(h, "none", 0) PROVE TlsInv'
  BY <1>8, <1>12 DEF Certs
<1>13. ASSUME NEW h \in Shakes, NEW c \in Certs \ {"none"}, NEW n \in 1..2, Hello(h, c, n) PROVE TlsInv'
  BY <1>8, <1>13
<1> QED
  BY <1>1, <1>2, <1>3, <1>4, <1>5, <1>6, <1>7, <1>9, <1>10, <1>11, <1>12, <1>13 DEF TlsNext

\* Whatever the configuration and however refreshes, failures and handshakes
\* interleave, a response is marked stale only past its time and held back only
\* after MaxRetries failures, and an accepted client has the certificate the
\* mode asks for (ocsp.go:190-222, 397-432; client_verify.go:110-216).
THEOREM TlsHandshakesSound == TlsSpec => []HandshakesSound
<1>1. TlsInv => HandshakesSound
  BY DEF TlsInv
<1> QED
  BY <1>1, TlsInitInv, TlsStep, PTL DEF TlsSpec

-----------------------------------------------------------------------------
(* Session tickets *)

ManagerStates ==
  [keys : Seq(Nat), live : Seq(Nat), started : BOOLEAN, fired : BOOLEAN, saving : BOOLEAN]

\* Keys in the order of their making, the last of all being k, and no more of
\* them than are retained
GoodKeys(keys, k) ==
  /\ keys \in Seq(Nat) /\ Len(keys) <= RetainKeys
  /\ \A i, j \in 1..Len(keys) : i < j => keys[i] < keys[j]
  /\ \A i \in 1..Len(keys) : keys[i] <= k

GoodManager(m, k) ==
  /\ m \in ManagerStates
  /\ m.keys # <<>> /\ GoodKeys(m.keys, k) /\ m.live # <<>> /\ GoodKeys(m.live, k)

\* What the only manager that writes the file knows, k being the last key that
\* was made: it is its last key, the file has its keys, and as long as nothing was
\* dropped its keys begin with those it was started with.
OwnsFile(m, file, k) ==
  LET begun == Len(m.live) + (k - m.live[Len(m.live)]) IN
  /\ m.keys[Len(m.keys)] = k
  /\ ~m.saving => file = m.keys
  /\ begun <= RetainKeys => /\ Len(m.keys) = begun
                            /\ \A j \in 1..Len(m.live) : m.keys[j] = m.live[j]

TicketsInv ==
  /\ keysMade \in Nat /\ clean \in BOOLEAN /\ managers \in Seq(ManagerStates)
  /\ GoodKeys(keyFile, keysMade)
  /\ \A i \in 1..Len(managers) : GoodManager(managers[i], keysMade)
  /\ clean => /\ managers = <<>> => keyFile = <<>>
              /\ managers # <<>> => OwnsFile(managers[Len(managers)], keyFile, keysMade)
              /\ \A i \in 1..Len(managers) : managers[i].saving => i = Len(managers)

LEMMA EmptyKeys == ASSUME NEW k \in Nat PROVE GoodKeys(<<>>, k)
  BY TicketsAssumption DEF GoodKeys

LEMMA MoreKeys ==
  ASSUME NEW j \in Nat, NEW k \in Nat, j <= k
  PROVE  /\ \A s : GoodKeys(s, j) => GoodKeys(s, k)
         /\ \A m : GoodManager(m, j) => GoodManager(m, k)
<1>1. ASSUME NEW s, GoodKeys(s, j) PROVE GoodKeys(s, k)
  <2>1. \A i \in 1..Len(s) : s[i] \in Nat /\ s[i] <= j
    BY <1>1 DEF GoodKeys
  <2> QED
    BY <1>1, <2>1 DEF GoodKeys
<1> QED
  BY <1>1 DEF GoodManager

LEMMA GoodIncreasing ==
  ASSUME NEW s, NEW k, GoodKeys(s, k)
  PROVE  Increasing(s) /\ (s # <<>> => Len(s) \in 1..RetainKeys)
<1>1. s \in Seq(Nat) /\ DOMAIN s = 1..Len(s) /\ Len(s) \in Nat /\ Len(s) <= RetainKeys
  BY DEF GoodKeys
<1>2. Increasing(s)
  BY <1>1 DEF GoodKeys, Increasing
<1>3. s # <<>> => Len(s) >= 1
  BY <1>1
<1> QED
  BY <1>1, <1>2, <1>3, TicketsAssumption

\* What is left of increasing keys is increasing, and ends as they do.
LEMMA RetainedKeys ==
  ASSUME NEW s \in Seq(Nat), Len(s) > 0, NEW k \in Nat,
         \A i, j \in 1..Len(s) : i < j => s[i] < s[j],
         \A i \in 1..Len(s) : s[i] <= k
  PROVE  /\ GoodKeys(Retained(s), k) /\ Retained(s) # <<>>
         /\ Retained(s)[Len(Retained(s))] = s[Len(s)]
         /\ Len(s) <= RetainKeys => Retained(s) = s
<1> USE TicketsAssumption
<1>1. CASE Len(s) > RetainKeys
  <2> DEFINE d == Len(s) - RetainKeys
             t == SubSeq(s, d + 1, Len(s))
  <2>1. Retained(s) = t
    BY <1>1 DEF Retained
  <2>2. d + 1 \in Int /\ Len(s) \in Int /\ \A i \in (d + 1)..Len(s) : s[i] \in Nat
    BY <1>1
  <2>3. /\ t \in Seq(Nat) /\ Len(t) = IF d + 1 <= Len(s) THEN Len(s) - (d + 1) + 1 ELSE 0
        /\ \A i \in 1..(Len(s) - (d + 1) + 1) : t[i] = s[d + 1 + i - 1]
    <3> HIDE DEF d
    <3> QED
      BY <2>2, SubSeqProperties
  <2> HIDE DEF t
  <2>4. /\ t \in Seq(Nat) /\ Len(t) = RetainKeys /\ d \in Nat /\ Len(s) = d + RetainKeys
        /\ \A i \in 1..RetainKeys : t[i] = s[i + d] /\ i + d \in 1..Len(s)
    BY <1>1, <2>3
  <2> HIDE DEF d
  <2>5. GoodKeys(t, k)
    <3>1. ASSUME NEW i \in 1..RetainKeys, NEW j \in 1..RetainKeys, i < j PROVE t[i] < t[j]
      BY <2>4, <3>1
    <3>2. \A i \in 1..RetainKeys : t[i] <= k
      BY <2>4
    <3> QED
      BY <2>4, <3>1, <3>2 DEF GoodKeys
  <2>6. t # <<>> /\ t[Len(t)] = s[Len(s)]
    BY <2>4
  <2> QED
    BY <1>1, <2>1, <2>5, <2>6
<1>2. CASE ~(Len(s) > RetainKeys)
  BY <1>2 DEF Retained, GoodKeys
<1> QED
  BY <1>1, <1>2

\* A fresh manager has the file for itself if its keys are those of the file.
LEMMA FreshManager ==
  ASSUME NEW keys, NEW k \in Nat, GoodKeys(keys, k), keys # <<>>
  PROVE  /\ GoodManager(Manager(keys), k)
         /\ keys[Len(keys)] = k => OwnsFile(Manager(keys), keys, k)
<1>1. /\ Manager(keys) \in ManagerStates /\ Manager(keys).keys = keys /\ Manager(keys).live = keys
      /\ keys \in Seq(Nat)
  BY DEF Manager, ManagerStates, GoodKeys
<1> QED
  BY <1>1 DEF GoodManager, OwnsFile, GoodKeys

LEMMA TicketsInitInv == TicketsInit => TicketsInv
  BY EmptyKeys DEF TicketsInit, TicketsInv

LEMMA EmptyOthers ==
  ASSUME managers \in Seq(ManagerStates), NEW others \in {managers, <<>>}
  PROVE  /\ others \in Seq(ManagerStates) /\ Len(others) <= Len(managers)
         /\ \A i \in 1..Len(others) : others[i] = managers[i]
<1>1. Len(managers) \in Nat
  OBVIOUS
<1>2. CASE others = managers
  BY <1>1, <1>2
<1>3. CASE others = <<>>
  <2>1. others \in Seq(ManagerStates) /\ Len(others) = 0
    BY <1>3, EmptyList
  <2> QED
    BY <1>1, <2>1
<1> QED
  BY <1>2, <1>3

\* A manager joins those of others that go on.
LEMMA ManagerMade ==
  ASSUME TicketsInv, NEW others \in {managers, <<>>}, NewManager(others)
  PROVE  TicketsInv'
<1> USE DEF TicketsInv
<1>0. /\ others \in Seq(ManagerStates) /\ Len(others) <= Len(managers)
      /\ \A i \in 1..Len(others) : others[i] = managers[i]
  BY Zenon, EmptyOthers
<1>1. PICK keys :
        /\ managers' = Append(others, Manager(keys)) /\ keys # <<>>
        /\ keysMade' \in Nat /\ keysMade <= keysMade'
        /\ GoodKeys(keys, keysMade') /\ GoodKeys(keyFile', keysMade')
        /\ clean' => keys[Len(keys)] = keysMade' /\ keyFile' = keys
  <2>1. CASE keyFile # <<>>
    <3>1. /\ managers' = Append(others, Manager(Retained(keyFile)))
          /\ keyFile' = keyFile /\ keysMade' = keysMade
      BY <2>1 DEF NewManager
    <3>2. keyFile \in Seq(Nat) /\ Len(keyFile) > 0 /\ Len(keyFile) <= RetainKeys
      BY <2>1 DEF GoodKeys
    <3>3. Retained(keyFile) = keyFile
      BY <3>2, TicketsAssumption DEF Retained
    <3>4. ASSUME clean' PROVE keyFile[Len(keyFile)] = keysMade
      <4> DEFINE m == managers[Len(managers)]
      <4>1. clean /\ ~Saving
        BY <3>4 DEF NewManager
      <4>2. managers # <<>> /\ Len(managers) \in DOMAIN managers
        BY <2>1, <4>1
      <4>3. OwnsFile(m, keyFile, keysMade) /\ ~m.saving
        BY <4>1, <4>2 DEF Saving
      <4> HIDE DEF m
      <4> QED
        BY <4>3 DEF OwnsFile
    <3> QED
      BY <2>1, <3>1, <3>3, <3>4
  <2>2. CASE keyFile = <<>>
    <3> DEFINE keys == <<keysMade + 1>>
    <3>1. keysMade' = keysMade + 1 /\ keyFile' = keys /\ managers' = Append(others, Manager(keys))
      BY <2>2 DEF NewManager
    <3>2. keys \in Seq(Nat) /\ keys # <<>> /\ Len(keys) = 1 /\ keys[1] = keysMade + 1
      OBVIOUS
    <3> HIDE DEF keys
    <3>3. GoodKeys(keys, keysMade + 1)
      BY <3>2, TicketsAssumption DEF GoodKeys
    <3>4. keysMade + 1 \in Nat /\ keysMade <= keysMade + 1 /\ keys[Len(keys)] = keysMade + 1
      BY <3>2
    <3> QED
      BY <3>1, <3>2, <3>3, <3>4
  <2> QED
    BY <2>1, <2>2
<1>2. clean' = (clean /\ ~Saving)
  BY DEF NewManager
<1>3. /\ GoodManager(Manager(keys), keysMade')
      /\ keys[Len(keys)] = keysMade' => OwnsFile(Manager(keys), keys, keysMade')
  BY <1>1, FreshManager
<1>4. Manager(keys) \in ManagerStates
  BY <1>3 DEF GoodManager
<1>5. /\ managers' \in Seq(ManagerStates) /\ Len(managers') = Len(others) + 1
      /\ \A i \in 1..Len(managers') :
           managers'[i] = IF i = Len(others) + 1 THEN Manager(keys) ELSE others[i]
  BY <1>0, <1>1, <1>4
<1>6. ASSUME NEW i \in 1..Len(managers') PROVE GoodManager(managers'[i], keysMade')
  <2>1. CASE i = Len(others) + 1
    BY <1>3, <1>5, <2>1
  <2>2. CASE i # Len(others) + 1
    <3>1. i \in 1..Len(managers) /\ managers'[i] = managers[i]
      BY <1>0, <1>5, <2>2
    <3> QED
      BY <1>1, <3>1, MoreKeys
  <2> QED
    BY <2>1, <2>2
<1>7. /\ Len(managers') = Len(others) + 1 /\ Len(others) \in Nat
      /\ managers'[Len(managers')] = Manager(keys) /\ managers' # <<>>
  BY <1>0, <1>5
<1>8. ASSUME clean' PROVE OwnsFile(managers'[Len(managers')], keyFile', keysMade')
  BY <1>1, <1>3, <1>7, <1>8
<1>9. ASSUME clean', NEW i \in 1..Len(managers') PROVE ~managers'[i].saving
  <2>1. CASE i = Len(others) + 1
    BY <1>5, <2>1 DEF Manager
  <2>2. CASE i # Len(others) + 1
    <3>1. i \in DOMAIN managers /\ managers'[i] = managers[i]
      BY <1>0, <1>5, <2>2
    <3>2. ~Saving
      BY <1>2, <1>9
    <3> QED
      BY <3>1, <3>2 DEF Saving
  <2> QED
    BY <2>1, <2>2
<1>10. clean' \in BOOLEAN
  BY <1>2
<1> QED
  BY <1>1, <1>5, <1>6, <1>7, <1>8, <1>9, <1>10

\* The manager in place i is now n.
LEMMA ManagerChanged ==
  ASSUME TicketsInv, NEW i \in 1..Len(managers), NEW n,
         managers' = [managers EXCEPT ![i] = n],
         keysMade' \in Nat, keysMade <= keysMade', clean' \in BOOLEAN, clean' => clean,
         GoodManager(n, keysMade'), GoodKeys(keyFile', keysMade'),
         clean' /\ i # Len(managers) => /\ ~n.saving
                                        /\ keyFile' = keyFile /\ keysMade' = keysMade,
         clean' /\ i = Len(managers) /\ OwnsFile(managers[i], keyFile, keysMade)
           => OwnsFile(n, keyFile', keysMade')
  PROVE  TicketsInv'
<1> USE DEF TicketsInv
<1>1. /\ managers' \in Seq(ManagerStates) /\ Len(managers') = Len(managers)
      /\ \A j \in 1..Len(managers) : managers'[j] = IF j = i THEN n ELSE managers[j]
  BY DEF GoodManager
<1>2. \A j \in 1..Len(managers) : GoodManager(managers'[j], keysMade')
  BY <1>1, MoreKeys
<1>3. managers # <<>> /\ managers' # <<>> /\ Len(managers) \in 1..Len(managers)
  <2>1. Len(managers) \in Nat /\ Len(managers) # 0
    OBVIOUS
  <2>2. managers # <<>> /\ managers' # <<>>
    BY <1>1, <2>1, EmptyList
  <2> QED
    BY <2>1, <2>2
<1>4. ASSUME clean' PROVE OwnsFile(managers'[Len(managers')], keyFile', keysMade')
  <2>1. clean /\ OwnsFile(managers[Len(managers)], keyFile, keysMade)
    BY <1>3, <1>4
  <2>2. CASE i = Len(managers)
    BY <1>1, <1>4, <2>1, <2>2
  <2>3. CASE i # Len(managers)
    <3>1. managers'[Len(managers')] = managers[Len(managers)]
      BY <1>1, <1>3, <2>3
    <3> QED
      BY <1>4, <2>1, <2>3, <3>1
  <2> QED
    BY <2>2, <2>3
<1>5. ASSUME clean', NEW j \in 1..Len(managers'), managers'[j].saving PROVE j = Len(managers')
  BY <1>1, <1>5
<1> QED
  BY <1>1, <1>2, <1>3, <1>4, <1>5

LEMMA KeyRotated ==
  ASSUME TicketsInv, NEW i \in 1..Len(managers), NEW saved \in BOOLEAN, RotateKey(i, saved)
  PROVE  TicketsInv'
<1> USE TicketsAssumption DEF TicketsInv
<1> DEFINE m == managers[i]
           added == Append(m.keys, keysMade + 1)
           kept == Rotated(m.keys)
           n == [m EXCEPT !.keys = kept, !.fired = FALSE, !.saving = saved]
<1>1. /\ managers' = [managers EXCEPT ![i].keys = Rotated(@), ![i].fired = FALSE, ![i].saving = saved]
      /\ keysMade' = keysMade + 1 /\ keyFile' = (IF saved THEN <<>> ELSE keyFile)
      /\ clean' = (clean /\ saved /\ i = Len(managers))
  BY DEF RotateKey
<1>2. m \in ManagerStates /\ GoodManager(m, keysMade)
  BY DEF GoodManager
<1>3. managers' = [managers EXCEPT ![i] = n]
  BY <1>1, <1>2 DEF ManagerStates
<1>4. kept = Retained(added)
  BY DEF Rotated
<1> HIDE DEF m
<1>5. /\ m.keys \in Seq(Nat) /\ m.keys # <<>> /\ GoodKeys(m.keys, keysMade)
      /\ m.live \in Seq(Nat) /\ m.live # <<>> /\ GoodKeys(m.live, keysMade)
  BY <1>2 DEF GoodManager, GoodKeys
<1>6. /\ added \in Seq(Nat) /\ Len(added) = Len(m.keys) + 1 /\ added[Len(added)] = keysMade + 1
      /\ \A j \in 1..Len(m.keys) : added[j] = m.keys[j]
  BY <1>5
<1> HIDE DEF added
<1>7. /\ \A a, b \in 1..Len(added) : a < b => added[a] < added[b]
      /\ \A a \in 1..Len(added) : added[a] <= keysMade + 1
  <2>1. \A a \in 1..Len(m.keys) : added[a] \in Nat /\ added[a] <= keysMade
    <3>1. \A a \in 1..Len(m.keys) : m.keys[a] \in Nat /\ m.keys[a] <= keysMade
      <4> DEFINE keys == m.keys
      <4>1. keys \in Seq(Nat) /\ \A a \in 1..Len(keys) : keys[a] <= keysMade
        BY <1>5 DEF GoodKeys
      <4> HIDE DEF keys
      <4>2. \A a \in 1..Len(keys) : keys[a] \in Nat
        BY <4>1
      <4> QED
        BY <4>1, <4>2 DEF keys
    <3> QED
      BY <1>6, <3>1
  <2>2. \A a, b \in 1..Len(m.keys) : a < b => added[a] < added[b]
    BY <1>5, <1>6 DEF GoodKeys
  <2>3. Len(m.keys) \in Nat /\ \A a \in 1..Len(added) : a \in 1..Len(m.keys) \/ a = Len(added)
    BY <1>5, <1>6, SMTT(60)
  <2>4. \A a \in 1..Len(added) : a < Len(added) => added[a] < added[Len(added)]
    <3> SUFFICES ASSUME NEW a \in 1..Len(added), a < Len(added) PROVE added[a] < added[Len(added)]
      OBVIOUS
    <3>1. a \in 1..Len(m.keys)
      BY <2>3
    <3>2. added[a] \in Nat /\ added[a] <= keysMade
      BY <2>1, <3>1
    <3> QED
      BY <1>6, <3>2
  <2>5. ASSUME NEW a \in 1..Len(added), NEW b \in 1..Len(added), a < b PROVE added[a] < added[b]
    <3>1. a < Len(added) /\ a \in 1..Len(m.keys)
      BY <1>6, <2>3, <2>5, SMTT(60)
    <3>2. CASE b = Len(added)
      BY <2>4, <3>1, <3>2
    <3>3. CASE b \in 1..Len(m.keys)
      BY <2>2, <2>5, <3>1, <3>3
    <3> QED
      BY <2>3, <3>2, <3>3
  <2>6. ASSUME NEW a \in 1..Len(added) PROVE added[a] <= keysMade + 1
    <3>1. CASE a = Len(added)
      BY <1>6, <3>1
    <3>2. CASE a \in 1..Len(m.keys)
      BY <2>1, <3>2
    <3> QED
      BY <2>3, <3>1, <3>2
  <2> QED
    BY <2>5, <2>6
<1>8. /\ GoodKeys(kept, keysMade + 1) /\ kept # <<>> /\ kept[Len(kept)] = keysMade + 1
      /\ Len(added) <= RetainKeys => kept = added
  <2>1. keysMade + 1 \in Nat /\ Len(added) > 0
    BY <1>5, <1>6, SMTT(60)
  <2> HIDE DEF kept
  <2> QED
    BY <1>4, <1>6, <1>7, <2>1, RetainedKeys
<1> HIDE DEF kept
<1>9. n \in ManagerStates /\ n.keys = kept /\ n.live = m.live /\ n.saving = saved
  BY <1>2, <1>8 DEF ManagerStates, GoodKeys
<1> HIDE DEF n
<1>10. keysMade + 1 \in Nat /\ keysMade <= keysMade + 1
  OBVIOUS
<1>11. GoodManager(n, keysMade + 1)
  <2>1. GoodKeys(m.live, keysMade + 1)
    BY <1>5, <1>10, MoreKeys
  <2> QED
    BY <1>5, <1>8, <1>9, <2>1 DEF GoodManager
<1>12. GoodKeys(keyFile', keysMade + 1)
  BY <1>1, <1>10, MoreKeys, EmptyKeys
<1>13. ASSUME clean', OwnsFile(m, keyFile, keysMade) PROVE OwnsFile(n, keyFile', keysMade + 1)
  <2> DEFINE first == m.live[Len(m.live)]
             many == Len(m.live)
  <2>1. first \in Nat /\ first <= keysMade /\ many \in Nat
    BY <1>5, SMTT(60) DEF GoodKeys
  <2>2. ASSUME many + ((keysMade + 1) - first) <= RetainKeys
        PROVE  /\ Len(kept) = many + ((keysMade + 1) - first)
               /\ \A j \in 1..many : kept[j] = m.live[j]
    <3>1. many + (keysMade - first) <= RetainKeys
      <4> HIDE DEF first, many
      <4> QED
        BY <2>1, <2>2
    <3>2. Len(m.keys) = many + (keysMade - first) /\ \A j \in 1..many : m.keys[j] = m.live[j]
      BY <1>13, <3>1 DEF OwnsFile
    <3> HIDE DEF first, many
    <3>3. kept = added /\ Len(added) = many + ((keysMade + 1) - first) /\ many <= Len(m.keys)
      BY <1>6, <1>8, <2>1, <2>2, <3>2
    <3>4. ASSUME NEW j \in 1..many PROVE kept[j] = m.live[j]
      <4>1. j \in 1..Len(m.keys)
        BY <1>5, <2>1, <3>3
      <4> QED
        BY <1>6, <3>2, <3>3, <4>1
    <3> QED
      BY <3>3, <3>4
  <2>3. saved
    BY <1>1, <1>13
  <2> QED
    BY <1>8, <1>9, <2>2, <2>3 DEF OwnsFile
<1> QED
  BY <1>1, <1>3, <1>10, <1>11, <1>12, <1>13, ManagerChanged DEF m

LEMMA KeysSaved ==
  ASSUME TicketsInv, NEW i \in 1..Len(managers), Saved(i)
  PROVE  TicketsInv'
<1> USE DEF TicketsInv
<1> DEFINE m == managers[i]
           n == [m EXCEPT !.saving = FALSE]
<1>1. /\ managers' = [managers EXCEPT ![i].saving = FALSE] /\ keyFile' = m.keys
      /\ UNCHANGED <<keysMade, clean>>
  BY DEF Saved
<1>2. m \in ManagerStates /\ GoodManager(m, keysMade)
  BY DEF GoodManager
<1>3. managers' = [managers EXCEPT ![i] = n]
  BY <1>1, <1>2 DEF ManagerStates
<1> HIDE DEF m
<1>4. n \in ManagerStates /\ n.keys = m.keys /\ n.live = m.live /\ n.saving = FALSE
  BY <1>2 DEF ManagerStates
<1> HIDE DEF n
<1>5. GoodManager(n, keysMade) /\ GoodKeys(m.keys, keysMade)
  BY <1>2, <1>4 DEF GoodManager
<1>6. OwnsFile(m, keyFile, keysMade) => OwnsFile(n, m.keys, keysMade)
  BY <1>4 DEF OwnsFile
<1>7. /\ keysMade' = keysMade /\ keysMade <= keysMade' /\ keysMade' \in Nat
      /\ clean' = clean /\ clean' \in BOOLEAN /\ keyFile' = m.keys
  BY <1>1
<1>8. clean' /\ OwnsFile(managers[i], keyFile, keysMade) => OwnsFile(n, keyFile', keysMade')
  BY <1>6, <1>7 DEF m
<1>9. clean' => i = Len(managers)
  BY <1>7 DEF Saved
<1> QED
  BY <1>3, <1>5, <1>7, <1>8, <1>9, ManagerChanged

\* A manager is stopped, or its timer fires or is given up.
LEMMA TimerChanged ==
  ASSUME TicketsInv, NEW i \in 1..Len(managers), Stop(i) \/ Fire(i) \/ SeesStop(i)
  PROVE  TicketsInv'
<1> USE DEF TicketsInv
<1> DEFINE m == managers[i]
<1>1. m \in ManagerStates /\ GoodManager(m, keysMade) /\ UNCHANGED <<keyFile, keysMade, clean>>
  BY DEF GoodManager, Stop, Fire, SeesStop
<1>2. PICK n : /\ managers' = [managers EXCEPT ![i] = n]
               /\ n \in {[m EXCEPT !.started = FALSE], [m EXCEPT !.fired = TRUE], [m EXCEPT !.fired = FALSE]}
  BY <1>1 DEF Stop, Fire, SeesStop, ManagerStates
<1>3. clean /\ m.saving => i = Len(managers)
  OBVIOUS
<1> HIDE DEF m
<1>4. n \in ManagerStates /\ n.keys = m.keys /\ n.live = m.live /\ n.saving = m.saving
  BY <1>1, <1>2 DEF ManagerStates
<1>5. GoodManager(n, keysMade)
  BY <1>1, <1>4 DEF GoodManager
<1>6. OwnsFile(m, keyFile, keysMade) => OwnsFile(n, keyFile, keysMade)
  BY <1>4 DEF OwnsFile
<1>7. /\ keysMade' = keysMade /\ keysMade <= keysMade' /\ keysMade' \in Nat
      /\ clean' = clean /\ clean' \in BOOLEAN /\ keyFile' = keyFile /\ GoodKeys(keyFile', keysMade')
  BY <1>1
<1>8. clean' /\ i # Len(managers) => ~n.saving
  BY <1>3, <1>4, <1>7
<1>9. clean' /\ OwnsFile(managers[i], keyFile, keysMade) => OwnsFile(n, keyFile', keysMade')
  BY <1>6, <1>7 DEF m
<1> QED
  BY <1>2, <1>5, <1>7, <1>8, <1>9, ManagerChanged

LEMMA TicketsStep == TicketsInv /\ [TicketsNext]_ticketVars => TicketsInv'
<1> SUFFICES ASSUME TicketsInv, [TicketsNext]_ticketVars PROVE TicketsInv'
  OBVIOUS
<1>t. managers \in Seq(ManagerStates) /\ DOMAIN managers = 1..Len(managers) /\ Len(managers) \in Nat
  BY DEF TicketsInv
<1>1. CASE UNCHANGED ticketVars
  BY <1>1 DEF ticketVars, TicketsInv
<1>2. CASE Reload
  BY <1>2, ManagerMade DEF Reload
<1>3. CASE Restart
  BY <1>3, ManagerMade DEF Restart
<1>4. CASE Crash
  <2>1. PICK i \in DOMAIN managers : \E n \in 0..Len(managers[i].keys) : keyFile' = SubSeq(managers[i].keys, 1, n)
    BY <1>4 DEF Crash
  <2>2. PICK n \in 0..Len(managers[i].keys) : keyFile' = SubSeq(managers[i].keys, 1, n)
    BY <2>1
  <2> DEFINE keys == managers[i].keys
  <2>3. keys \in Seq(Nat) /\ GoodKeys(keys, keysMade)
    BY <1>t DEF TicketsInv, GoodManager, GoodKeys
  <2> HIDE DEF keys
  <2>4. n \in Nat /\ n <= Len(keys) /\ keyFile' = SubSeq(keys, 1, n)
    BY <2>2, <2>3 DEF keys
  <2>5. /\ keyFile' \in Seq(Nat) /\ Len(keyFile') = n
        /\ \A j \in 1..n : keyFile'[j] = keys[j]
    BY <2>3, <2>4
  <2>6. managers' = <<>> /\ clean' = FALSE /\ keysMade' = keysMade
    BY <1>4 DEF Crash
  <2>7. GoodKeys(keyFile', keysMade)
    <3>1. 1..n \in SUBSET (1..Len(keys)) /\ n <= RetainKeys
      BY <2>3, <2>4, TicketsAssumption DEF GoodKeys
    <3>2. \A a, b \in 1..n : a < b => keyFile'[a] < keyFile'[b]
      BY <2>3, <2>5, <3>1 DEF GoodKeys
    <3> QED
      BY <2>3, <2>5, <3>1, <3>2 DEF GoodKeys
  <2>8. managers' \in Seq(ManagerStates) /\ Len(managers') = 0 /\ ~clean' /\ clean' \in BOOLEAN
    BY <2>6, EmptyList
  <2>9. keysMade' \in Nat /\ GoodKeys(keyFile', keysMade')
    BY <2>6, <2>7 DEF TicketsInv
  <2>10. \A j \in 1..Len(managers') : GoodManager(managers'[j], keysMade')
    BY <2>8
  <2> QED
    BY <2>8, <2>9, <2>10 DEF TicketsInv
<1>5. CASE Issue
  BY <1>5 DEF Issue, TicketsInv
<1>6. ASSUME NEW i \in DOMAIN managers, Saved(i) PROVE TicketsInv'
  BY <1>6, <1>t, KeysSaved
<1>7. ASSUME NEW i \in DOMAIN managers, NEW saved \in BOOLEAN, RotateKey(i, saved) PROVE TicketsInv'
  BY <1>7, <1>t, KeyRotated
<1>8. ASSUME NEW i \in DOMAIN managers, Stop(i) \/ Fire(i) \/ SeesStop(i) PROVE TicketsInv'
  BY <1>8, <1>t, TimerChanged
<1> QED
  BY <1>1, <1>2, <1>3, <1>4, <1>5, <1>6, <1>7, <1>8 DEF TicketsNext

LEMMA TicketsInvSurvive == TicketsInv => TicketsSurvive
<1> SUFFICES ASSUME TicketsInv PROVE TicketsSurvive
  OBVIOUS
<1>t. managers \in Seq(ManagerStates) /\ DOMAIN managers = 1..Len(managers) /\ Len(managers) \in Nat
  BY DEF TicketsInv
<1>1. ASSUME NEW i \in DOMAIN managers
      PROVE  /\ Len(managers[i].keys) \in 1..RetainKeys /\ Increasing(managers[i].keys)
             /\ managers[i].live # <<>> /\ Increasing(managers[i].live)
  <2> DEFINE m == managers[i]
  <2>1. /\ m.keys # <<>> /\ GoodKeys(m.keys, keysMade)
        /\ m.live # <<>> /\ GoodKeys(m.live, keysMade)
    BY <1>t DEF TicketsInv, GoodManager
  <2> QED
    BY <2>1, GoodIncreasing
<1>2. ASSUME clean, managers # <<>>, ~Saving, Len(Serving.live) + Rotations(Serving) <= RetainKeys
      PROVE  Range(Serving.live) \subseteq Range(keyFile)
  <2> DEFINE m == managers[Len(managers)]
  <2>0. Len(managers) \in 1..Len(managers)
    BY <1>t, <1>2
  <2>1. Serving = m /\ OwnsFile(m, keyFile, keysMade) /\ GoodManager(m, keysMade)
    BY <1>2, <2>0 DEF TicketsInv, Serving
  <2>2. ~m.saving
    BY <1>t, <1>2, <2>0 DEF Saving
  <2> HIDE DEF m
  <2>3. /\ m.keys \in Seq(Nat) /\ m.keys # <<>> /\ m.live \in Seq(Nat) /\ m.live # <<>>
        /\ GoodKeys(m.live, keysMade) /\ keysMade \in Nat
    BY <2>1 DEF GoodManager, GoodKeys, TicketsInv
  <2>4. Len(m.live) + (keysMade - m.live[Len(m.live)]) <= RetainKeys
    BY <1>2, <2>1 DEF OwnsFile, Rotations, Last
  <2>5. /\ keyFile = m.keys /\ \A j \in 1..Len(m.live) : m.keys[j] = m.live[j]
        /\ Len(m.keys) = Len(m.live) + (keysMade - m.live[Len(m.live)])
    BY <2>1, <2>2, <2>4 DEF OwnsFile
  <2>6. Len(m.live) <= Len(m.keys)
    <3>1. m.live[Len(m.live)] \in Nat /\ m.live[Len(m.live)] <= keysMade
      BY <2>3 DEF GoodKeys
    <3> QED
      BY <2>3, <2>5, <3>1
  <2>7. \A x : x \in Range(m.live) => \E j \in 1..Len(m.live) : m.live[j] = x
    BY <2>3, RangeOf
  <2>8. \A x : (\E j \in 1..Len(m.keys) : m.keys[j] = x) => x \in Range(m.keys)
    BY <2>3, RangeOf
  <2>9. \A j \in 1..Len(m.live) : j \in 1..Len(m.keys)
    BY <2>3, <2>6
  <2> QED
    BY <2>1, <2>5, <2>7, <2>8, <2>9
<1> QED
  BY <1>1, <1>2 DEF TicketsSurvive

\* However rotations, reloads, restarts, failed writes and crashes follow on each
\* other, no manager is without keys, and the only one that rotates hands on the
\* keys of its tickets (session_tickets.go:188-238, 292-345).
THEOREM TicketKeysSurvive == TicketsSpec => []TicketsSurvive
<1> QED
  BY TicketsInitInv, TicketsStep, TicketsInvSurvive, PTL DEF TicketsSpec

-----------------------------------------------------------------------------
(* The chain of middlewares *)

Elements == {<<m, "">> : m \in {"request_id", "access_log", "access", "rate_limit", "conn_limit",
                                "basic_auth", "auth_request", "body_limit", "rewrite", "compression",
                                "headers", "cors", "error_intercept"}}
            \cup Scripts

\* The bodies are limited once, before the path is rewritten.
ChainShape ==
  /\ chain \in Seq(Elements)
  /\ \E k \in 1..Len(chain) : chain[k][1] = "body_limit"
  /\ \A i, j \in 1..Len(chain) : chain[i][1] = "rewrite" /\ i < j => chain[j][1] # "body_limit"

\* A body is within the limit of a path.
BodyFits(path, length) ==
  /\ \A p \in DOMAIN PathLimits :
       IsPrefix(p, path) /\ (\A q \in DOMAIN PathLimits : IsPrefix(q, path) => IsPrefix(q, p))
         => length = Chunked \/ length <= PathLimits[p]
  /\ (\A p \in DOMAIN PathLimits : ~IsPrefix(p, path)) => length = Chunked \/ length <= MaxBodySize

\* What middleware m has made sure of for request rq
Met(m, rq) ==
  /\ m = "access" => rq.client \in Addresses /\ Admitted(rq.client)
  /\ m = "basic_auth" => rq.tls /\ rq.user = "known"
  /\ m = "auth_request" => rq.vouched \in 200..299
  /\ m = "body_limit" => BodyFits(rq.source, rq.length)
  /\ m = "cors" => rq.origin # "preflight"

RequestFields == {"path", "source", "client", "tls", "user", "vouched", "length", "origin", "accepts", "ran"}
IsRequest(rq) == rq = [f \in RequestFields |-> rq[f]]
WithField(rq, c, v) == [rq EXCEPT ![c] = v]

PipeInv ==
  /\ ChainShape /\ IsRequest(req)
  /\ way = "in" =>
       /\ pos \in 1..(Len(chain) + 1)
       /\ \A i \in 1..Len(chain) : i < pos => Met(chain[i][1], req)
       /\ (\A i \in 1..Len(chain) : i < pos => chain[i][1] # "rewrite") => req.path = req.source

LEMMA Joined ==
  ASSUME NEW S, NEW s \in Seq(S), NEW t \in Seq(S) PROVE s \o t \in Seq(S)
OBVIOUS

LEMMA FewElements ==
  ASSUME NEW S, NEW x \in S, NEW y \in S
  PROVE  <<>> \in Seq(S) /\ <<x>> \in Seq(S) /\ <<x, y>> \in Seq(S)
OBVIOUS

LEMMA OptionalElement ==
  ASSUME NEW S, NEW m, <<m, "">> \in S, NEW on PROVE Optional(m, on) \in Seq(S)
<1>1. <<<<m, "">>>> \in Seq(S) /\ <<>> \in Seq(S)
  BY FewElements, Zenon
<1> QED
  BY <1>1 DEF Optional

\* The scripts are run one after another, in an order of their own.
LEMMA ScriptsListed == ASSUME NEW luas \in SetToSeqs(Scripts) PROVE luas \in Seq(Scripts)
<1> DEFINE h == [p \in ScriptPhases |-> <<"script", p>>]
<1>1. h \in Surjection(ScriptPhases, Scripts)
  BY DEF Surjection, Scripts
<1>2. IsFiniteSet(Scripts)
  <2> HIDE DEF h
  <2> QED
    BY <1>1, FS_Surjection, PipeAssumption
<1>3. Cardinality(Scripts) \in Nat
  BY <1>2, FS_CardinalityType
<1>4. luas \in [1..Cardinality(Scripts) -> Scripts]
  BY DEF SetToSeqs
<1> QED
  BY <1>3, <1>4

\* Until the body is limited nothing rewrites, and afterwards nothing limits.
LEMMA ChainsShaped == ASSUME chain \in Chains PROVE ChainShape
<1> DEFINE E1 == {e \in Elements : e[1] # "rewrite"}
           E2 == {e \in Elements : e[1] # "body_limit"}
           limit == <<"body_limit", "">>
<1>1. PICK on \in Setups, luas \in SetToSeqs(Scripts) : chain = ChainOf(on, luas)
  BY DEF Chains
<1> DEFINE g == Guards(on)
           f == Filters(on) \o (IF "lua" \in on THEN luas ELSE <<>>)
<1>2. g \in Seq(E1)
  <2>1. \A m \in {"request_id", "access_log", "access", "rate_limit", "conn_limit",
                  "basic_auth", "auth_request"} : <<m, "">> \in E1
    BY DEF Elements
  <2> HIDE DEF E1
  <2>2. <<<<"request_id", "">>, <<"access_log", "">>>> \in Seq(E1)
    <3>1. <<"request_id", "">> \in E1 /\ <<"access_log", "">> \in E1
      BY <2>1
    <3> QED
      BY <3>1, FewElements, Zenon
  <2>3. /\ Optional("access", on) \in Seq(E1) /\ Optional("rate_limit", on) \in Seq(E1)
        /\ Optional("conn_limit", on) \in Seq(E1) /\ Optional("basic_auth", on) \in Seq(E1)
        /\ Optional("auth_request", on) \in Seq(E1)
    BY <2>1, OptionalElement
  <2> QED
    BY <2>2, <2>3, Joined, Zenon DEF Guards
<1>3. Filters(on) \in Seq(E2)
  <2>1. \A m \in {"rewrite", "compression", "headers", "cors", "error_intercept"} : <<m, "">> \in E2
    BY DEF Elements
  <2> HIDE DEF E2
  <2>2. /\ Optional("rewrite", on) \in Seq(E2) /\ Optional("compression", on) \in Seq(E2)
        /\ Optional("headers", on) \in Seq(E2) /\ Optional("cors", on) \in Seq(E2)
        /\ Optional("error_intercept", on) \in Seq(E2)
    BY <2>1, OptionalElement
  <2> QED
    BY <2>2, Joined, Zenon DEF Filters
<1>4. f \in Seq(E2)
  <2>1. Scripts \subseteq E2
    <3>1. \A p \in ScriptPhases : <<"script", p>> \in Elements /\ <<"script", p>>[1] # "body_limit"
      BY DEF Elements, Scripts
    <3> QED
      BY <3>1 DEF Scripts
  <2>2. luas \in Seq(Scripts)
    BY ScriptsListed
  <2> HIDE DEF E2
  <2>3. (IF "lua" \in on THEN luas ELSE <<>>) \in Seq(E2)
    BY <2>1, <2>2
  <2> QED
    BY <1>3, <2>3, Joined
<1>5. E1 \subseteq Elements /\ E2 \subseteq Elements /\ limit \in Elements
  BY DEF Elements
<1>6. chain = g \o <<limit>> \o f
  BY <1>1 DEF ChainOf
<1>7. \A e \in E1 : e[1] # "rewrite"
  OBVIOUS
<1>8. \A e \in E2 : e[1] # "body_limit"
  OBVIOUS
<1>9. limit[1] = "body_limit"
  OBVIOUS
<1> HIDE DEF E1, E2, limit, f, g
<1>10. g \in Seq(Elements) /\ f \in Seq(Elements) /\ <<limit>> \in Seq(Elements)
  BY <1>2, <1>4, <1>5
<1> DEFINE b == g \o <<limit>>
           k == Len(g) + 1
<1>11. /\ b \in Seq(Elements) /\ Len(b) = k /\ b[k] = limit
       /\ \A i \in 1..Len(g) : b[i] = g[i] /\ g[i] \in E1
  BY <1>2, <1>10
<1> HIDE DEF b
<1>12. /\ chain \in Seq(Elements) /\ Len(chain) = Len(b) + Len(f)
       /\ \A i \in 1..(Len(b) + Len(f)) : chain[i] = IF i <= Len(b) THEN b[i] ELSE f[i - Len(b)]
  BY <1>6, <1>10, <1>11, ConcatProperties DEF b
<1>13. Len(g) \in Nat /\ Len(f) \in Nat /\ k \in Nat
  BY <1>10
<1>14. /\ k \in 1..Len(chain) /\ chain[k] = limit
  BY <1>11, <1>12, <1>13
<1>15. ASSUME NEW i \in 1..Len(chain), i < k PROVE chain[i] \in E1
  <2>1. i \in 1..Len(g) /\ i <= Len(b)
    BY <1>11, <1>12, <1>13, <1>15
  <2> QED
    BY <1>11, <1>12, <2>1
<1>16. ASSUME NEW i \in 1..Len(chain), i > k PROVE chain[i] \in E2
  <2>1. ~(i <= Len(b)) /\ i - Len(b) \in 1..Len(f)
    BY <1>11, <1>12, <1>13, <1>16
  <2>2. chain[i] = f[i - Len(b)]
    BY <1>12, <2>1
  <2> QED
    BY <1>4, <2>1, <2>2
<1> HIDE DEF k
<1>17. ASSUME NEW i \in 1..Len(chain), NEW j \in 1..Len(chain), chain[i][1] = "rewrite", i < j
       PROVE  chain[j][1] # "body_limit"
  <2>1. ~(i < k)
    BY <1>7, <1>15, <1>17
  <2>2. i # k
    BY <1>9, <1>14, <1>17
  <2>3. j > k
    BY <1>13, <1>17, <2>1, <2>2
  <2> QED
    BY <1>8, <1>16, <2>3
<1> QED
  BY <1>9, <1>12, <1>14, <1>17 DEF ChainShape

\* A middleware lets the request on, having met its own condition and none the
\* worse for the others.
LEMMA PassStep ==
  ASSUME PipeInv, way = "in", pos <= Len(chain), NEW rq, NEW rs, Pass(rq, rs),
         IsRequest(rq), rq.source = req.source,
         chain[pos][1] # "rewrite" => rq.path = req.path,
         Met(chain[pos][1], rq), \A m : Met(m, req) => Met(m, rq)
  PROVE  PipeInv'
<1>1. req' = rq /\ pos' = pos + 1 /\ chain' = chain /\ way' = way
  BY DEF Pass
<1>2. pos \in 1..Len(chain) /\ Len(chain) \in Nat
  BY DEF PipeInv, ChainShape
<1>3. ASSUME NEW i \in 1..Len(chain), i < pos + 1 PROVE Met(chain[i][1], rq)
  <2>1. i < pos \/ i = pos
    BY <1>2, <1>3
  <2> QED
    BY <2>1 DEF PipeInv
<1>4. ASSUME \A i \in 1..Len(chain) : i < pos + 1 => chain[i][1] # "rewrite" PROVE rq.path = rq.source
  <2>1. chain[pos][1] # "rewrite" /\ \A i \in 1..Len(chain) : i < pos => chain[i][1] # "rewrite"
    BY <1>2, <1>4
  <2> QED
    BY <2>1 DEF PipeInv
<1>5. pos + 1 \in 1..(Len(chain) + 1)
  BY <1>2
<1>6. ChainShape'
  BY <1>1 DEF PipeInv, ChainShape
<1>7. \A i \in 1..Len(chain) : Met(chain[i][1], req)' <=> Met(chain[i][1], rq)
  BY <1>1 DEF Met, Admitted, Lookup, BodyFits
<1> QED
  BY <1>1, <1>3, <1>4, <1>5, <1>6, <1>7 DEF PipeInv

LEMMA OutStep ==
  ASSUME PipeInv, chain' = chain, way' # "in", IsRequest(req')
  PROVE  PipeInv'
  BY DEF PipeInv, ChainShape, IsRequest

\* Where a request is when it meets m
LEMMA AtPlace ==
  ASSUME PipeInv, NEW m, At(m)
  PROVE  way = "in" /\ pos <= Len(chain) /\ chain[pos][1] = m /\ pos \in 1..Len(chain) /\ IsRequest(req)
  BY DEF At, PipeInv, ChainShape

LEMMA SameMet == ASSUME NEW rq, NEW m, m \notin {"access", "basic_auth", "auth_request", "body_limit", "cors"} PROVE Met(m, rq)
  BY DEF Met

\* ExtractClientIPWithTrustedProxies finds one of the addresses.
LEMMA ClientKnown ==
  ASSUME NEW remote \in Addresses, NEW forwarded \in BoundedSeq(Addresses \cup {"junk"}, 2)
  PROVE  ClientIP(remote, forwarded) \in Addresses
<1> DEFINE outside == {i \in DOMAIN forwarded : forwarded[i] \notin TrustedProxies \cup {"junk"}}
<1>1. PICK n \in 0..2 : forwarded \in [1..n -> Addresses \cup {"junk"}]
  BY Zenon DEF BoundedSeq, SeqOf
<1>2. CASE remote \notin TrustedProxies \/ outside = {}
  BY <1>2 DEF ClientIP
<1>3. CASE remote \in TrustedProxies /\ outside # {}
  <2>1. outside \in SUBSET (1..n) /\ n \in Nat
    BY <1>1
  <2>2. Max(outside) \in outside
    <3> HIDE DEF outside
    <3> QED
      BY <1>3, <2>1, LastPosition
  <2>3. forwarded[Max(outside)] \in Addresses
    BY <1>1, <2>2
  <2> QED
    BY <1>3, <2>3 DEF ClientIP
<1> QED
  BY <1>2, <1>3

\* The list that is asked last cannot let in what the others keep out.
LEMMA CheckAdmits == ASSUME NEW ip, Check(ip) PROVE Admitted(ip)
<1>1. PrivateIP = "deny" => Country[ip] # "private"
  BY DEF Check, Lookup
<1> QED
  BY <1>1 DEF Check, Admitted

LEMMA PrefixLongest ==
  ASSUME NEW p \in Seq(Nat), NEW q \in Seq(Nat), IsPrefix(q, p)
  PROVE  Len(q) <= Len(p) /\ (Len(q) = Len(p) => q = p)
<1>1. Len(q) <= Len(p) /\ SubSeq(q, 1, Len(q)) = SubSeq(p, 1, Len(q))
  BY DEF IsPrefix
<1>2. SubSeq(q, 1, Len(q)) = q /\ SubSeq(p, 1, Len(p)) = p
  BY SubSeqFull
<1> QED
  BY <1>1, <1>2

LEMMA LimitsTyped ==
  /\ MaxBodySize \in Nat /\ DOMAIN PathLimits \subseteq Seq(Nat)
  /\ \A p \in DOMAIN PathLimits : PathLimits[p] \in Nat
BY PipeAssumption

\* GetLimit is the limit of the longest prefix.
LEMMA LimitFits ==
  ASSUME NEW path, NEW length, length = Chunked \/ length \in Nat,
         ~(length > 0 /\ length > GetLimit(path))
  PROVE  BodyFits(path, length)
<1>0. CASE length = Chunked
  BY <1>0 DEF BodyFits
<1> SUFFICES ASSUME length \in Nat PROVE BodyFits(path, length)
  BY <1>0
<1> DEFINE fits == {p \in DOMAIN PathLimits : IsPrefix(p, path)}
<1>1. ASSUME NEW p \in DOMAIN PathLimits, IsPrefix(p, path),
             \A q \in DOMAIN PathLimits : IsPrefix(q, path) => IsPrefix(q, p)
      PROVE  length <= PathLimits[p]
  <2> DEFINE best == CHOOSE b \in fits : \A q \in fits : Len(q) <= Len(b)
  <2>1. p \in fits /\ fits # {}
    BY <1>1
  <2>2. \A q \in fits : q \in Seq(Nat) /\ IsPrefix(q, p)
    BY <1>1, LimitsTyped
  <2>3. p \in Seq(Nat)
    BY LimitsTyped
  <2>4. \A q \in fits : Len(q) <= Len(p) /\ (Len(q) = Len(p) => q = p)
    <3> HIDE DEF fits
    <3> QED
      BY <2>2, <2>3, PrefixLongest
  <2>5. GetLimit(path) = PathLimits[best]
    BY <2>1 DEF GetLimit
  <2> HIDE DEF fits
  <2>6. best \in fits /\ \A q \in fits : Len(q) <= Len(best)
    BY <2>1, <2>4
  <2> HIDE DEF best
  <2>7. Len(best) = Len(p)
    <3>1. Len(best) \in Nat /\ Len(p) \in Nat
      BY <2>2, <2>3, <2>6
    <3> QED
      BY <2>1, <2>4, <2>6, <3>1
  <2>8. best = p
    BY <2>4, <2>6, <2>7
  <2> QED
    BY <2>5, <2>8, LimitsTyped
<1>2. ASSUME \A p \in DOMAIN PathLimits : ~IsPrefix(p, path) PROVE length <= MaxBodySize
  <2>1. fits = {}
    BY <1>2
  <2>2. GetLimit(path) = MaxBodySize
    BY <2>1 DEF GetLimit
  <2> QED
    BY <2>2, LimitsTyped
<1> QED
  BY <1>1, <1>2 DEF BodyFits

LEMMA PipeInitInv == PipeInit => PipeInv
<1> SUFFICES ASSUME PipeInit PROVE PipeInv
  OBVIOUS
<1>1. ChainShape
  BY ChainsShaped DEF PipeInit
<1>2. IsRequest(req)
  BY DEF PipeInit, NoRequest, IsRequest, RequestFields
<1> QED
  BY <1>1, <1>2 DEF PipeInit, PipeInv

\* One field of a request is set.
LEMMA FieldSet ==
  \A rq, c, v : IsRequest(rq) /\ c \in RequestFields =>
    /\ IsRequest(WithField(rq, c, v)) /\ WithField(rq, c, v)[c] = v
    /\ \A f \in RequestFields \ {c} : WithField(rq, c, v)[f] = rq[f]
<1> TAKE rq, c, v
<1> SUFFICES ASSUME IsRequest(rq), c \in RequestFields
             PROVE  /\ IsRequest(WithField(rq, c, v)) /\ WithField(rq, c, v)[c] = v
                    /\ \A f \in RequestFields \ {c} : WithField(rq, c, v)[f] = rq[f]
  OBVIOUS
<1>1. DOMAIN rq = RequestFields
  BY DEF IsRequest
<1>2. WithField(rq, c, v) = [f \in RequestFields |-> IF f = c THEN v ELSE rq[f]]
  BY <1>1 DEF WithField
<1> QED
  BY <1>2 DEF IsRequest

LEMMA AnswerStep == ASSUME PipeInv, NEW rs, Answer(rs) PROVE PipeInv'
<1>1. chain' = chain /\ way' # "in" /\ IsRequest(req')
  BY DEF Answer, GoBack, PipeInv
<1> QED
  BY <1>1, OutStep

\* A middleware without a condition of its own lets the request on as it is.
LEMMA PassAsIs ==
  ASSUME PipeInv, NEW m, At(m), NEW rs, Pass(req, rs), Met(m, req)
  PROVE  PipeInv'
  BY AtPlace, PassStep

LEMMA PipeStep == PipeInv /\ [PipeNext]_pipeVars => PipeInv'
<1> SUFFICES ASSUME PipeInv, [PipeNext]_pipeVars PROVE PipeInv'
  OBVIOUS
<1>r. IsRequest(req)
  BY DEF PipeInv
<1>1. CASE UNCHANGED pipeVars
  <2>1. chain' = chain /\ req' = req /\ way' = way /\ pos' = pos
    BY <1>1 DEF pipeVars
  <2>2. ChainShape' /\ IsRequest(req)'
    BY <2>1, <1>r DEF PipeInv, ChainShape, IsRequest
  <2>3. \A i \in 1..Len(chain) : Met(chain[i][1], req)' <=> Met(chain[i][1], req)
    BY <2>1 DEF Met, Admitted, Lookup, BodyFits
  <2> QED
    BY <2>1, <2>2, <2>3 DEF PipeInv
<1>2. ASSUME NEW p \in RequestPaths, Arrive(p) PROVE PipeInv'
  <2>1. PICK origin, accepts : req' = [NoRequest EXCEPT !.path = p, !.source = p, !.origin = origin,
                                                       !.accepts = accepts]
    BY <1>2 DEF Arrive
  <2>2. req' = [path |-> p, source |-> p, client |-> "", tls |-> FALSE, user |-> "none",
                vouched |-> 0, length |-> 0, origin |-> origin, accepts |-> accepts, ran |-> <<>>]
    BY <2>1 DEF NoRequest
  <2>3. IsRequest(req')
    BY <2>2 DEF IsRequest, RequestFields
  <2>4. req'.path = req'.source /\ pos' = 1 /\ chain' = chain
    BY <1>2, <2>2 DEF Arrive
  <2>5. ChainShape' /\ Len(chain) \in Nat
    BY <2>4 DEF PipeInv, ChainShape
  <2>6. pos' \in 1..(Len(chain') + 1)
    BY <2>4, <2>5
  <2>7. \A i \in 1..Len(chain') : ~(i < pos')
    BY <2>4
  <2>8. IsRequest(req)'
    BY <2>3 DEF IsRequest
  <2> QED
    BY <2>4, <2>5, <2>6, <2>7, <2>8 DEF PipeInv
<1>3. CASE RequestID
  BY <1>3, PassAsIs, SameMet DEF RequestID
<1>4. CASE Enter
  BY <1>4, PassAsIs, SameMet DEF Enter
<1>5. CASE AccessControl
  <2>1. PICK remote \in Addresses, forwarded \in BoundedSeq(Addresses \cup {"junk"}, 2) :
          LET ip == ClientIP(remote, forwarded)
          IN IF Check(ip) THEN Pass([req EXCEPT !.client = ip], resp) ELSE Answer(Error(403))
    BY <1>5 DEF AccessControl
  <2> DEFINE ip == ClientIP(remote, forwarded)
             rq == [req EXCEPT !.client = ip]
  <2>2. CASE ~Check(ip)
    BY <2>1, <2>2, AnswerStep
  <2>3. CASE Check(ip)
    <3>1. Pass(rq, resp) /\ ip \in Addresses /\ Admitted(ip)
      BY <2>1, <2>3, ClientKnown, CheckAdmits
    <3>2. /\ IsRequest(rq) /\ rq.source = req.source /\ rq.path = req.path /\ rq.client = ip
          /\ rq.tls = req.tls /\ rq.user = req.user /\ rq.vouched = req.vouched
          /\ rq.length = req.length /\ rq.origin = req.origin
      <4> HIDE DEF ip
      <4>1. "client" \in RequestFields /\ rq = WithField(req, "client", ip)
        BY DEF RequestFields, WithField
      <4> HIDE DEF rq
      <4>2. IsRequest(rq) /\ rq["client"] = ip /\ \A f \in RequestFields \ {"client"} : rq[f] = req[f]
        BY <1>r, <4>1, FieldSet
      <4> QED
        BY <4>2 DEF RequestFields
    <3> HIDE DEF ip, rq
    <3>3. Met("access", rq) /\ \A m : Met(m, req) => Met(m, rq)
      BY <3>1, <3>2 DEF Met
    <3>4. At("access")
      BY <1>5 DEF AccessControl
    <3> QED
      BY <3>1, <3>2, <3>3, <3>4, AtPlace, PassStep
  <2> QED
    BY <2>2, <2>3
<1>6. CASE Limiter
  BY <1>6, PassAsIs, AnswerStep, SameMet DEF Limiter
<1>7. CASE BasicAuth
  <2>1. PICK tls \in BOOLEAN, user \in {"none", "wrong", "known"} :
          IF ~tls THEN Answer(Error(403))
          ELSE IF user # "known" THEN Answer(Error(401))
          ELSE Pass([req EXCEPT !.tls = tls, !.user = user], resp)
    BY <1>7 DEF BasicAuth
  <2> DEFINE rq == [req EXCEPT !.tls = tls, !.user = user]
  <2>2. CASE ~(tls /\ user = "known")
    BY <2>1, <2>2, AnswerStep
  <2>3. CASE tls /\ user = "known"
    <3>1. Pass(rq, resp)
      BY <2>1, <2>3
    <3>2. /\ IsRequest(rq) /\ rq.source = req.source /\ rq.path = req.path /\ rq.client = req.client
          /\ rq.tls = tls /\ rq.user = user /\ rq.vouched = req.vouched
          /\ rq.length = req.length /\ rq.origin = req.origin
      <4> DEFINE half == WithField(req, "tls", tls)
      <4>1. "tls" \in RequestFields /\ "user" \in RequestFields /\ rq = WithField(half, "user", user)
        BY <1>r DEF RequestFields, WithField, IsRequest
      <4>2. IsRequest(half) /\ half["tls"] = tls /\ \A f \in RequestFields \ {"tls"} : half[f] = req[f]
        BY <1>r, <4>1, FieldSet
      <4> HIDE DEF rq, half
      <4>3. IsRequest(rq) /\ rq["user"] = user /\ \A f \in RequestFields \ {"user"} : rq[f] = half[f]
        BY <4>1, <4>2, FieldSet
      <4> QED
        BY <4>2, <4>3 DEF RequestFields
    <3> HIDE DEF rq
    <3>3. Met("basic_auth", rq) /\ \A m : Met(m, req) => Met(m, rq)
      BY <2>3, <3>2 DEF Met
    <3>4. At("basic_auth")
      BY <1>7 DEF BasicAuth
    <3> QED
      BY <3>1, <3>2, <3>3, <3>4, AtPlace, PassStep
  <2> QED
    BY <2>2, <2>3
<1>8. CASE AuthRequest
  <2>1. PICK answer \in {0, 200, 204, 302, 401, 403, 503} :
          IF answer \in 200..299 THEN Pass([req EXCEPT !.vouched = answer], resp)
          ELSE Answer(Error(IF answer \in {401, 403} THEN answer ELSE 500))
    BY <1>8 DEF AuthRequest
  <2> DEFINE rq == [req EXCEPT !.vouched = answer]
  <2>2. CASE answer \notin 200..299
    BY <2>1, <2>2, AnswerStep
  <2>3. CASE answer \in 200..299
    <3>1. Pass(rq, resp)
      BY <2>1, <2>3
    <3>2. /\ IsRequest(rq) /\ rq.source = req.source /\ rq.path = req.path /\ rq.client = req.client
          /\ rq.tls = req.tls /\ rq.user = req.user /\ rq.vouched = answer
          /\ rq.length = req.length /\ rq.origin = req.origin
      <4>1. "vouched" \in RequestFields /\ rq = WithField(req, "vouched", answer)
        BY DEF RequestFields, WithField
      <4> HIDE DEF rq
      <4>2. IsRequest(rq) /\ rq["vouched"] = answer /\ \A f \in RequestFields \ {"vouched"} : rq[f] = req[f]
        BY <1>r, <4>1, FieldSet
      <4> QED
        BY <4>2 DEF RequestFields
    <3> HIDE DEF rq
    <3>3. Met("auth_request", rq) /\ \A m : Met(m, req) => Met(m, rq)
      BY <2>3, <3>2 DEF Met
    <3>4. At("auth_request")
      BY <1>8 DEF AuthRequest
    <3> QED
      BY <3>1, <3>2, <3>3, <3>4, AtPlace, PassStep
  <2> QED
    BY <2>2, <2>3
<1>9. CASE BodyLimit
  <2>1. PICK length \in {Chunked} \cup 0..(MaxBodySize + 1) :
          IF length > 0 /\ length > GetLimit(req.path) THEN Answer(Error(413))
          ELSE Pass([req EXCEPT !.length = length], resp)
    BY <1>9 DEF BodyLimit
  <2> DEFINE rq == [req EXCEPT !.length = length]
  <2>2. CASE length > 0 /\ length > GetLimit(req.path)
    BY <2>1, <2>2, AnswerStep
  <2>3. CASE ~(length > 0 /\ length > GetLimit(req.path))
    <3>0. At("body_limit")
      BY <1>9 DEF BodyLimit
    <3>1. Pass(rq, resp) /\ (length = Chunked \/ length \in Nat)
      BY <2>1, <2>3, LimitsTyped
    <3>2. /\ IsRequest(rq) /\ rq.source = req.source /\ rq.path = req.path /\ rq.client = req.client
          /\ rq.tls = req.tls /\ rq.user = req.user /\ rq.vouched = req.vouched
          /\ rq.length = length /\ rq.origin = req.origin
      <4>1. "length" \in RequestFields /\ rq = WithField(req, "length", length)
        BY DEF RequestFields, WithField
      <4> HIDE DEF rq
      <4>2. IsRequest(rq) /\ rq["length"] = length /\ \A f \in RequestFields \ {"length"} : rq[f] = req[f]
        BY <1>r, <4>1, FieldSet
      <4> QED
        BY <4>2 DEF RequestFields
    <3> HIDE DEF rq
    <3>3. pos \in 1..Len(chain) /\ way = "in" /\ chain[pos][1] = "body_limit"
      BY <3>0, AtPlace
    <3>4. \A i \in 1..Len(chain) : i < pos => chain[i][1] # "rewrite"
      BY <3>3 DEF PipeInv, ChainShape
    <3>5. req.path = req.source
      BY <3>3, <3>4 DEF PipeInv
    <3>6. BodyFits(req.source, length)
      BY <2>3, <3>1, <3>5, LimitFits
    <3>7. Met("body_limit", rq) /\ \A m : Met(m, req) => Met(m, rq)
      BY <3>2, <3>6 DEF Met
    <3> QED
      BY <3>0, <3>1, <3>2, <3>7, AtPlace, PassStep
  <2> QED
    BY <2>2, <2>3
<1>10. CASE Rewrite
  <2> DEFINE r == Rewritten(req.path)
             rq == [req EXCEPT !.path = r.path]
  <2>0. /\ At("rewrite")
        /\ CASE r.does = "fail" -> Answer(Error(500))
             [] r.does = "redirect" -> Answer([resp EXCEPT !.status = 302])
             [] r.does = "permanent" -> Answer([resp EXCEPT !.status = 301])
             [] OTHER -> Pass(rq, resp)
    BY <1>10 DEF Rewrite
  <2> HIDE DEF r
  <2>1. \/ Answer(Error(500)) \/ Answer([resp EXCEPT !.status = 302])
        \/ Answer([resp EXCEPT !.status = 301]) \/ Pass(rq, resp)
    BY <2>0
  <2>2. CASE Pass(rq, resp)
    <3>1. /\ IsRequest(rq) /\ rq.source = req.source /\ rq.client = req.client
          /\ rq.tls = req.tls /\ rq.user = req.user /\ rq.vouched = req.vouched
          /\ rq.length = req.length /\ rq.origin = req.origin
      <4>1. "path" \in RequestFields /\ rq = WithField(req, "path", r.path)
        BY DEF RequestFields, WithField
      <4> HIDE DEF rq
      <4>2. IsRequest(rq) /\ \A f \in RequestFields \ {"path"} : rq[f] = req[f]
        BY <1>r, <4>1, FieldSet
      <4> QED
        BY <4>2 DEF RequestFields
    <3> HIDE DEF rq
    <3>2. Met("rewrite", rq) /\ \A m : Met(m, req) => Met(m, rq)
      BY <3>1 DEF Met
    <3> QED
      BY <2>0, <2>2, <3>1, <3>2, AtPlace, PassStep
  <2> QED
    BY <2>1, <2>2, AnswerStep
<1>11. CASE CORS
  <2>1. CASE req.origin = "preflight"
    BY <1>11, <2>1, AnswerStep DEF CORS
  <2>2. CASE req.origin # "preflight"
    <3>1. At("cors") /\ Pass(req, resp) /\ Met("cors", req)
      BY <1>11, <2>2 DEF CORS, Met
    <3> QED
      BY <3>1, PassAsIs
  <2> QED
    BY <2>1, <2>2
<1>12. CASE RunScript
  <2> DEFINE rq == [req EXCEPT !.ran = Append(@, chain[pos][2])]
  <2>0. At("script")
    BY <1>12 DEF RunScript
  <2>1. \/ Pass(rq, resp) \/ Pass(rq, Error(500)) \/ Answer(Error(500))
        \/ \E status \in {200, 302, 403} : Answer([resp EXCEPT !.status = status])
    BY <1>12 DEF RunScript
  <2>2. ASSUME NEW rs, Pass(rq, rs) PROVE PipeInv'
    <3>1. "ran" \in RequestFields /\ rq = WithField(req, "ran", Append(req.ran, chain[pos][2]))
      BY <1>r DEF IsRequest, RequestFields, WithField
    <3>2. /\ IsRequest(rq) /\ rq.source = req.source /\ rq.path = req.path /\ rq.client = req.client
          /\ rq.tls = req.tls /\ rq.user = req.user /\ rq.vouched = req.vouched
          /\ rq.length = req.length /\ rq.origin = req.origin
      <4> HIDE DEF rq
      <4>2. IsRequest(rq) /\ \A f \in RequestFields \ {"ran"} : rq[f] = req[f]
        BY <1>r, <3>1, FieldSet
      <4> QED
        BY <4>2 DEF RequestFields
    <3> HIDE DEF rq
    <3>3. Met("script", rq) /\ \A m : Met(m, req) => Met(m, rq)
      BY <3>2 DEF Met
    <3> QED
      BY <2>0, <2>2, <3>2, <3>3, AtPlace, PassStep
  <2> HIDE DEF rq
  <2> QED
    BY <2>1, <2>2, AnswerStep
<1>13. CASE Handle
  BY <1>13, AnswerStep, ZenonT(60) DEF Handle
<1>16. CASE HandleLua
  <2>1. PICK rs : GoBack(rs)
    BY <1>16 DEF HandleLua
  <2>2. chain' = chain /\ way' # "in" /\ req' = req
    BY <2>1 DEF GoBack
  <2> QED
    BY <2>2, <1>r, OutStep
<1>14. CASE Leave
  BY <1>14, <1>r, OutStep DEF Leave
<1>15. CASE Send
  <2>1. IsRequest(NoRequest)
    BY DEF NoRequest, IsRequest, RequestFields
  <2> QED
    BY <1>15, <2>1, OutStep DEF Send
<1> QED
  BY <1>1, <1>2, <1>3, <1>4, <1>5, <1>6, <1>7, <1>8, <1>9, <1>10, <1>11, <1>12, <1>13, <1>14, <1>15, <1>16 DEF PipeNext

\* Whatever is configured and wherever the rules send a request, what reaches a
\* handler has passed every guard of the server, and its body is within the limit
\* of the path that was asked for (middleware_builder.go:40-184).
THEOREM PipelineGuardsPassed == PipeSpec => []GuardsPassed
<1>1. PipeInv => GuardsPassed
  <2> SUFFICES ASSUME PipeInv, Handling PROVE GuardsPassed
    BY DEF GuardsPassed
  <2>1. Len(chain) \in Nat /\ DOMAIN chain = 1..Len(chain) /\ way = "in" /\ pos = Len(chain) + 1
    BY DEF PipeInv, ChainShape, Handling
  <2>2. \A i \in 1..Len(chain) : Met(chain[i][1], req)
    BY <2>1 DEF PipeInv
  <2>3. \A m : Has(m) => Met(m, req)
    BY <2>1, <2>2 DEF Has
  <2>4. Met("body_limit", req)
    BY <2>2 DEF PipeInv, ChainShape
  <2>5. BodyFits(req.source, req.length)
    BY <2>4 DEF Met
  <2>6. Has("access") => req.client \in Addresses /\ Admitted(req.client)
    BY <2>3 DEF Met
  <2>7. Has("basic_auth") => req.tls /\ req.user = "known"
    BY <2>3 DEF Met
  <2>8. Has("auth_request") => req.vouched \in 200..299
    BY <2>3 DEF Met
  <2>9. Has("cors") => req.origin # "preflight"
    BY <2>3 DEF Met
  <2> QED
    BY <2>5, <2>6, <2>7, <2>8, <2>9 DEF GuardsPassed, BodyFits
<1> QED
  BY <1>1, PipeInitInv, PipeStep, PTL DEF PipeSpec

-----------------------------------------------------------------------------
(* Rewriting: what the walk through the rules ends with *)

RulePaths == RequestPaths \cup {Rules[i].to : i \in DOMAIN Rules}
Applying(p) == {i \in DOMAIN Rules : p \in Rules[i].from}

First(p) == Rules[Min(Applying(p))]

\* No rule applies to a path any more, or a "break" has put it there.
Settled(p) ==
  \/ Applying(p) = {}
  \/ \E i \in DOMAIN Rules : Rules[i].flag = "break" /\ Rules[i].to = p

\* What the walk h does with a path when left rewrites are left, and the equation
\* of the walk with up to n rewrites.
Walked(h, left) ==
  [p \in RulePaths |->
     LET fits == {i \in DOMAIN Rules : p \in Rules[i].from}
         rule == Rules[Min(fits)]
     IN IF Rules # <<>> /\ left = 0 THEN [does |-> "fail", path |-> p]
        ELSE IF fits = {} THEN [does |-> "next", path |-> p]
        ELSE IF rule.flag = "last" THEN h[left - 1][rule.to]
        ELSE [does |-> IF rule.flag = "break" THEN "next" ELSE rule.flag,
              path |-> rule.to]]

Walks(h, n) == h = [left \in 0..n |-> Walked(h, left)]

\* The rule that applies first.
LEMMA FirstRule ==
  ASSUME NEW p, Applying(p) # {}
  PROVE  /\ Min(Applying(p)) \in DOMAIN Rules
         /\ First(p).to \in RulePaths
         /\ First(p).flag \in {"last", "break", "redirect", "permanent"}
<1>1. Rules \in Seq([from : SUBSET Seq(Nat), to : Seq(Nat),
                     flag : {"last", "break", "redirect", "permanent"}])
  BY PipeAssumption
<1>2. DOMAIN Rules = 1..Len(Rules) /\ Len(Rules) \in Nat
  BY <1>1
<1>3. Applying(p) \in SUBSET (1..Len(Rules))
  BY <1>2 DEF Applying
<1> DEFINE k == Min(Applying(p))
<1>4. k \in Applying(p)
  BY <1>2, <1>3, FirstPosition
<1> HIDE DEF k
<1>5. k \in 1..Len(Rules)
  BY <1>3, <1>4
<1>6. Rules[k] \in [from : SUBSET Seq(Nat), to : Seq(Nat),
                    flag : {"last", "break", "redirect", "permanent"}]
  BY <1>1, <1>5, ElementOfSeq
<1>7. k \in DOMAIN Rules /\ Rules[k].to \in RulePaths
  BY <1>2, <1>5 DEF RulePaths
<1>8. Rules[k].flag \in {"last", "break", "redirect", "permanent"}
  BY <1>6
<1> QED
  BY <1>7, <1>8 DEF k, First

\* Nothing is rewritten without rules.
LEMMA NoRules == ASSUME NEW p, Rules = <<>> PROVE Applying(p) = {}
  BY DEF Applying

\* What is done with a path, case by case.
LEMMA WalkFails ==
  ASSUME NEW h, NEW left \in Nat, NEW p \in RulePaths, Rules # <<>>, left = 0
  PROVE  Walked(h, left)[p] = [does |-> "fail", path |-> p]
BY Zenon DEF Walked

LEMMA WalkStops ==
  ASSUME NEW h, NEW left \in Nat, NEW p \in RulePaths, Rules = <<>> \/ left # 0, Applying(p) = {}
  PROVE  Walked(h, left)[p] = [does |-> "next", path |-> p]
BY Zenon DEF Walked, Applying

LEMMA WalkGoesOn ==
  ASSUME NEW h, NEW left \in Nat, NEW p \in RulePaths, Rules = <<>> \/ left # 0,
         Applying(p) # {}, First(p).flag = "last"
  PROVE  Walked(h, left)[p] = h[left - 1][First(p).to]
BY Zenon DEF Walked, Applying, First

LEMMA WalkTurns ==
  ASSUME NEW h, NEW left \in Nat, NEW p \in RulePaths, Rules = <<>> \/ left # 0,
         Applying(p) # {}, First(p).flag # "last"
  PROVE  Walked(h, left)[p] = [does |-> IF First(p).flag = "break" THEN "next" ELSE First(p).flag,
                               path |-> First(p).to]
BY Zenon DEF Walked, Applying, First

\* The walk goes on with one rewrite less only.
LEMMA WalkedSame ==
  ASSUME NEW g, NEW h, NEW left \in Nat, left = 0 \/ g[left - 1] = h[left - 1]
  PROVE  Walked(g, left) = Walked(h, left)
<1>1. ASSUME NEW p \in RulePaths PROVE Walked(g, left)[p] = Walked(h, left)[p]
  <2>1. CASE Rules # <<>> /\ left = 0
    <3>1. Walked(g, left)[p] = [does |-> "fail", path |-> p]
      BY <2>1, WalkFails
    <3>2. Walked(h, left)[p] = [does |-> "fail", path |-> p]
      BY <2>1, WalkFails
    <3> QED
      BY <3>1, <3>2, Zenon
  <2>2. CASE (Rules = <<>> \/ left # 0) /\ Applying(p) = {}
    <3>1. Walked(g, left)[p] = [does |-> "next", path |-> p]
      BY <2>2, WalkStops
    <3>2. Walked(h, left)[p] = [does |-> "next", path |-> p]
      BY <2>2, WalkStops
    <3> QED
      BY <3>1, <3>2, Zenon
  <2>3. CASE (Rules = <<>> \/ left # 0) /\ Applying(p) # {}
    <3>1. g[left - 1] = h[left - 1]
      BY <2>3, NoRules
    <3>2. CASE First(p).flag = "last"
      <4>1. Walked(g, left)[p] = g[left - 1][First(p).to]
        BY <2>3, <3>2, WalkGoesOn
      <4>2. Walked(h, left)[p] = h[left - 1][First(p).to]
        BY <2>3, <3>2, WalkGoesOn
      <4> QED
        BY <3>1, <4>1, <4>2, Zenon
    <3>3. CASE First(p).flag # "last"
      BY <2>3, <3>3, WalkTurns
    <3> QED
      BY <3>2, <3>3
  <2> QED
    BY <2>1, <2>2, <2>3
<1>2. /\ Walked(g, left) = [p \in RulePaths |-> Walked(g, left)[p]]
      /\ Walked(h, left) = [p \in RulePaths |-> Walked(h, left)[p]]
  BY DEF Walked
<1> QED
  BY <1>1, <1>2, Zenon

\* There is a walk, however many rewrites are allowed.
LEMMA WalkExists == ASSUME NEW n \in Nat PROVE \E h : Walks(h, n)
<1> DEFINE V == {m \in Nat : ~\E h : Walks(h, m)}
<1>1. SUFFICES ASSUME V # {} PROVE FALSE
  OBVIOUS
<1>2. PICK m \in V : \A v \in V : m <= v
  BY <1>1, LeastNumber
<1>3. CASE m = 0
  <2> DEFINE h == [left \in 0..0 |-> Walked(<<>>, left)]
             g == [left \in 0..0 |-> Walked(h, left)]
  <2>1. Walked(h, 0) = Walked(<<>>, 0)
    BY WalkedSame
  <2>2. ASSUME NEW left \in 0..0 PROVE Walked(<<>>, left) = Walked(h, left)
    <3>1. left = 0
      OBVIOUS
    <3> HIDE DEF h
    <3> QED
      BY <2>1, <3>1, Zenon
  <2>3. h = g
    <3>1. \A k : (\A left \in 0..0 : Walked(<<>>, left) = Walked(k, left)) =>
             [left \in 0..0 |-> Walked(<<>>, left)] = [left \in 0..0 |-> Walked(k, left)]
      OBVIOUS
    <3> QED
      BY <2>2, <3>1
  <2>4. Walks(h, 0)
    <3> HIDE DEF h
    <3> QED
      BY <2>3 DEF Walks
  <2> QED
    BY <1>2, <1>3, <2>4
<1>4. CASE m # 0
  <2>1. m \in Nat /\ m - 1 \in Nat /\ ~(m <= m - 1)
    BY <1>2, <1>4
  <2>2. PICK f : Walks(f, m - 1)
    BY <1>2, <2>1
  <2> DEFINE h == [left \in 0..m |-> Walked(f, left)]
             g == [left \in 0..m |-> Walked(h, left)]
  <2>3. ASSUME NEW left \in 0..(m - 1) PROVE f[left] = Walked(f, left)
    BY <2>2 DEF Walks
  <2>4. ASSUME NEW left \in 0..m PROVE Walked(f, left) = Walked(h, left)
    <3>1. left = 0 \/ left - 1 \in 0..(m - 1)
      BY <2>1
    <3>2. CASE left - 1 \in 0..(m - 1)
      <4>1. left - 1 \in 0..m
        BY <2>1, <3>2
      <4>2. h[left - 1] = Walked(f, left - 1)
        BY <4>1
      <4> HIDE DEF h
      <4>3. h[left - 1] = f[left - 1]
        BY <2>3, <3>2, <4>2
      <4> QED
        BY <4>3, WalkedSame
    <3>3. CASE left = 0
      <4> HIDE DEF h
      <4> QED
        BY <3>3, WalkedSame
    <3> QED
      BY <3>1, <3>2, <3>3
  <2>5. h = g
    BY <2>4, Zenon
  <2>6. Walks(h, m)
    <3> HIDE DEF h
    <3> QED
      BY <2>5 DEF Walks
  <2> QED
    BY <1>2, <2>6
<1> QED
  BY <1>3, <1>4

\* What a walk may end with.
Ended(w) ==
  /\ w.does \in {"next", "fail", "redirect", "permanent"} /\ w.path \in RulePaths
  /\ w.does = "next" => Settled(w.path)

\* A walk lets no path on that is not settled.
LEMMA WalkEnds ==
  ASSUME NEW n \in Nat, NEW h, Walks(h, n)
  PROVE  \A left \in 0..n, p \in RulePaths : Ended(h[left][p])
<1> DEFINE V == {left \in Nat : left <= n /\ \E p \in RulePaths : ~Ended(h[left][p])}
<1>1. SUFFICES ASSUME V # {} PROVE FALSE
  OBVIOUS
<1>2. PICK left \in V : \A v \in V : left <= v
  BY <1>1, LeastNumber
<1>3. PICK p \in RulePaths : ~Ended(h[left][p])
  BY <1>2
<1>4. left \in 0..n /\ left \in Nat /\ left <= n
  BY <1>2
<1>5. h[left] = Walked(h, left)
  BY <1>4 DEF Walks
<1>6. CASE Rules # <<>> /\ left = 0
  <2>1. h[left][p] = [does |-> "fail", path |-> p]
    BY <1>5, <1>6, WalkFails
  <2> QED
    BY <1>3, <2>1 DEF Ended
<1>7. CASE (Rules = <<>> \/ left # 0) /\ Applying(p) = {}
  <2>1. h[left][p] = [does |-> "next", path |-> p]
    BY <1>5, <1>7, WalkStops
  <2> QED
    BY <1>3, <1>7, <2>1 DEF Ended, Settled
<1>8. CASE (Rules = <<>> \/ left # 0) /\ Applying(p) # {}
  <2>1. /\ Min(Applying(p)) \in DOMAIN Rules /\ First(p).to \in RulePaths
        /\ First(p).flag \in {"last", "break", "redirect", "permanent"}
    BY <1>8, FirstRule
  <2>2. CASE First(p).flag = "last"
    <3>1. h[left][p] = h[left - 1][First(p).to]
      BY <1>5, <1>8, <2>2, WalkGoesOn
    <3>2. left - 1 \in Nat /\ left - 1 <= n /\ ~(left <= left - 1)
      BY <1>4, <1>8, NoRules
    <3>3. left - 1 \notin V
      <4> HIDE DEF V
      <4> QED
        BY <1>2, <3>2
    <3>4. Ended(h[left - 1][First(p).to])
      <4> QED
        BY <2>1, <3>2, <3>3
    <3> QED
      BY <1>3, <3>1, <3>4, Zenon
  <2>3. CASE First(p).flag # "last"
    <3> DEFINE w == [does |-> IF First(p).flag = "break" THEN "next" ELSE First(p).flag, path |-> First(p).to]
    <3>1. h[left][p] = w
      BY <1>5, <1>8, <2>3, WalkTurns
    <3>2. First(p).flag = "break" => Settled(First(p).to)
      BY <2>1, Zenon DEF Settled, First
    <3>3. Ended(w)
      <4> QED
        BY <2>1, <2>3, <3>2 DEF Ended
    <3> HIDE DEF w
    <3> QED
      BY <1>3, <3>1, <3>3, Zenon
  <2> QED
    BY <2>2, <2>3
<1> QED
  BY <1>6, <1>7, <1>8

\* rewrite.Process: what a request goes on with is settled.
LEMMA RewrittenSettled ==
  ASSUME NEW path \in RulePaths PROVE Ended(Rewritten(path))
<1> DEFINE walk == CHOOSE h : Walks(h, MaxRewriteIterations)
<1>1. Rewritten(path) = walk[MaxRewriteIterations][path]
  BY Zenon DEF Rewritten, Walks, Walked, RulePaths
<1>2. MaxRewriteIterations \in Nat
  BY PipeAssumption
<1>3. Walks(walk, MaxRewriteIterations)
  BY <1>2, WalkExists
<1> HIDE DEF walk
<1>4. \A left \in 0..MaxRewriteIterations, p \in RulePaths : Ended(walk[left][p])
  BY <1>2, <1>3, WalkEnds
<1>5. MaxRewriteIterations \in 0..MaxRewriteIterations
  BY <1>2
<1> QED
  BY <1>1, <1>4, <1>5

-----------------------------------------------------------------------------
(* Answers on their way through the chain *)

\* Where a middleware stands: first what guards, then what rewrites and compresses,
\* the headers, and last what makes answers of its own.
Rank(m) ==
  CASE m \in {"rewrite", "compression"} -> 2
    [] m = "headers" -> 3
    [] m \in {"cors", "error_intercept", "script"} -> 4
    [] OTHER -> 1

Ranked(s) == \A i, j \in 1..Len(s) : i <= j => Rank(s[i][1]) <= Rank(s[j][1])

Sendable == [status : Nat, id : BOOLEAN, body : {"plain", "packed"}, encoded : BOOLEAN,
              worth : BOOLEAN, secure : BOOLEAN, cors : BOOLEAN, page : BOOLEAN]

Coherent(rs) == (rs.encoded <=> rs.body = "packed") \/ (rs.page /\ rs.encoded)
Untouched(rs) == ~rs.secure /\ ~rs.page /\ ~rs.cors /\ ~rs.encoded

\* On the way in nothing has touched the answer, the path is settled once it has been
\* rewritten, and a script has run only where scripts stand.
WayIn(s, p, rq, rs) ==
  /\ Untouched(rs) /\ rs.body = "plain" /\ rq.path \in RulePaths
  /\ \A i \in 1..Len(s) : i < p /\ s[i][1] = "rewrite" => Settled(rq.path)
  /\ rq.ran # <<>> => \E i \in 1..Len(s) : i < p /\ Rank(s[i][1]) = 4

\* The request is past all guards, or nothing but guards is left on its way.
PastGuards(s, rq) == \A i \in 1..Len(s) : Rank(s[i][1]) = 1 => Met(s[i][1], rq)
AmongGuards(s, p) == \A i \in 1..Len(s) : i <= p => Rank(s[i][1]) = 1

\* On the way out an answer is whole; it is touched only behind all guards, and
\* what comes from behind the headers has them once it has passed them.
WayOut(s, p, rq, rs) ==
  /\ p \in 0..Len(s) /\ Coherent(rs)
  /\ rs.cors => rq.origin \in {"cross", "preflight"}
  /\ PastGuards(s, rq) \/ (Untouched(rs) /\ AmongGuards(s, p))
  /\ rs.page \/ rs.cors \/ rq.ran # <<>> =>
       \A i \in 1..Len(s) : s[i][1] = "headers" => i <= p \/ rs.secure

AnswerInv ==
  /\ Ranked(chain) /\ resp \in Sendable
  /\ way = "in" => WayIn(chain, pos, req, resp)
  /\ way = "out" => WayOut(chain, pos, req, resp)

LEMMA RankValues == \A m : Rank(m) \in {1, 2, 3, 4}
BY DEF Rank

\* The elements of the ranks from lo to hi, and lists of them in the order of rank.
Standing(lo, hi) == {e \in Elements : lo <= Rank(e[1]) /\ Rank(e[1]) <= hi}
Stacked(s, lo, hi) == s \in Seq(Standing(lo, hi)) /\ Ranked(s)

LEMMA StandingAt ==
  ASSUME NEW m, NEW x, <<m, x>> \in Elements
  PROVE  <<m, x>> \in Standing(Rank(m), Rank(m))
<1> DEFINE e == <<m, x>>
<1>1. e[1] = m /\ e \in Elements
  OBVIOUS
<1> HIDE DEF e
<1>2. Rank(m) <= Rank(m)
  BY RankValues
<1>3. e \in Standing(Rank(m), Rank(m))
  BY <1>1, <1>2, Zenon DEF Standing
<1> QED
  BY <1>3 DEF e

LEMMA StackedJoin ==
  ASSUME NEW a \in Nat, NEW b \in Nat, NEW c \in Nat, NEW d \in Nat, a <= b, b <= c, c <= d,
         NEW s, Stacked(s, a, b), NEW t, Stacked(t, c, d)
  PROVE  Stacked(s \o t, a, d)
<1> DEFINE u == s \o t
<1>1. Standing(a, b) \subseteq Standing(a, d) /\ Standing(c, d) \subseteq Standing(a, d)
  BY RankValues DEF Standing
<1>2. s \in Seq(Standing(a, d)) /\ t \in Seq(Standing(a, d))
  BY <1>1 DEF Stacked
<1>3. /\ u \in Seq(Standing(a, d)) /\ Len(u) = Len(s) + Len(t)
      /\ \A i \in 1..(Len(s) + Len(t)) : u[i] = IF i <= Len(s) THEN s[i] ELSE t[i - Len(s)]
  BY <1>2, ConcatProperties
<1>4. Len(s) \in Nat /\ Len(t) \in Nat
  BY <1>2
<1>5. \A i \in 1..Len(s) : Rank(s[i][1]) <= b
  BY ElementOfSeq DEF Stacked, Standing
<1>6. \A i \in 1..Len(t) : c <= Rank(t[i][1])
  BY ElementOfSeq DEF Stacked, Standing
<1> HIDE DEF u
<1>7. ASSUME NEW i \in 1..Len(u), NEW j \in 1..Len(u), i <= j
      PROVE  Rank(u[i][1]) <= Rank(u[j][1])
  <2>1. CASE j <= Len(s)
    <3>1. i \in 1..Len(s) /\ j \in 1..Len(s) /\ u[i] = s[i] /\ u[j] = s[j]
      BY <1>3, <1>4, <1>7, <2>1
    <3> QED
      BY <1>7, <3>1 DEF Stacked, Ranked
  <2>2. CASE i <= Len(s) /\ ~(j <= Len(s))
    <3>1. i \in 1..Len(s) /\ j - Len(s) \in 1..Len(t) /\ u[i] = s[i] /\ u[j] = t[j - Len(s)]
      BY <1>3, <1>4, <1>7, <2>2
    <3>2. Rank(u[i][1]) <= b /\ c <= Rank(u[j][1])
      BY <1>5, <1>6, <3>1
    <3> QED
      BY <3>2, RankValues
  <2>3. CASE ~(i <= Len(s))
    <3>1. /\ i - Len(s) \in 1..Len(t) /\ j - Len(s) \in 1..Len(t) /\ i - Len(s) <= j - Len(s)
          /\ u[i] = t[i - Len(s)] /\ u[j] = t[j - Len(s)]
      <4>1. i \in Nat /\ j \in Nat /\ i <= j /\ i > Len(s) /\ j > Len(s) /\ j <= Len(s) + Len(t)
        BY <1>3, <1>4, <1>7, <2>3
      <4>2. /\ i - Len(s) \in 1..Len(t) /\ j - Len(s) \in 1..Len(t) /\ i - Len(s) <= j - Len(s)
            /\ i \in 1..(Len(s) + Len(t)) /\ j \in 1..(Len(s) + Len(t))
            /\ ~(i <= Len(s)) /\ ~(j <= Len(s))
        BY ONLY <1>4, <4>1
      <4> QED
        BY <1>3, <4>2
    <3> QED
      BY <3>1 DEF Stacked, Ranked
  <2> QED
    BY <2>1, <2>2, <2>3
<1> QED
  BY <1>3, <1>7 DEF Stacked, Ranked, u

LEMMA OneRank ==
  ASSUME NEW r \in {1, 2, 3, 4}, NEW s \in Seq(Standing(r, r))
  PROVE  Stacked(s, r, r)
<1>1. \A i \in 1..Len(s) : Rank(s[i][1]) = r
  <2>1. \A e \in Standing(r, r) : Rank(e[1]) = r
    BY RankValues DEF Standing
  <2> QED
    BY <2>1, ElementOfSeq
<1> QED
  BY <1>1 DEF Stacked, Ranked

LEMMA OptionalStacked ==
  ASSUME NEW on, NEW m, <<m, "">> \in Elements
  PROVE  Stacked(Optional(m, on), Rank(m), Rank(m))
<1> DEFINE r == Rank(m)
<1>1. r \in {1, 2, 3, 4}
  BY RankValues
<1>2. <<m, "">> \in Standing(r, r)
  BY StandingAt
<1>3. Optional(m, on) \in Seq(Standing(r, r))
  BY <1>2, OptionalElement, Zenon
<1> HIDE DEF r
<1>4. Stacked(Optional(m, on), r, r)
  BY <1>1, <1>3, OneRank
<1> QED
  BY <1>4 DEF r

\* buildMiddlewareChain puts them in this order.
LEMMA ChainsRanked == ASSUME chain \in Chains PROVE Ranked(chain)
<1>1. PICK on \in Setups, luas \in SetToSeqs(Scripts) : chain = ChainOf(on, luas)
  BY DEF Chains
<1>2. \A m \in {"request_id", "access_log", "access", "rate_limit", "conn_limit", "basic_auth",
                "auth_request", "body_limit", "rewrite", "compression", "headers", "cors",
                "error_intercept"} : <<m, "">> \in Elements
  BY DEF Elements
<1>3. /\ \A m \in {"request_id", "access_log", "access", "rate_limit", "conn_limit", "basic_auth",
                   "auth_request", "body_limit"} : Rank(m) = 1
      /\ Rank("rewrite") = 2 /\ Rank("compression") = 2 /\ Rank("headers") = 3
      /\ Rank("cors") = 4 /\ Rank("error_intercept") = 4 /\ Rank("script") = 4
  BY DEF Rank
<1>4. \A m \in {"access", "rate_limit", "conn_limit", "basic_auth", "auth_request"} :
        Stacked(Optional(m, on), 1, 1)
  <2> TAKE m \in {"access", "rate_limit", "conn_limit", "basic_auth", "auth_request"}
  <2>1. <<m, "">> \in Elements /\ Rank(m) = 1
    BY <1>2, <1>3
  <2>2. Stacked(Optional(m, on), Rank(m), Rank(m))
    BY <2>1, OptionalStacked
  <2> QED
    BY <2>1, <2>2
<1>5. /\ Stacked(Optional("rewrite", on), 2, 2) /\ Stacked(Optional("compression", on), 2, 2)
      /\ Stacked(Optional("headers", on), 3, 3)
      /\ Stacked(Optional("cors", on), 4, 4) /\ Stacked(Optional("error_intercept", on), 4, 4)
  <2>1. /\ <<"rewrite", "">> \in Elements /\ <<"compression", "">> \in Elements
        /\ <<"headers", "">> \in Elements /\ <<"cors", "">> \in Elements
        /\ <<"error_intercept", "">> \in Elements
    BY <1>2
  <2>2. /\ Stacked(Optional("rewrite", on), Rank("rewrite"), Rank("rewrite"))
        /\ Stacked(Optional("compression", on), Rank("compression"), Rank("compression"))
        /\ Stacked(Optional("headers", on), Rank("headers"), Rank("headers"))
        /\ Stacked(Optional("cors", on), Rank("cors"), Rank("cors"))
        /\ Stacked(Optional("error_intercept", on), Rank("error_intercept"), Rank("error_intercept"))
    BY <2>1, OptionalStacked, Zenon
  <2> QED
    BY <1>3, <2>2, Zenon
<1>6. \A s, t, a, b, c, d : Stacked(s, a, b) /\ Stacked(t, c, d)
        /\ a \in {1, 2, 3, 4} /\ b \in {1, 2, 3, 4} /\ c \in {1, 2, 3, 4} /\ d \in {1, 2, 3, 4}
        /\ a <= b /\ b <= c /\ c <= d => Stacked(s \o t, a, d)
  <2>1. {1, 2, 3, 4} \subseteq Nat
    OBVIOUS
  <2> QED
    BY <2>1, StackedJoin
<1>7. \A s, t : Stacked(s, 1, 1) /\ Stacked(t, 1, 1) => Stacked(s \o t, 1, 1)
  BY <1>6
<1>8. Stacked(Guards(on), 1, 1)
  <2>1. Stacked(<<<<"request_id", "">>, <<"access_log", "">>>>, 1, 1)
    <3>1. <<"request_id", "">> \in Standing(1, 1) /\ <<"access_log", "">> \in Standing(1, 1)
      <4>1. /\ <<"request_id", "">> \in Elements /\ <<"access_log", "">> \in Elements
            /\ Rank("request_id") = 1 /\ Rank("access_log") = 1
        BY <1>2, <1>3
      <4> QED
        BY ONLY <4>1, StandingAt
    <3>2. <<<<"request_id", "">>, <<"access_log", "">>>> \in Seq(Standing(1, 1))
      BY <3>1, FewElements, Zenon
    <3> QED
      BY <3>2, OneRank
  <2> QED
    BY <1>4, <1>7, <2>1, Zenon DEF Guards
<1>9. Stacked(<<<<"body_limit", "">>>>, 1, 1)
  <2>1. <<"body_limit", "">> \in Standing(1, 1)
    <3>1. <<"body_limit", "">> \in Elements /\ Rank("body_limit") = 1
      BY <1>2, <1>3
    <3> QED
      BY ONLY <3>1, StandingAt
  <2>2. <<<<"body_limit", "">>>> \in Seq(Standing(1, 1))
    BY <2>1, FewElements, Zenon
  <2> QED
    BY <2>2, OneRank
<1>10. Stacked(Filters(on), 2, 4)
  <2> DEFINE a == Optional("rewrite", on) \o Optional("compression", on)
             b == a \o Optional("headers", on)
             c == b \o Optional("cors", on)
             d == c \o Optional("error_intercept", on)
  <2>1. Stacked(a, 2, 2)
    BY <1>5, <1>6
  <2> HIDE DEF a
  <2>2. Stacked(b, 2, 3)
    BY <1>5, <1>6, <2>1
  <2> HIDE DEF b
  <2>3. Stacked(c, 2, 4)
    BY <1>5, <1>6, <2>2
  <2> HIDE DEF c
  <2>4. Stacked(d, 2, 4)
    BY <1>5, <1>6, <2>3
  <2> QED
    BY <2>4 DEF Filters, a, b, c
<1>11. Stacked(IF "lua" \in on THEN luas ELSE <<>>, 4, 4)
  <2>1. Scripts \subseteq Standing(4, 4)
    <3>1. \A p \in ScriptPhases : <<"script", p>> \in Elements /\ Rank(<<"script", p>>[1]) = 4
      BY <1>3 DEF Elements, Scripts
    <3> QED
      BY <3>1 DEF Scripts, Standing
  <2>2. luas \in Seq(Scripts)
    BY ScriptsListed
  <2>3. (IF "lua" \in on THEN luas ELSE <<>>) \in Seq(Standing(4, 4))
    BY <2>1, <2>2
  <2> QED
    BY <2>3, OneRank
<1>12. Stacked(Guards(on) \o <<<<"body_limit", "">>>>, 1, 1)
  BY <1>7, <1>8, <1>9
<1>13. Stacked(Filters(on) \o (IF "lua" \in on THEN luas ELSE <<>>), 2, 4)
  BY <1>6, <1>10, <1>11
<1>14. Stacked(ChainOf(on, luas), 1, 4)
  <2> DEFINE g == Guards(on) \o <<<<"body_limit", "">>>>
             f == Filters(on) \o (IF "lua" \in on THEN luas ELSE <<>>)
  <2>1. ChainOf(on, luas) = g \o f
    BY DEF ChainOf
  <2> HIDE DEF g, f
  <2>2. Stacked(g \o f, 1, 4)
    <3>1. Stacked(g, 1, 1)
      BY <1>12, Zenon DEF g
    <3>2. Stacked(f, 2, 4)
      BY <1>13, Zenon DEF f
    <3> QED
      BY <1>6, <3>1, <3>2
  <2> QED
    BY <2>1, <2>2
<1> QED
  BY <1>1, <1>14 DEF Stacked

\* Where a request and its answer may be.
LEMMA WayPlaces ==
  ASSUME PipeInv, AnswerInv, way = "in"
  PROVE  /\ Len(chain) \in Nat /\ pos \in 1..(Len(chain) + 1) /\ Ranked(chain)
         /\ WayIn(chain, pos, req, resp) /\ resp \in Sendable
         /\ \A i \in 1..Len(chain) : i < pos => Met(chain[i][1], req)
BY DEF PipeInv, ChainShape, AnswerInv

\* The chain turns a request back, or its handler answers it.
LEMMA TurnBack ==
  ASSUME PipeInv, AnswerInv, way = "in", NEW rs \in Sendable, GoBack(rs),
         Coherent(rs), rs.page => pos = Len(chain) + 1, ~rs.secure,
         rs.cors => pos <= Len(chain) /\ Rank(chain[pos][1]) = 4 /\ req.origin = "preflight",
         \/ Untouched(rs) \/ pos = Len(chain) + 1 \/ Rank(chain[pos][1]) # 1
  PROVE  AnswerInv'
<1>1. /\ Len(chain) \in Nat /\ pos \in 1..(Len(chain) + 1) /\ Ranked(chain)
      /\ WayIn(chain, pos, req, resp)
      /\ \A i \in 1..Len(chain) : i < pos => Met(chain[i][1], req)
  BY WayPlaces
<1>2. way' = "out" /\ resp' = rs /\ pos' = pos - 1 /\ chain' = chain /\ req' = req
  BY DEF GoBack
<1> DEFINE p == pos - 1
<1>3. p \in 0..Len(chain) /\ \A i \in Nat : i < pos => i <= p
  BY <1>1
<1>4. PastGuards(chain, req) \/ (Untouched(rs) /\ AmongGuards(chain, p))
  <2>1. CASE pos = Len(chain) + 1 \/ Rank(chain[pos][1]) # 1
    <3>1. ASSUME NEW i \in 1..Len(chain), Rank(chain[i][1]) = 1 PROVE i < pos
      <4>1. CASE pos = Len(chain) + 1
        BY <1>1, <4>1
      <4>2. CASE pos \in 1..Len(chain) /\ ~(i < pos)
        <5>1. pos <= i /\ Rank(chain[pos][1]) <= 1 /\ Rank(chain[pos][1]) # 1
          BY <1>1, <2>1, <3>1, <4>2 DEF Ranked
        <5> QED
          BY <5>1, RankValues
      <4> QED
        BY <1>1, <4>1, <4>2
    <3> QED
      BY <1>1, <3>1 DEF PastGuards
  <2>2. CASE ~(pos = Len(chain) + 1 \/ Rank(chain[pos][1]) # 1)
    <3>1. pos \in 1..Len(chain) /\ Rank(chain[pos][1]) = 1
      BY <1>1, <2>2
    <3>2. ASSUME NEW i \in 1..Len(chain), i <= p PROVE Rank(chain[i][1]) = 1
      <4>1. i <= pos
        BY <1>1, <3>2
      <4>2. Rank(chain[i][1]) <= 1
        BY <1>1, <3>1, <4>1 DEF Ranked
      <4> QED
        BY <4>2, RankValues
    <3> QED
      BY <2>2, <3>2 DEF AmongGuards
  <2> QED
    BY <2>1, <2>2
<1>5. ASSUME rs.page \/ rs.cors \/ req.ran # <<>>, NEW i \in 1..Len(chain), chain[i][1] = "headers"
      PROVE  i <= p
  <2>0. Rank(chain[i][1]) = 3
    BY <1>5 DEF Rank
  <2>1. \A j \in 1..Len(chain) : Rank(chain[j][1]) = 4 => i < j
    <3> SUFFICES ASSUME NEW j \in 1..Len(chain), Rank(chain[j][1]) = 4, ~(i < j) PROVE FALSE
      OBVIOUS
    <3>1. j <= i
      OBVIOUS
    <3>2. Rank(chain[j][1]) <= Rank(chain[i][1])
      BY <1>1, <3>1 DEF Ranked
    <3> QED
      BY <2>0, <3>2
  <2>2. CASE rs.cors
    <3>1. pos \in 1..Len(chain) /\ Rank(chain[pos][1]) = 4
      BY <1>1, <2>2
    <3>2. i < pos
      BY <2>1, <3>1
    <3> QED
      BY <1>3, <3>2
  <2>3. CASE req.ran # <<>>
    <3>1. PICK j \in 1..Len(chain) : j < pos /\ Rank(chain[j][1]) = 4
      BY <1>1, <2>3 DEF WayIn
    <3>2. i < j
      BY <2>1, <3>1
    <3> QED
      BY <1>1, <3>1, <3>2
  <2>4. CASE rs.page
    BY <1>1, <2>4
  <2> QED
    BY <1>5, <2>2, <2>3, <2>4
<1> HIDE DEF p
<1>6. WayOut(chain, p, req, rs)
  BY <1>3, <1>4, <1>5 DEF WayOut
<1>7. pos' = p
  BY <1>2 DEF p
<1> QED
  BY <1>1, <1>2, <1>6, <1>7 DEF AnswerInv

\* A middleware lets a request on.
LEMMA GoOn ==
  ASSUME PipeInv, AnswerInv, way = "in", pos <= Len(chain),
         NEW rq, NEW rs \in Sendable, Pass(rq, rs), Untouched(rs), rs.body = "plain",
         rq.path \in RulePaths,
         IF chain[pos][1] = "rewrite" THEN Settled(rq.path) ELSE rq.path = req.path,
         rq.ran = req.ran \/ Rank(chain[pos][1]) = 4
  PROVE  AnswerInv'
<1>1. /\ Len(chain) \in Nat /\ pos \in 1..(Len(chain) + 1) /\ Ranked(chain)
      /\ WayIn(chain, pos, req, resp)
  BY WayPlaces
<1>2. way' = "in" /\ resp' = rs /\ pos' = pos + 1 /\ chain' = chain /\ req' = rq
  BY DEF Pass
<1>3. pos \in 1..Len(chain) /\ \A i \in 1..Len(chain) : i < pos + 1 => i < pos \/ i = pos
  BY <1>1
<1>4. ASSUME NEW i \in 1..Len(chain), i < pos + 1, chain[i][1] = "rewrite" PROVE Settled(rq.path)
  BY <1>1, <1>3, <1>4 DEF WayIn
<1>5. ASSUME rq.ran # <<>> PROVE \E i \in 1..Len(chain) : i < pos + 1 /\ Rank(chain[i][1]) = 4
  <2>1. CASE Rank(chain[pos][1]) = 4
    BY <1>1, <1>3, <2>1
  <2>2. CASE rq.ran = req.ran
    <3>1. PICK i \in 1..Len(chain) : i < pos /\ Rank(chain[i][1]) = 4
      BY <1>1, <1>5, <2>2 DEF WayIn
    <3> QED
      BY <1>1, <3>1
  <2> QED
    BY <2>1, <2>2
<1> DEFINE p == pos + 1
<1> HIDE DEF p
<1>6. WayIn(chain, p, rq, rs)
  BY <1>4, <1>5 DEF WayIn, p
<1>7. pos' = p
  BY <1>2 DEF p
<1> QED
  BY <1>1, <1>2, <1>6, <1>7 DEF AnswerInv

\* What an error page leaves of an answer.
LEMMA InterceptedKeeps ==
  ASSUME NEW r \in Sendable, Coherent(r)
  PROVE  /\ Intercepted(r) \in Sendable /\ Coherent(Intercepted(r))
         /\ Intercepted(r).secure = r.secure /\ Intercepted(r).cors = r.cors
<1> DEFINE to == IF PageStatus > 0 THEN PageStatus ELSE r.status
           q == [r EXCEPT !.page = TRUE, !.body = "plain", !.worth = TRUE, !.status = to]
<1>1. Intercepted(r) = q \/ Intercepted(r) = r
  BY DEF Intercepted
<1>2. to \in Nat
  BY PipeAssumption DEF Sendable
<1> HIDE DEF to
<1>3. q \in Sendable /\ Coherent(q) /\ q.secure = r.secure /\ q.cors = r.cors
  BY <1>2 DEF Sendable, Coherent
<1> HIDE DEF q
<1> QED
  BY <1>1, <1>3

\* What a middleware makes of an answer on its way out.
LEMMA AfterKeeps ==
  ASSUME NEW m, NEW r \in Sendable, Coherent(r)
  PROVE  LET q == After(m, r) IN
         /\ q \in Sendable /\ Coherent(q)
         /\ r.secure => q.secure
         /\ m = "headers" => q.secure
         /\ m # "error_intercept" => q.page = r.page
         /\ m # "cors" => q.cors = r.cors
         /\ q.cors => r.cors \/ req.origin = "cross"
         /\ Rank(m) = 1 => q = r
<1>1. CASE m = "error_intercept"
  <2>1. After(m, r) = Intercepted(r) /\ Rank(m) = 4
    BY <1>1 DEF After, Rank
  <2> QED
    BY <1>1, <2>1, InterceptedKeeps
<1>2. CASE m = "cors"
  <2> DEFINE q == [r EXCEPT !.cors = TRUE]
  <2>1. After(m, r) = (IF req.origin = "cross" THEN q ELSE r) /\ Rank(m) = 4
    BY <1>2 DEF After, Rank
  <2>2. q \in Sendable /\ Coherent(q) /\ q.secure = r.secure /\ q.page = r.page
    BY DEF Sendable, Coherent
  <2> HIDE DEF q
  <2> QED
    BY <1>2, <2>1, <2>2
<1>3. CASE m = "headers"
  <2> DEFINE q == [r EXCEPT !.secure = TRUE]
  <2>1. After(m, r) = q /\ Rank(m) = 3
    BY <1>3 DEF After, Rank
  <2>2. q \in Sendable /\ Coherent(q) /\ q.secure /\ q.page = r.page /\ q.cors = r.cors
    BY DEF Sendable, Coherent
  <2> HIDE DEF q
  <2> QED
    BY <1>3, <2>1, <2>2
<1>4. CASE m = "compression"
  <2>1. After(m, r) = Compressed(r) /\ Rank(m) = 2
    BY <1>4 DEF After, Rank
  <2>2. LET q == Compressed(r) IN
        /\ q \in Sendable /\ Coherent(q) /\ q.secure = r.secure /\ q.page = r.page /\ q.cors = r.cors
    BY DEF Compressed, Sendable, Coherent
  <2> QED
    BY <1>4, <2>1, <2>2
<1>5. CASE m \notin {"error_intercept", "cors", "headers", "compression"}
  <2>1. After(m, r) = r
    BY <1>5 DEF After
  <2> QED
    BY <1>5, <2>1
<1> QED
  BY <1>1, <1>2, <1>3, <1>4, <1>5

\* An answer passes a middleware on its way out.
LEMMA LeaveWhole ==
  ASSUME PipeInv, AnswerInv, Leave
  PROVE  AnswerInv'
<1>1. /\ way = "out" /\ pos > 0 /\ way' = "out" /\ pos' = pos - 1 /\ chain' = chain /\ req' = req
      /\ resp' = After(chain[pos][1], resp)
  BY DEF Leave
<1>2. /\ WayOut(chain, pos, req, resp) /\ resp \in Sendable /\ Ranked(chain) /\ Len(chain) \in Nat
  BY <1>1 DEF AnswerInv, PipeInv, ChainShape
<1> DEFINE m == chain[pos][1]
           q == After(m, resp)
           p == pos - 1
<1>3. pos \in 1..Len(chain) /\ p \in 0..Len(chain) /\ \A i \in Nat : i <= p => i <= pos
  BY <1>1, <1>2 DEF WayOut
<1>4. /\ q \in Sendable /\ Coherent(q)
      /\ resp.secure => q.secure
      /\ m = "headers" => q.secure
      /\ m # "error_intercept" => q.page = resp.page
      /\ m # "cors" => q.cors = resp.cors
      /\ q.cors => resp.cors \/ req.origin = "cross"
      /\ Rank(m) = 1 => q = resp
  <2> HIDE DEF m
  <2>1. Coherent(resp)
    BY <1>2 DEF WayOut
  <2> QED
    BY <1>2, <2>1, AfterKeeps
<1> HIDE DEF q
<1>5. q.cors => req.origin \in {"cross", "preflight"}
  BY <1>2, <1>4 DEF WayOut
<1>6. PastGuards(chain, req) \/ (Untouched(q) /\ AmongGuards(chain, p))
  <2>1. CASE Untouched(resp) /\ AmongGuards(chain, pos)
    <3>1. Rank(m) = 1
      BY <1>3, <2>1 DEF AmongGuards
    <3>2. Untouched(q)
      BY <1>4, <2>1, <3>1
    <3>3. AmongGuards(chain, p)
      BY <1>3, <2>1 DEF AmongGuards
    <3> QED
      BY <3>2, <3>3
  <2> QED
    BY <1>2, <2>1 DEF WayOut
<1>7. ASSUME q.page \/ q.cors \/ req.ran # <<>>, NEW i \in 1..Len(chain), chain[i][1] = "headers"
      PROVE  i <= p \/ q.secure
  <2>1. CASE resp.page \/ resp.cors \/ req.ran # <<>>
    <3>1. i <= pos \/ resp.secure
      BY <1>2, <1>7, <2>1 DEF WayOut
    <3>2. i = pos => m = "headers"
      BY <1>7
    <3>3. i <= pos /\ i # pos => i <= p
      BY <1>3
    <3> QED
      BY <1>4, <3>1, <3>2, <3>3
  <2>2. CASE m \in {"error_intercept", "cors"}
    <3>1. Rank(m) = 4 /\ Rank(chain[i][1]) = 3
      BY <1>7, <2>2 DEF Rank
    <3>2. ~(pos <= i)
      <4> SUFFICES ASSUME pos <= i PROVE FALSE
        OBVIOUS
      <4>1. Rank(m) <= Rank(chain[i][1])
        BY <1>2, <1>3 DEF Ranked
      <4> QED
        BY <3>1, <4>1
    <3> QED
      BY <1>3, <3>2
  <2> HIDE DEF m
  <2> QED
    BY <1>4, <1>7, <2>1, <2>2
<1> HIDE DEF p, m
<1>8. WayOut(chain, p, req, q)
  BY <1>3, <1>4, <1>5, <1>6, <1>7 DEF WayOut
<1>9. pos' = p /\ resp' = q
  BY <1>1 DEF p, q, m
<1> QED
  BY <1>1, <1>2, <1>4, <1>8, <1>9 DEF AnswerInv

\* An answer nothing has worked on yet.
Fresh(rs) == rs \in Sendable /\ Untouched(rs) /\ rs.body = "plain"

LEMMA FreshStatus == ASSUME NEW r, Fresh(r), NEW s \in Nat PROVE Fresh([r EXCEPT !.status = s])
BY DEF Fresh, Sendable, Untouched

LEMMA FreshAnswers ==
  /\ Fresh(Blank)
  /\ \A s \in Nat : Fresh(Error(s))
  /\ \A r : Fresh(r) => Coherent(r)
<1>1. Fresh(Blank)
  BY DEF Fresh, Blank, Sendable, Untouched
<1>2. \A s \in Nat : Fresh(Error(s))
  BY <1>1, FreshStatus, Zenon DEF Error
<1>3. \A r : Fresh(r) => Coherent(r)
  BY DEF Fresh, Untouched, Coherent
<1> QED
  BY <1>1, <1>2, <1>3

LEMMA FreshID == ASSUME NEW r, Fresh(r) PROVE Fresh([r EXCEPT !.id = TRUE])
BY DEF Fresh, Sendable, Untouched

\* What answers a preflight.
LEMMA PreflightAnswer ==
  ASSUME NEW r, Fresh(r)
  PROVE  LET rs == [r EXCEPT !.status = 204, !.cors = TRUE]
         IN rs \in Sendable /\ Coherent(rs) /\ ~rs.page /\ ~rs.secure
<1> DEFINE rs == [r EXCEPT !.status = 204, !.cors = TRUE]
<1>1. r \in Sendable /\ r.body = "plain" /\ ~r.encoded /\ ~r.page /\ ~r.secure
  BY DEF Fresh, Untouched
<1>2. rs \in Sendable
  <2> DEFINE half == [r EXCEPT !.status = 204]
  <2>1. Fresh(half)
    BY FreshStatus
  <2>2. rs = [half EXCEPT !.cors = TRUE]
    OBVIOUS
  <2> HIDE DEF half, rs
  <2> QED
    BY <2>1, <2>2 DEF Fresh, Sendable
<1>3. /\ rs.body = "plain" /\ rs.encoded = r.encoded
      /\ rs.page = r.page /\ rs.secure = r.secure
  BY <1>1 DEF Sendable
<1> HIDE DEF rs
<1>4. Coherent(rs)
  BY <1>1, <1>3 DEF Coherent
<1> QED
  BY <1>1, <1>2, <1>3, <1>4 DEF rs

\* What a handler answers with: nothing of the filters is in it yet.
Whole(rs) == rs \in Sendable /\ Coherent(rs) /\ ~rs.page /\ ~rs.secure /\ ~rs.cors

Written(r, status, worth, encoded, body) ==
  [r EXCEPT !.status = status, !.worth = worth, !.encoded = encoded, !.body = body]

LEMMA Handled ==
  ASSUME NEW r, Fresh(r), NEW status \in Nat, NEW worth \in BOOLEAN, NEW encoded \in BOOLEAN,
         NEW body \in {"plain", "packed"}, encoded <=> body = "packed"
  PROVE  Whole(Written(r, status, worth, encoded, body))
<1> DEFINE rs == [r EXCEPT !.status = status, !.worth = worth, !.encoded = encoded, !.body = body]
<1>1. r \in Sendable /\ ~r.page /\ ~r.secure /\ ~r.cors
  BY DEF Fresh, Untouched
<1>2. rs \in Sendable
  BY <1>1 DEF Sendable
<1>3. rs.page = r.page /\ rs.secure = r.secure /\ rs.cors = r.cors
      /\ rs.encoded = encoded /\ rs.body = body
  BY <1>1 DEF Sendable
<1> HIDE DEF rs
<1>4. Coherent(rs)
  BY <1>3 DEF Coherent
<1> QED
  BY <1>1, <1>2, <1>3, <1>4 DEF rs, Whole, Written

\* A middleware that knows nothing better turns a request back.
LEMMA Refused ==
  ASSUME PipeInv, AnswerInv, way = "in", NEW rs, Fresh(rs), Answer(rs)
  PROVE  AnswerInv'
<1>1. rs \in Sendable /\ Coherent(rs) /\ Untouched(rs) /\ ~rs.page /\ ~rs.secure /\ ~rs.cors
  BY FreshAnswers DEF Fresh, Untouched
<1> QED
  BY <1>1, TurnBack DEF Answer

\* A middleware other than rewrite lets a request on without touching its path.
LEMMA LetOn ==
  ASSUME PipeInv, AnswerInv, NEW m, At(m), m # "rewrite", NEW rq, NEW rs, Fresh(rs), Pass(rq, rs),
         rq.path = req.path, rq.ran = req.ran \/ m = "script"
  PROVE  AnswerInv'
<1>1. way = "in" /\ pos <= Len(chain) /\ chain[pos][1] = m
  BY AtPlace
<1>2. req.path \in RulePaths
  BY <1>1, WayPlaces DEF WayIn
<1>3. rs \in Sendable /\ Untouched(rs) /\ rs.body = "plain"
  BY DEF Fresh
<1>4. m = "script" => Rank(m) = 4
  BY DEF Rank
<1>5. rq.ran = req.ran \/ Rank(chain[pos][1]) = 4
  BY <1>1, <1>4
<1>6. IF chain[pos][1] = "rewrite" THEN Settled(rq.path) ELSE rq.path = req.path
  BY <1>1
<1>7. rq.path \in RulePaths
  BY <1>2
<1> QED
  BY <1>1, <1>3, <1>5, <1>6, <1>7, GoOn

LEMMA FieldKept ==
  ASSUME NEW rq, IsRequest(rq), NEW c \in RequestFields \ {"path", "ran"}, NEW v
  PROVE  /\ IsRequest(WithField(rq, c, v))
         /\ WithField(rq, c, v).path = rq.path /\ WithField(rq, c, v).ran = rq.ran
<1> DEFINE q == WithField(rq, c, v)
<1>1. IsRequest(q) /\ \A f \in RequestFields \ {c} : q[f] = rq[f]
  BY FieldSet
<1> HIDE DEF q
<1>2. q["path"] = rq["path"] /\ q["ran"] = rq["ran"]
  BY <1>1 DEF RequestFields
<1> QED
  BY <1>1, <1>2 DEF q

LEMMA AnswerStart == ASSUME PipeInit PROVE AnswerInv
<1>1. Ranked(chain)
  BY ChainsRanked DEF PipeInit
<1>2. resp \in Sendable
  BY FreshAnswers DEF PipeInit, Fresh
<1> QED
  BY <1>1, <1>2 DEF PipeInit, AnswerInv

LEMMA AnswerNext == ASSUME PipeInv, AnswerInv, [PipeNext]_pipeVars PROVE AnswerInv'
<1>r. IsRequest(req)
  BY DEF PipeInv
<1>f. way = "in" => Fresh(resp)
  BY DEF AnswerInv, WayIn, Fresh
<1>a. ASSUME NEW m, At(m) PROVE way = "in" /\ Fresh(resp)
  BY <1>a, <1>f, AtPlace
<1>e. \A s \in Nat : Fresh(Error(s))
  BY FreshAnswers
<1>1. CASE UNCHANGED pipeVars
  <2>1. chain' = chain /\ req' = req /\ way' = way /\ pos' = pos /\ resp' = resp
    BY <1>1 DEF pipeVars
  <2> QED
    BY <2>1 DEF AnswerInv
<1>2. ASSUME NEW p \in RequestPaths, Arrive(p) PROVE AnswerInv'
  <2>1. PICK origin, accepts : req' = [NoRequest EXCEPT !.path = p, !.source = p, !.origin = origin,
                                                       !.accepts = accepts]
    BY <1>2 DEF Arrive
  <2>2. req'.path = p /\ req'.ran = <<>>
    BY <2>1 DEF NoRequest
  <2>3. way' = "in" /\ resp' = Blank /\ pos' = 1 /\ chain' = chain
    BY <1>2 DEF Arrive
  <2>4. Fresh(Blank) /\ p \in RulePaths
    BY FreshAnswers DEF RulePaths
  <2>5. \A i \in 1..Len(chain) : ~(i < 1)
    BY DEF PipeInv, ChainShape
  <2>6. WayIn(chain, 1, req', Blank)
    BY <2>2, <2>4, <2>5 DEF WayIn, Fresh
  <2> QED
    BY <2>3, <2>4, <2>6 DEF AnswerInv, Fresh
<1>3. CASE RequestID
  <2>1. At("request_id") /\ Pass(req, [resp EXCEPT !.id = TRUE])
    BY <1>3 DEF RequestID
  <2>2. Fresh([resp EXCEPT !.id = TRUE])
    BY <1>a, <2>1, FreshID
  <2> QED
    BY <2>1, <2>2, LetOn
<1>4. CASE Enter
  <2>1. PICK m \in {"access_log", "compression", "headers", "error_intercept"} : At(m) /\ Pass(req, resp)
    BY <1>4 DEF Enter
  <2> QED
    BY <1>a, <2>1, LetOn
<1>5. CASE AccessControl
  <2>1. PICK remote \in Addresses, forwarded \in BoundedSeq(Addresses \cup {"junk"}, 2) :
          LET ip == ClientIP(remote, forwarded)
          IN IF Check(ip) THEN Pass([req EXCEPT !.client = ip], resp) ELSE Answer(Error(403))
    BY <1>5 DEF AccessControl
  <2>2. At("access")
    BY <1>5 DEF AccessControl
  <2> DEFINE ip == ClientIP(remote, forwarded)
             rq == WithField(req, "client", ip)
  <2>3. Pass(rq, resp) \/ Answer(Error(403))
    BY <2>1 DEF WithField
  <2>4. rq.path = req.path /\ rq.ran = req.ran
    BY <1>r, FieldKept DEF RequestFields
  <2> HIDE DEF rq
  <2> QED
    BY <1>a, <1>e, <2>2, <2>3, <2>4, LetOn, Refused
<1>6. CASE Limiter
  <2>1. PICK m \in {"rate_limit", "conn_limit"} : At(m) /\ (Pass(req, resp) \/ Answer(Error(429)) \/ Answer(Error(503)))
    BY <1>6 DEF Limiter
  <2> QED
    BY <1>a, <1>e, <2>1, LetOn, Refused
<1>7. CASE BasicAuth
  <2>1. PICK tls \in BOOLEAN, user \in {"none", "wrong", "known"} :
          IF ~tls THEN Answer(Error(403))
          ELSE IF user # "known" THEN Answer(Error(401))
          ELSE Pass([req EXCEPT !.tls = tls, !.user = user], resp)
    BY <1>7 DEF BasicAuth
  <2>2. At("basic_auth")
    BY <1>7 DEF BasicAuth
  <2> DEFINE half == WithField(req, "tls", tls)
             rq == WithField(half, "user", user)
  <2>3. Pass(rq, resp) \/ Answer(Error(403)) \/ Answer(Error(401))
    <3>1. [req EXCEPT !.tls = tls, !.user = user] = rq
      BY <1>r DEF WithField, IsRequest, RequestFields
    <3> HIDE DEF rq
    <3> QED
      BY <2>1, <3>1
  <2>4. IsRequest(half) /\ half.path = req.path /\ half.ran = req.ran
    BY <1>r, FieldKept DEF RequestFields
  <2> HIDE DEF half
  <2>5. rq.path = req.path /\ rq.ran = req.ran
    BY <2>4, FieldKept DEF RequestFields
  <2> HIDE DEF rq
  <2> QED
    BY <1>a, <1>e, <2>2, <2>3, <2>5, LetOn, Refused
<1>8. CASE AuthRequest
  <2>1. PICK answer \in {0, 200, 204, 302, 401, 403, 503} :
          IF answer \in 200..299 THEN Pass([req EXCEPT !.vouched = answer], resp)
          ELSE Answer(Error(IF answer \in {401, 403} THEN answer ELSE 500))
    BY <1>8 DEF AuthRequest
  <2>2. At("auth_request")
    BY <1>8 DEF AuthRequest
  <2> DEFINE rq == WithField(req, "vouched", answer)
             s == IF answer \in {401, 403} THEN answer ELSE 500
  <2>3. Pass(rq, resp) \/ Answer(Error(s))
    BY <2>1 DEF WithField
  <2>4. rq.path = req.path /\ rq.ran = req.ran
    BY <1>r, FieldKept DEF RequestFields
  <2>5. s \in Nat
    OBVIOUS
  <2> HIDE DEF rq, s
  <2> QED
    BY <1>a, <1>e, <2>2, <2>3, <2>4, <2>5, LetOn, Refused
<1>9. CASE BodyLimit
  <2>1. PICK length \in {Chunked} \cup 0..(MaxBodySize + 1) :
          IF length > 0 /\ length > GetLimit(req.path) THEN Answer(Error(413))
          ELSE Pass([req EXCEPT !.length = length], resp)
    BY <1>9 DEF BodyLimit
  <2>2. At("body_limit")
    BY <1>9 DEF BodyLimit
  <2> DEFINE rq == WithField(req, "length", length)
  <2>3. Pass(rq, resp) \/ Answer(Error(413))
    BY <2>1 DEF WithField
  <2>4. rq.path = req.path /\ rq.ran = req.ran
    BY <1>r, FieldKept DEF RequestFields
  <2> HIDE DEF rq
  <2> QED
    BY <1>a, <1>e, <2>2, <2>3, <2>4, LetOn, Refused
<1>10. CASE Rewrite
  <2> DEFINE r == Rewritten(req.path)
             rq == WithField(req, "path", r.path)
             found == [resp EXCEPT !.status = 302]
             moved == [resp EXCEPT !.status = 301]
  <2>1. /\ At("rewrite")
        /\ CASE r.does = "fail" -> Answer(Error(500))
             [] r.does = "redirect" -> Answer(found)
             [] r.does = "permanent" -> Answer(moved)
             [] OTHER -> Pass(rq, resp)
    BY <1>10 DEF Rewrite, WithField
  <2>2. way = "in" /\ pos <= Len(chain) /\ chain[pos][1] = "rewrite"
    BY <2>1, AtPlace
  <2>3. Ended(r)
    BY <2>2, WayPlaces, RewrittenSettled DEF WayIn
  <2> HIDE DEF r
  <2>4. Fresh(found) /\ Fresh(moved) /\ Fresh(resp)
    <3>1. Fresh(resp) /\ 301 \in Nat /\ 302 \in Nat
      BY <1>f, <2>2
    <3> QED
      BY <3>1, FreshStatus
  <2>5. CASE r.does = "next"
    <3>1. Pass(rq, resp)
      BY <2>1, <2>5
    <3>2. rq.path = r.path /\ rq.ran = req.ran
      <4>1. rq["path"] = r.path /\ \A f \in RequestFields \ {"path"} : rq[f] = req[f]
        BY <1>r, FieldSet DEF RequestFields
      <4> HIDE DEF rq
      <4> QED
        BY <4>1 DEF RequestFields
    <3> HIDE DEF rq
    <3>3. rq.path \in RulePaths /\ Settled(rq.path)
      BY <2>3, <2>5, <3>2 DEF Ended
    <3>4. resp \in Sendable /\ Untouched(resp) /\ resp.body = "plain"
      BY <2>4 DEF Fresh
    <3> QED
      BY <2>2, <3>1, <3>2, <3>3, <3>4, GoOn
  <2>6. CASE r.does # "next"
    <3> HIDE DEF found, moved
    <3>1. Answer(Error(500)) \/ Answer(found) \/ Answer(moved)
      BY <2>1, <2>3, <2>6 DEF Ended
    <3> QED
      BY <1>e, <2>2, <2>4, <3>1, Refused
  <2> QED
    BY <2>5, <2>6
<1>11. CASE CORS
  <2>1. At("cors")
    BY <1>11 DEF CORS
  <2>2. way = "in" /\ pos <= Len(chain) /\ chain[pos][1] = "cors" /\ Fresh(resp)
    BY <1>a, <2>1, AtPlace
  <2>3. CASE req.origin = "preflight"
    <3> DEFINE rs == [resp EXCEPT !.status = 204, !.cors = TRUE]
    <3>1. Answer(rs)
      BY <1>11, <2>3 DEF CORS
    <3>2. rs \in Sendable /\ Coherent(rs) /\ ~rs.page /\ ~rs.secure
      BY <2>2, PreflightAnswer
    <3>3. Rank(chain[pos][1]) = 4
      BY <2>2 DEF Rank
    <3> HIDE DEF rs
    <3> QED
      BY <2>2, <2>3, <3>1, <3>2, <3>3, TurnBack DEF Answer
  <2>4. CASE req.origin # "preflight"
    <3>1. Pass(req, resp)
      BY <1>11, <2>4 DEF CORS
    <3> QED
      BY <2>1, <2>2, <3>1, LetOn
  <2> QED
    BY <2>3, <2>4
<1>12. CASE RunScript
  <2> DEFINE rq == [req EXCEPT !.ran = Append(@, chain[pos][2])]
  <2>1. At("script")
    BY <1>12 DEF RunScript
  <2>2. \/ Pass(rq, resp) \/ Pass(rq, Error(500)) \/ Answer(Error(500))
        \/ \E status \in {200, 302, 403} : Answer([resp EXCEPT !.status = status])
    BY <1>12 DEF RunScript
  <2>3. rq.path = req.path
    <3>1. rq = WithField(req, "ran", Append(req.ran, chain[pos][2])) /\ "ran" \in RequestFields
      BY <1>r DEF IsRequest, RequestFields, WithField
    <3> HIDE DEF rq
    <3>2. rq["path"] = req["path"]
      BY <1>r, <3>1, FieldSet DEF RequestFields
    <3> QED
      BY <3>2
  <2>4. way = "in" /\ Fresh(resp) /\ Fresh(Error(500))
    BY <1>a, <1>e, <2>1
  <2>5. ASSUME NEW s \in {200, 302, 403} PROVE Fresh([resp EXCEPT !.status = s])
    <3>1. s \in Nat
      OBVIOUS
    <3> QED
      BY <2>4, <3>1, FreshStatus
  <2> HIDE DEF rq
  <2> QED
    BY <2>1, <2>2, <2>3, <2>4, <2>5, LetOn, Refused
<1>13. CASE Handle
  <2>1. way = "in" /\ pos = Len(chain) + 1 /\ Fresh(resp)
    BY <1>13, <1>f DEF Handle
  <2> DEFINE packed(worth, encoded, status) ==
               [resp EXCEPT !.status = status, !.worth = worth, !.encoded = encoded,
                            !.body = IF encoded THEN "packed" ELSE "plain"]
             kept == [resp EXCEPT !.worth = TRUE]
  <2>2. \A worth, encoded \in BOOLEAN, status \in {200, 404} : Whole(packed(worth, encoded, status))
    <3>1. TAKE worth \in BOOLEAN, encoded \in BOOLEAN, status \in {200, 404}
    <3> DEFINE body == IF encoded THEN "packed" ELSE "plain"
    <3>2. body \in {"plain", "packed"} /\ (encoded <=> body = "packed") /\ status \in Nat
      OBVIOUS
    <3> HIDE DEF body
    <3>3. Whole(Written(resp, status, worth, encoded, body))
      BY <2>1, <3>2, Handled
    <3> QED
      BY <3>3 DEF body, Written
  <2>3. Whole(kept)
    BY <2>1 DEF Fresh, Sendable, Untouched, Coherent, Whole
  <2>4. \A status \in {404, 502} : Whole(Error(status))
    <3>1. TAKE status \in {404, 502}
    <3>2. Fresh(Error(status))
      BY <1>e
    <3> DEFINE rs == Error(status)
    <3> HIDE DEF rs
    <3>3. Fresh(rs)
      BY <3>2 DEF rs
    <3>4. Coherent(rs)
      BY <3>3, FreshAnswers
    <3> QED
      BY <3>3, <3>4 DEF Fresh, Untouched, rs, Whole
  <2>5. \/ \E worth, encoded \in BOOLEAN, status \in {200, 404} : Answer(packed(worth, encoded, status))
        \/ Answer(kept)
        \/ \E status \in {404, 502} : Answer(Error(status))
    BY <1>13 DEF Handle
  <2> HIDE DEF packed, kept
  <2>6. PICK rs : Answer(rs) /\ Whole(rs)
    <3>1. CASE \E worth, encoded \in BOOLEAN, status \in {200, 404} :
                 Answer(packed(worth, encoded, status))
      <4>1. PICK worth \in BOOLEAN, encoded \in BOOLEAN, status \in {200, 404} :
              Answer(packed(worth, encoded, status))
        BY <3>1
      <4>2. Whole(packed(worth, encoded, status))
        BY <2>2
      <4> QED
        BY <4>1, <4>2
    <3>2. CASE Answer(kept)
      BY <2>3, <3>2
    <3>3. CASE \E status \in {404, 502} : Answer(Error(status))
      BY <2>4, <3>3
    <3> QED
      BY <2>5, <3>1, <3>2, <3>3
  <2> QED
    BY <2>1, <2>6, TurnBack DEF Whole, Answer
<1>16. CASE HandleLua
  <2>1. way = "in" /\ pos = Len(chain) + 1 /\ Fresh(resp)
    BY <1>16, <1>f DEF HandleLua
  <2> DEFINE exit(status) == [resp EXCEPT !.status = status, !.worth = TRUE]
             kept == [resp EXCEPT !.worth = TRUE]
  <2>2. PICK r \in {kept, Error(500)} \cup {exit(status) : status \in {200, 404}} :
          GoBack(IF Has("error_intercept") THEN Intercepted(r) ELSE r)
    BY <1>16 DEF HandleLua
  <2>3. Whole(kept)
    BY <2>1 DEF Fresh, Sendable, Untouched, Coherent, Whole
  <2>4. \A status \in {200, 404} : Whole(exit(status))
    <3>1. TAKE status \in {200, 404}
    <3> DEFINE half == [resp EXCEPT !.status = status]
    <3>2. Fresh(half)
      <4>1. status \in Nat
        OBVIOUS
      <4> QED
        BY <2>1, <4>1, FreshStatus
    <3>3. exit(status) = [half EXCEPT !.worth = TRUE]
      OBVIOUS
    <3> HIDE DEF half
    <3>4. Whole([half EXCEPT !.worth = TRUE])
      BY <3>2 DEF Fresh, Sendable, Untouched, Coherent, Whole
    <3> QED
      BY <3>3, <3>4
  <2>5. Fresh(Error(500))
    BY <1>e
  <2> DEFINE rs == IF Has("error_intercept") THEN Intercepted(r) ELSE r
  <2> HIDE DEF exit, kept
  <2>6. r \in Sendable /\ Coherent(r) /\ ~r.secure /\ ~r.cors
    <3>1. CASE r = Error(500)
      <4>1. Fresh(r)
        BY <2>5, <3>1
      <4> QED
        BY <4>1, FreshAnswers DEF Fresh, Untouched
    <3>2. CASE Whole(r)
      BY <3>2 DEF Whole
    <3> QED
      BY <2>2, <2>3, <2>4, <3>1, <3>2
  <2>7. rs \in Sendable /\ Coherent(rs) /\ ~rs.secure /\ ~rs.cors
    BY <2>6, InterceptedKeeps
  <2>8. GoBack(rs)
    BY <2>2
  <2> HIDE DEF rs
  <2> QED
    BY <2>1, <2>7, <2>8, TurnBack
<1>14. CASE Leave
  BY <1>14, LeaveWhole
<1>15. CASE Send
  <2>1. way' = "idle" /\ resp' = Blank /\ chain' = chain
    BY <1>15 DEF Send
  <2>2. Blank \in Sendable
    BY FreshAnswers DEF Fresh
  <2> QED
    BY <2>1, <2>2 DEF AnswerInv
<1> QED
  BY <1>1, <1>2, <1>3, <1>4, <1>5, <1>6, <1>7, <1>8, <1>9, <1>10, <1>11, <1>12, <1>13, <1>14, <1>15,
     <1>16
  DEF PipeNext

-----------------------------------------------------------------------------
(* The access log *)

LogInv == rate \in SampleRates /\ counted \in Nat /\ LogsSampled

\* One of how many answers is logged.
LEMMA IntervalPositive == ASSUME rate \in Nat PROVE SampleInterval \in Nat \ {0}
<1>1. CASE rate \notin 1..99
  BY <1>1 DEF SampleInterval
<1>2. CASE rate \in 1..99
  <2> DEFINE d == 2 * rate
             n == 200 + rate
  <2>1. d \in Nat \ {0} /\ n \in Nat /\ d <= n
    BY <1>2
  <2>2. SampleInterval = n \div d
    BY <1>2 DEF SampleInterval
  <2> HIDE DEF d, n
  <2>3. PICK q \in Nat, r \in 0..(d - 1) : n = d * q + r
    BY ONLY <2>1, Divided
  <2>4. n \div d = q
    BY <2>1, <2>3, QuotientOf
  <2>5. q # 0
    BY <2>1, <2>3
  <2> QED
    BY <2>2, <2>3, <2>4, <2>5
<1> QED
  BY <1>1, <1>2

\* What passes the access log below 500 is counted, and logged when its turn comes.
LEMMA LogStep == ASSUME LogInv, [PipeNext]_pipeVars PROVE LogInv'
<1>1. /\ rate' = rate
      /\ \/ counted' = counted /\ logged' = logged
         \/ counted' = counted + 1 /\ logged' = IF Sampled THEN logged + 1 ELSE logged
  <2>1. CASE UNCHANGED pipeVars
    BY <2>1 DEF pipeVars
  <2>2. ASSUME NEW p \in RequestPaths, Arrive(p) PROVE rate' = rate /\ counted' = counted /\ logged' = logged
    BY <2>2 DEF Arrive
  <2>3. ASSUME NEW rq, NEW rs, Pass(rq, rs) PROVE rate' = rate /\ counted' = counted /\ logged' = logged
    BY <2>3 DEF Pass
  <2>4. ASSUME NEW rs, Answer(rs) PROVE rate' = rate /\ counted' = counted /\ logged' = logged
    BY <2>4 DEF Answer, GoBack
  <2>5. CASE RequestID \/ Enter
    BY <2>3, <2>5 DEF RequestID, Enter
  <2>6. CASE AccessControl
    BY <2>3, <2>4, <2>6 DEF AccessControl
  <2>7. CASE Limiter
    BY <2>3, <2>4, <2>7 DEF Limiter
  <2>8. CASE BasicAuth
    BY <2>3, <2>4, <2>8 DEF BasicAuth
  <2>9. CASE AuthRequest
    BY <2>3, <2>4, <2>9 DEF AuthRequest
  <2>10. CASE BodyLimit
    BY <2>3, <2>4, <2>10 DEF BodyLimit
  <2>11. CASE Rewrite
    BY <2>3, <2>4, <2>11 DEF Rewrite
  <2>12. CASE CORS
    BY <2>3, <2>4, <2>12 DEF CORS
  <2>13. CASE RunScript
    BY <2>3, <2>4, <2>13 DEF RunScript
  <2>14. CASE Handle
    <3>1. \E rs : Answer(rs)
      <4> DEFINE p(worth, encoded, status) ==
                   [resp EXCEPT !.status = status, !.worth = worth, !.encoded = encoded,
                                !.body = IF encoded THEN "packed" ELSE "plain"]
                 k == [resp EXCEPT !.worth = TRUE]
      <4>1. \/ \E worth, encoded \in BOOLEAN, status \in {200, 404} : Answer(p(worth, encoded, status))
            \/ Answer(k)
            \/ \E status \in {404, 502} : Answer(Error(status))
        BY <2>14 DEF Handle
      <4> HIDE DEF p, k
      <4> QED
        BY ONLY <4>1
    <3> QED
      BY <2>4, <3>1
  <2>15. CASE Leave
    BY <2>15 DEF Leave, LogPass
  <2>17. CASE HandleLua
    <3>1. PICK rs : GoBack(rs) /\ LogPass(rs.status)
      BY <2>17 DEF HandleLua
    <3> QED
      BY <3>1 DEF GoBack, LogPass
  <2>16. CASE Send
    BY <2>16 DEF Send
  <2> QED
    BY <2>1, <2>2, <2>5, <2>6, <2>7, <2>8, <2>9, <2>10, <2>11, <2>12, <2>13, <2>14, <2>15, <2>16, <2>17
    DEF PipeNext
<1>2. rate \in Nat /\ counted \in Nat
  BY PipeAssumption DEF LogInv
<1> DEFINE d == SampleInterval
<1>3. d' = d
  BY <1>1 DEF SampleInterval
<1>4. d \in Nat \ {0} /\ (rate >= 100 => d = 1)
  BY <1>2, IntervalPositive DEF SampleInterval
<1>5. logged = IF rate = 0 \/ (rate < 100 /\ d = 1) THEN 0 ELSE (counted + d - 1) \div d
  BY DEF LogInv, LogsSampled
<1>6. Sampled <=> rate >= 100 \/ (rate > 0 /\ (counted + 1) % d = 1)
  BY DEF Sampled
<1>7. LogsSampled' <=> logged' = IF rate' = 0 \/ (rate' < 100 /\ d' = 1) THEN 0
                                 ELSE (counted' + d' - 1) \div d'
  BY DEF LogsSampled
<1> HIDE DEF d
<1>8. CASE counted' = counted /\ logged' = logged
  BY <1>1, <1>2, <1>3, <1>5, <1>7, <1>8 DEF LogInv
<1>9. CASE counted' = counted + 1 /\ logged' = IF Sampled THEN logged + 1 ELSE logged
  <2>1. counted' \in Nat /\ rate' \in SampleRates
    BY <1>1, <1>2, <1>9 DEF LogInv
  <2>2. \A n \in Nat : n % 1 = 0 /\ n \div 1 = n
    <3>1. \A n \in Nat : n = 1 * n + 0 /\ 0 \in 0..(1 - 1) /\ 1 \in Nat \ {0}
      OBVIOUS
    <3> QED
      BY <3>1, RemainderOf, QuotientOf
  <2>3. CASE rate = 0
    BY <1>1, <1>5, <1>6, <1>7, <1>9, <2>1, <2>3 DEF LogInv
  <2>4. CASE rate \in 1..99 /\ d = 1
    <3>1. ~Sampled
      BY <1>2, <1>6, <2>2, <2>4
    <3> QED
      BY <1>1, <1>3, <1>5, <1>7, <1>9, <2>1, <2>4, <3>1 DEF LogInv
  <2>5. CASE rate >= 100
    <3>1. Sampled /\ d = 1
      BY <1>4, <1>6, <2>5
    <3>2. logged = counted /\ logged' = counted + 1
      BY <1>2, <1>5, <1>9, <2>2, <2>5, <3>1
    <3>3. (counted' + d' - 1) \div d' = counted + 1
      <4>1. counted' + d' - 1 = counted + 1 /\ d' = 1 /\ counted + 1 \in Nat
        BY <1>2, <1>3, <1>9, <3>1
      <4> QED
        BY <2>2, <4>1
    <3> QED
      BY <1>1, <1>2, <1>7, <2>1, <2>5, <3>2, <3>3 DEF LogInv
  <2>6. CASE rate \in 1..99 /\ d >= 2
    <3>1. Sampled <=> (counted + 1) % d = 1
      BY <1>6, <2>6
    <3>2. logged = (counted + d - 1) \div d
      BY <1>5, <2>6
    <3>3. (counted + 1 + d - 1) \div d = IF (counted + 1) % d = 1 THEN (counted + d - 1) \div d + 1
                                                                  ELSE (counted + d - 1) \div d
      BY <1>2, <1>4, <2>6, EveryNth
    <3>4. logged' = (counted' + d' - 1) \div d'
      BY <1>3, <1>9, <3>1, <3>2, <3>3, Zenon
    <3> QED
      BY <1>1, <1>3, <1>7, <2>1, <2>6, <3>4 DEF LogInv
  <2> QED
    BY <1>2, <1>4, <2>3, <2>4, <2>5, <2>6
<1> QED
  BY <1>1, <1>8, <1>9

LEMMA LogStart == ASSUME PipeInit PROVE LogInv
<1>1. rate \in SampleRates /\ rate \in Nat /\ counted = 0 /\ logged = 0
  BY PipeAssumption DEF PipeInit
<1> DEFINE d == SampleInterval
           n == counted + d - 1
<1>2. d \in Nat \ {0}
  BY <1>1, IntervalPositive
<1> HIDE DEF d
<1>3. n \in Nat /\ n = d * 0 + (d - 1) /\ d - 1 \in 0..(d - 1) /\ 0 \in Int
  BY <1>1, <1>2
<1> HIDE DEF n
<1>4. n \div d = 0
  BY <1>2, <1>3, QuotientOf
<1> QED
  BY <1>1, <1>4 DEF LogInv, LogsSampled, d, n

\* Whatever is configured, wherever the rules send a request and wherever it is turned
\* back: its rewrites end, its answer leaves whole, and the access log keeps the answers
\* its rate says (rewrite.go:170-233, compression.go:220-301, headers.go:112-176,
\* errorintercept.go:67-98, accesslog.go:62-103).
THEOREM PipelineAnswersAccounted == PipeSpec => []AnswersAccounted
<1>1. ASSUME PipeInv, AnswerInv PROVE RewritesEnd
  <2> SUFFICES ASSUME Handling, Has("rewrite") PROVE RewritesEnd
    BY DEF RewritesEnd
  <2>1. way = "in" /\ pos = Len(chain) + 1 /\ DOMAIN chain = 1..Len(chain) /\ Len(chain) \in Nat
    BY <1>1 DEF Handling, PipeInv, ChainShape
  <2>2. PICK i \in 1..Len(chain) : chain[i][1] = "rewrite"
    BY <2>1 DEF Has
  <2>3. i < pos
    BY <2>1
  <2>4. Settled(req.path)
    BY <1>1, <2>1, <2>2, <2>3 DEF AnswerInv, WayIn
  <2> QED
    BY <2>4 DEF Settled, Applying, RewritesEnd
<1>2. ASSUME PipeInv, AnswerInv PROVE AnswersFinished
  <2> SUFFICES ASSUME way = "out", pos = 0 PROVE AnswersFinished
    BY DEF AnswersFinished
  <2>1. WayOut(chain, 0, req, resp) /\ resp \in Sendable
    BY <1>2 DEF AnswerInv
  <2>2. DOMAIN chain = 1..Len(chain) /\ Len(chain) \in Nat
    BY <1>2 DEF PipeInv, ChainShape
  <2>3. ASSUME Has("headers"), resp.page \/ resp.cors \/ req.ran # <<>> PROVE resp.secure
    <3>1. PICK i \in 1..Len(chain) : chain[i][1] = "headers"
      BY <2>2, <2>3 DEF Has
    <3>2. i <= 0 \/ resp.secure
      BY <2>1, <2>3, <3>1 DEF WayOut
    <3> QED
      BY <2>2, <3>2
  <2>4. ASSUME resp.secure \/ resp.page \/ resp.cors \/ resp.encoded,
               NEW m \in {"access", "basic_auth", "auth_request"}, Has(m)
        PROVE  Met(m, req)
    <3>1. PastGuards(chain, req)
      BY <2>1, <2>4 DEF WayOut, Untouched
    <3>2. PICK i \in 1..Len(chain) : chain[i][1] = m
      BY <2>2, <2>4 DEF Has
    <3>3. Rank(m) = 1
      BY DEF Rank
    <3> QED
      BY <3>1, <3>2, <3>3 DEF PastGuards
  <2>5. ASSUME resp.secure \/ resp.page \/ resp.cors \/ resp.encoded
        PROVE  /\ Has("access") => req.client # ""
               /\ Has("basic_auth") => req.user = "known"
               /\ Has("auth_request") => req.vouched # 0
    <3>1. Has("access") => req.client \in Addresses
      BY <2>4, <2>5 DEF Met
    <3>2. Has("basic_auth") => req.user = "known"
      BY <2>4, <2>5 DEF Met
    <3>3. Has("auth_request") => req.vouched \in 200..299
      BY <2>4, <2>5 DEF Met
    <3>4. "" \notin Addresses
      BY PipeAssumption
    <3>5. Has("access") => req.client # ""
      BY <3>1, <3>4, Zenon
    <3>6. Has("auth_request") => req.vouched # 0
      BY <3>3
    <3> QED
      BY <3>2, <3>5, <3>6, Zenon
  <2> QED
    BY <2>1, <2>3, <2>5 DEF WayOut, Coherent, AnswersFinished
<1>3. PipeInv /\ AnswerInv /\ LogInv => AnswersAccounted
  BY <1>1, <1>2 DEF AnswersAccounted, LogInv
<1> QED
  BY <1>3, PipeInitInv, PipeStep, AnswerStart, AnswerNext, LogStart, LogStep, PTL DEF PipeSpec

-----------------------------------------------------------------------------
(* The choice of targets *)

RequestsOn(t) == {c \in Clients : at[c].target = t}
RequestPlaces == [target : TargetSet \cup {0}, try : {0, 1, 2}]

\* The connections of a target are the requests on their way to it, so that the
\* counters the balancers compare are natural numbers.
BalInv ==
  /\ balancer \in Algorithms /\ turn \in Nat
  /\ up \in SUBSET TargetSet /\ circle \in SUBSET SUBSET TargetSet
  /\ lat \in [TargetSet -> Nat] /\ openConns \in [TargetSet -> Nat]
  /\ at \in [Clients -> RequestPlaces]
  /\ \A t \in TargetSet : openConns[t] = Cardinality(RequestsOn(t))

LEMMA TargetsCounted ==
  /\ TargetSet = 1..NTargets /\ NTargets \in Nat
  /\ \A S \in SUBSET TargetSet : IsFiniteSet(S) /\ Cardinality(S) \in Nat
                                 /\ (S # {} => Cardinality(S) > 0)
<1>1. TargetSet = 1..NTargets /\ NTargets \in Nat /\ IsFiniteSet(TargetSet)
  BY BalancerAssumption, IntervalSize DEF TargetSet
<1>2. ASSUME NEW S \in SUBSET TargetSet
      PROVE  IsFiniteSet(S) /\ Cardinality(S) \in Nat /\ (S # {} => Cardinality(S) > 0)
  <2>1. IsFiniteSet(S) /\ Cardinality(S) \in Nat
    BY <1>1, FS_Subset, FS_CardinalityType
  <2>2. S # {} => Cardinality(S) # 0
    BY <2>1, FS_EmptySet
  <2> QED
    BY <2>1, <2>2
<1> QED
  BY <1>1, <1>2

\* Every weight is at least 1.
LEMMA WeightsTyped == WeightOf \in [TargetSet -> Nat] /\ \A t \in TargetSet : WeightOf[t] >= 1
BY BalancerAssumption DEF WeightOf

\* The total weight, as the number of turns there are to give.
LEMMA TotalIsCount ==
  ASSUME NEW S \in SUBSET TargetSet
  PROVE  TotalWeight(S) = Cardinality(Units(WeightOf, S)) /\ TotalWeight(S) \in Nat
<1>1. IsFiniteSet(S)
  BY TargetsCounted
<1>2. TotalWeight(S) = FoldFunctionOnSet(+, 0, WeightOf, S)
  BY DEF TotalWeight, SumFunctionOnSet
<1>3. TotalWeight(S) = Cardinality(Units(WeightOf, S))
  BY <1>1, <1>2, SumIsCount, WeightsTyped
<1>4. Cardinality(Units(WeightOf, S)) \in Nat
  BY <1>1, UnitsFinite, WeightsTyped
<1> QED
  BY <1>3, <1>4

\* The weights of targets without a common one, and of none and one.
LEMMA TotalJoined ==
  ASSUME NEW S \in SUBSET TargetSet, NEW T \in SUBSET TargetSet, S \cap T = {}
  PROVE  TotalWeight(S \cup T) = TotalWeight(S) + TotalWeight(T)
<1>1. IsFiniteSet(S) /\ IsFiniteSet(T) /\ S \cup T \in SUBSET TargetSet
  BY TargetsCounted
<1>2. Cardinality(Units(WeightOf, S \cup T)) = Cardinality(Units(WeightOf, S)) + Cardinality(Units(WeightOf, T))
  BY <1>1, UnitsJoined, WeightsTyped
<1> QED
  BY <1>1, <1>2, TotalIsCount

LEMMA TotalSteps ==
  /\ TotalWeight({}) = 0
  /\ \A t \in TargetSet : TotalWeight({t}) = WeightOf[t]
<1>1. {} \in SUBSET TargetSet /\ \A t \in TargetSet : {t} \in SUBSET TargetSet
  OBVIOUS
<1> QED
  BY <1>1, TotalIsCount, UnitsStep, WeightsTyped

\* More targets weigh more, and each weighs something.
LEMMA TotalGrows ==
  ASSUME NEW T \in SUBSET TargetSet, NEW S \in SUBSET T
  PROVE  TotalWeight(S) <= TotalWeight(T)
<1> DEFINE R == T \ S
<1>1. S \in SUBSET TargetSet /\ R \in SUBSET TargetSet /\ S \cap R = {} /\ S \cup R = T
  OBVIOUS
<1> HIDE DEF R
<1>2. TotalWeight(T) = TotalWeight(S) + TotalWeight(R)
  BY <1>1, TotalJoined
<1>3. TotalWeight(S) \in Nat /\ TotalWeight(R) \in Nat
  BY <1>1, TotalIsCount
<1> QED
  BY <1>2, <1>3

LEMMA TotalPositive ==
  ASSUME NEW S \in SUBSET TargetSet, S # {}
  PROVE  TotalWeight(S) \in Nat \ {0}
<1>1. PICK t \in S : TRUE
  OBVIOUS
<1>2. TotalWeight({t}) <= TotalWeight(S)
  BY TotalGrows
<1>3. TotalWeight({t}) >= 1
  BY TotalSteps, WeightsTyped
<1>4. TotalWeight(S) \in Nat /\ TotalWeight({t}) \in Nat
  BY TotalIsCount
<1> QED
  BY <1>2, <1>3, <1>4

\* The turns of t follow those of the targets of S before it.
LEMMA TurnsOf ==
  ASSUME NEW S \in SUBSET TargetSet, NEW t \in S
  PROVE  /\ TotalWeight({u \in S : u < t}) \in Nat
         /\ TotalWeight({u \in S : u <= t}) = TotalWeight({u \in S : u < t}) + WeightOf[t]
         /\ TotalWeight({u \in S : u <= t}) <= TotalWeight(S)
<1> DEFINE B == {u \in S : u < t}
           A == {u \in S : u <= t}
<1>1. S \in SUBSET Nat
  BY TargetsCounted
<1>2. /\ B \in SUBSET TargetSet /\ {t} \in SUBSET TargetSet /\ A \in SUBSET S
      /\ B \cap {t} = {} /\ B \cup {t} = A
  <2>1. ~(t < t) /\ \A u \in S : u <= t <=> u < t \/ u = t
    <3>1. ASSUME NEW u \in S PROVE u <= t <=> u < t \/ u = t
      <4>1. u \in Nat /\ t \in Nat
        BY <1>1
      <4> QED
        BY <4>1
    <3>2. t \in Nat
      BY <1>1
    <3> QED
      BY <3>1, <3>2
  <2>2. B \cup {t} = A
    BY <2>1, Zenon
  <2> QED
    BY <2>1, <2>2
<1> HIDE DEF A, B
<1>3. TotalWeight(A) = TotalWeight(B) + TotalWeight({t})
  BY <1>2, TotalJoined
<1>4. TotalWeight({t}) = WeightOf[t]
  BY TotalSteps
<1>5. TotalWeight(B) \in Nat
  BY <1>2, TotalIsCount
<1>6. TotalWeight(A) <= TotalWeight(S)
  BY <1>2, TotalGrows
<1> QED
  BY <1>3, <1>4, <1>5, <1>6 DEF A, B

\* What the algorithms pick is one of the targets they are offered.
LEMMA NthMember ==
  ASSUME NEW S \in SUBSET TargetSet, S # {}, NEW k \in Nat
  PROVE  Nth(S, (k % Cardinality(S)) + 1) \in S
<1>1. Cardinality(S) \in Nat /\ Cardinality(S) > 0 /\ S \in SUBSET (1..NTargets) /\ NTargets \in Nat
  BY TargetsCounted
<1>2. (k % Cardinality(S)) + 1 \in 1..Cardinality(S)
  BY <1>1
<1> DEFINE j == (k % Cardinality(S)) + 1
<1>3. \E t \in S : Cardinality({u \in S : u <= t}) = j
  <2> HIDE DEF j
  <2> QED
    BY <1>1, <1>2, RankTaken, ZenonT(60) DEF j
<1> QED
  BY <1>3, Zenon DEF Nth

LEMMA WeightedMember ==
  ASSUME NEW S \in SUBSET TargetSet, S # {}, NEW k \in Nat
  PROVE  \E t \in S : Weighted(S, k) = {t}
<1> DEFINE total == TotalWeight(S)
           fits == {t \in S : k % total < TotalWeight({u \in S : u <= t})}
<1>1. S \in SUBSET (1..NTargets) /\ NTargets \in Nat
  BY TargetsCounted
<1>2. total \in Nat \ {0}
  BY TotalPositive
<1>3. Max(S) \in S /\ \A y \in S : y <= Max(S)
  BY <1>1, LastPosition
<1>4. {u \in S : u <= Max(S)} = S
  BY <1>3
<1>5. k % total < total
  <2> HIDE DEF total
  <2> QED
    BY <1>2
<1>6. Max(S) \in fits
  BY <1>3, <1>4, <1>5
<1>7. fits \in SUBSET (1..NTargets) /\ fits # {}
  BY <1>1, <1>6
<1>8. Min(fits) \in fits
  <2> HIDE DEF fits
  <2> QED
    BY <1>1, <1>7, FirstPosition
<1>9. Weighted(S, k) = {Min(fits)} /\ Min(fits) \in S
  BY <1>8 DEF Weighted
<1> QED
  BY <1>9

LEMMA LeastMember ==
  ASSUME NEW S \in SUBSET TargetSet, S # {}, NEW f, \A t \in S : f[t] \in Nat
  PROVE  FirstLeast(S, f) \in SUBSET S /\ FirstLeast(S, f) # {}
<1> DEFINE V == {f[t] : t \in S}
<1>1. V \in SUBSET Nat /\ V # {}
  OBVIOUS
<1>2. PICK m \in V : \A v \in V : m <= v
  <2> HIDE DEF V
  <2> QED
    BY <1>1, LeastNumber
<1> DEFINE A == {t \in S : f[t] = m}
<1>3. A # {} /\ A \in SUBSET (1..NTargets) /\ NTargets \in Nat
  BY <1>2, TargetsCounted
<1>4. Min(A) \in A /\ \A y \in A : Min(A) <= y
  <2> HIDE DEF A
  <2> QED
    BY <1>3, FirstPosition
<1> DEFINE t0 == Min(A)
<1> HIDE DEF t0
<1>5. t0 \in S /\ f[t0] = m
  BY <1>4 DEF t0
<1>6. ASSUME NEW u \in S PROVE f[t0] < f[u] \/ (f[t0] = f[u] /\ t0 <= u)
  <2>1. m <= f[u] /\ m \in Nat /\ f[u] \in Nat
    BY <1>1, <1>2
  <2>2. CASE f[u] = m
    <3>1. u \in A
      BY <2>2
    <3> QED
      BY <1>4, <1>5, <2>2, <3>1 DEF t0
  <2>3. CASE f[u] # m
    BY <1>5, <2>1, <2>3
  <2> QED
    BY <2>2, <2>3
<1>7. t0 \in FirstLeast(S, f)
  BY <1>5, <1>6 DEF FirstLeast
<1> QED
  BY <1>7 DEF FirstLeast

LEMMA ChoiceMember ==
  ASSUME BalInv, NEW S \in SUBSET TargetSet, S # {}
  PROVE  TwoChoices(S) \in SUBSET S /\ TwoChoices(S) # {}
<1>1. CASE Cardinality(S) = 1
  BY <1>1 DEF TwoChoices
<1>2. CASE Cardinality(S) # 1
  <2>1. PICK t \in S : TRUE
    OBVIOUS
  <2>2. S # {t}
    BY <1>2, FS_Singleton
  <2>3. PICK u \in S : u # t
    BY <2>1, <2>2
  <2>4. openConns[t] \in Nat /\ openConns[u] \in Nat
    BY DEF BalInv
  <2>5. openConns[t] <= openConns[u] \/ openConns[u] <= openConns[t]
    BY <2>4
  <2> QED
    BY <1>2, <2>1, <2>3, <2>5 DEF TwoChoices
<1> QED
  BY <1>1, <1>2

LEMMA PickMember ==
  ASSUME BalInv, NEW a \in Algorithms, a # "consistent_hash", NEW S \in SUBSET TargetSet, NEW key \in Nat
  PROVE  Pick(a, S, key) \in SUBSET S /\ (S # {} => Pick(a, S, key) # {})
<1>1. CASE S = {}
  BY <1>1 DEF Pick
<1>2. CASE S # {}
  <2>1. /\ RoundRobin(S) \in SUBSET S /\ RoundRobin(S) # {}
        /\ IPHash(S, key) \in SUBSET S /\ IPHash(S, key) # {}
    <3>1. Nth(S, (turn % Cardinality(S)) + 1) \in S /\ Nth(S, (key % Cardinality(S)) + 1) \in S
      BY <1>2, NthMember DEF BalInv
    <3> QED
      BY <3>1, Zenon DEF RoundRobin, IPHash
  <2>2. Weighted(S, turn) \in SUBSET S /\ Weighted(S, turn) # {}
    <3>1. turn \in Nat
      BY DEF BalInv
    <3>2. PICK t \in S : Weighted(S, turn) = {t}
      BY <1>2, <3>1, WeightedMember
    <3> QED
      BY <3>2
  <2>3. LeastConnections(S) \in SUBSET S /\ LeastConnections(S) # {}
    BY <1>2, LeastMember DEF LeastConnections, BalInv
  <2>4. LeastTime(S) \in SUBSET S /\ LeastTime(S) # {}
    <3> DEFINE f == [t \in S |-> LatOf(t)]
    <3>1. \A t \in S : f[t] \in Nat
      BY DEF BalInv, LatOf
    <3> HIDE DEF f
    <3>2. FirstLeast(S, f) \in SUBSET S /\ FirstLeast(S, f) # {}
      BY <1>2, <3>1, LeastMember
    <3> QED
      BY <3>2 DEF LeastTime, f
  <2>5. TwoChoices(S) \in SUBSET S /\ TwoChoices(S) # {}
    BY <1>2, ChoiceMember
  <2>6. a \in {"round_robin", "sticky", "lua", "weighted_round_robin", "least_conn", "ip_hash", "random", "least_time"}
    BY BalancerAssumption
  <2> QED
    BY <1>2, <2>1, <2>2, <2>3, <2>4, <2>5, <2>6 DEF Pick
<1> QED
  BY <1>1, <1>2

\* The circle finds a target of S if there is one.
LEMMA CircleMember ==
  ASSUME NEW S \in SUBSET TargetSet, NEW key \in Nat
  PROVE  OnCircle(S, key) \in SUBSET S /\ (S # {} => OnCircle(S, key) # {})
<1> DEFINE nodes == {p \in DOMAIN Circle : Circle[p] \in S}
           behind == {p \in nodes : p >= key}
<1>1. DOMAIN Circle = 1..Len(Circle) /\ Len(Circle) \in Nat
  BY BalancerAssumption
<1>2. S # {} => nodes # {}
  <2>1. \A t \in TargetSet : \E p \in 1..Len(Circle) : Circle[p] = t
    BY BalancerAssumption, RangeOf
  <2> QED
    BY <1>1, <2>1
<1>3. nodes \in SUBSET (1..Len(Circle)) /\ behind \in SUBSET (1..Len(Circle))
  BY <1>1
<1>4. /\ nodes # {} => Min(nodes) \in nodes
      /\ behind # {} => Min(behind) \in behind
  <2> HIDE DEF nodes, behind
  <2> QED
    BY <1>1, <1>3, FirstPosition
<1>5. OnCircle(S, key) =
        IF nodes = {} THEN {} ELSE {Circle[IF \E p \in nodes : p >= key THEN Min(behind) ELSE Min(nodes)]}
  BY DEF OnCircle
<1>6. (\E p \in nodes : p >= key) <=> behind # {}
  OBVIOUS
<1>7. \A p \in nodes : Circle[p] \in S
  OBVIOUS
<1>8. behind \in SUBSET nodes
  OBVIOUS
<1> HIDE DEF nodes, behind
<1> QED
  BY <1>2, <1>4, <1>5, <1>6, <1>7, <1>8

LEMMA RetryFound == BalInv => RetryElsewhere
<1> SUFFICES ASSUME BalInv, NEW c \in Clients, at[c].target # 0
             PROVE  LET old == at[c].target
                        next == SelectedExcluding(c, {old})
                    IN /\ old \notin next /\ next \subseteq up
                       /\ next = {} => \A t \in TargetSet \ {old} :
                                         ~Available(t) \/ (balancer = "consistent_hash" /\ t \notin Built)
  BY DEF RetryElsewhere
<1> DEFINE old == at[c].target
           next == SelectedExcluding(c, {old})
<1>1. c \in Nat /\ up \in SUBSET TargetSet /\ Built \in SUBSET TargetSet
  BY BalancerAssumption DEF BalInv, Built
<1> HIDE DEF old
<1>2. CASE balancer = "consistent_hash"
  <2> DEFINE S == (Built \cap up) \ {old}
  <2>1. next = OnCircle(S, c)
    BY <1>2 DEF SelectedExcluding
  <2>2. S \in SUBSET TargetSet
    BY <1>1
  <2>3. next \in SUBSET S /\ (S # {} => next # {})
    <3> HIDE DEF S, next
    <3> QED
      BY <1>1, <2>1, <2>2, CircleMember
  <2> HIDE DEF next
  <2>4. S = {} => \A t \in TargetSet \ {old} : ~Available(t) \/ (balancer = "consistent_hash" /\ t \notin Built)
    BY <1>2 DEF Available
  <2> QED
    BY <2>3, <2>4 DEF next, old
<1>3. CASE balancer # "consistent_hash"
  <2> DEFINE S == Filtered({old})
  <2>1. next = Pick(balancer, S, c)
    BY <1>3 DEF SelectedExcluding
  <2>2. S \in SUBSET TargetSet /\ old \notin S /\ S \subseteq up
    BY DEF Filtered, Available
  <2>3. S = {} => \A t \in TargetSet \ {old} : ~Available(t)
    BY DEF Filtered
  <2> HIDE DEF S, next
  <2>4. next \in SUBSET S /\ (S # {} => next # {})
    BY <1>1, <1>3, <2>1, <2>2, PickMember DEF BalInv
  <2> QED
    BY <2>2, <2>3, <2>4 DEF next, old
<1> QED
  BY <1>2, <1>3

LEMMA BalInitInv == BalInit => BalInv
<1> SUFFICES ASSUME BalInit PROVE BalInv
  OBVIOUS
<1>1. at \in [Clients -> RequestPlaces] /\ \A c \in Clients : at[c].target = 0
  BY DEF BalInit, RequestPlaces
<1>2. \A t \in TargetSet : RequestsOn(t) = {}
  <2>1. \A t \in TargetSet : t # 0
    BY BalancerAssumption DEF TargetSet
  <2> QED
    BY <1>1, <2>1 DEF RequestsOn
<1>3. Cardinality({}) = 0
  BY FS_EmptySet
<1>4. \A t \in TargetSet : openConns[t] = Cardinality(RequestsOn(t))
  BY <1>2, <1>3 DEF BalInit
<1> QED
  BY <1>1, <1>4 DEF BalInit, BalInv

\* A request goes from one target to another, 0 being none, and the counters of
\* both follow.
ConnsMoved(old, to) ==
  [t \in TargetSet |-> IF t = to /\ t # old THEN openConns[t] + 1
                       ELSE IF t = old /\ t # to THEN openConns[t] - 1
                       ELSE openConns[t]]
PlaceMoved(c, to, n) == [at EXCEPT ![c] = [target |-> to, try |-> n]]

LEMMA RequestMoved ==
  ASSUME BalInv, NEW c \in Clients, NEW to \in TargetSet \cup {0}, NEW n \in {0, 1, 2},
         at' = PlaceMoved(c, to, n), openConns' = ConnsMoved(at[c].target, to),
         balancer' \in Algorithms, turn' \in Nat, up' \in SUBSET TargetSet,
         circle' \in SUBSET SUBSET TargetSet, lat' \in [TargetSet -> Nat]
  PROVE  BalInv'
<1> USE DEF BalInv, ConnsMoved, PlaceMoved
<1> DEFINE new == [target |-> to, try |-> n]
<1>1. new \in RequestPlaces /\ new.target = to
  BY DEF RequestPlaces
<1> HIDE DEF new
<1>2. at' \in [Clients -> RequestPlaces] /\ \A d \in Clients : at'[d] = IF d = c THEN new ELSE at[d]
  BY <1>1 DEF new
<1>3. ASSUME NEW t \in TargetSet
      PROVE  openConns'[t] = Cardinality(RequestsOn(t)') /\ openConns'[t] \in Nat
  <2> DEFINE A == RequestsOn(t)
             B == RequestsOn(t)'
  <2>1. A \in SUBSET Clients
    BY DEF RequestsOn
  <2>2. Counted(A, Clients, c) /\ openConns[t] = Cardinality(A)
    <3> HIDE DEF A
    <3>1. Counted(A, Clients, c)
      BY <2>1, SubsetCount, BalancerAssumption
    <3> QED
      BY <3>1 DEF A
  <2>3. B = {d \in Clients : (IF d = c THEN to ELSE at[d].target) = t}
    BY <1>1, <1>2 DEF RequestsOn
  <2>4. CASE t = to /\ t # at[c].target
    <3>1. B = A \cup {c} /\ c \notin A
      BY <2>3, <2>4 DEF RequestsOn
    <3>2. openConns'[t] = openConns[t] + 1
      BY <2>4
    <3> HIDE DEF A, B
    <3> QED
      BY <2>2, <3>1, <3>2 DEF Counted, B
  <2>5. CASE t = at[c].target /\ t # to
    <3>1. B = A \ {c} /\ c \in A
      BY <2>3, <2>5 DEF RequestsOn
    <3>2. openConns'[t] = openConns[t] - 1
      BY <2>5
    <3> HIDE DEF A, B
    <3> QED
      BY <2>2, <3>1, <3>2 DEF Counted, B
  <2>6. CASE (t = to) <=> (t = at[c].target)
    <3>1. B = A
      BY <2>3, <2>6 DEF RequestsOn
    <3>2. openConns'[t] = openConns[t]
      BY <2>6
    <3> HIDE DEF A, B
    <3> QED
      BY <2>2, <3>1, <3>2 DEF Counted, B
  <2> QED
    BY <2>4, <2>5, <2>6
<1>4. openConns' \in [TargetSet -> Nat]
  BY <1>3
<1> QED
  BY <1>2, <1>3, <1>4

\* Nothing moves.
LEMMA RequestsStay ==
  ASSUME BalInv, UNCHANGED <<at, openConns>>,
         balancer' \in Algorithms, turn' \in Nat, up' \in SUBSET TargetSet,
         circle' \in SUBSET SUBSET TargetSet, lat' \in [TargetSet -> Nat]
  PROVE  BalInv'
<1>1. \A t \in TargetSet : RequestsOn(t)' = RequestsOn(t)
  BY DEF RequestsOn
<1> QED
  BY <1>1 DEF BalInv

LEMMA BalStep == BalInv /\ [BalNext]_balVars => BalInv'
<1> SUFFICES ASSUME BalInv, [BalNext]_balVars PROVE BalInv'
  OBVIOUS
<1>t. /\ balancer \in Algorithms /\ turn \in Nat /\ up \in SUBSET TargetSet
      /\ circle \in SUBSET SUBSET TargetSet /\ lat \in [TargetSet -> Nat]
      /\ openConns \in [TargetSet -> Nat] /\ at \in [Clients -> RequestPlaces]
  BY DEF BalInv
<1>o. openConns \in [TargetSet -> Nat]
  BY <1>t
<1>a. \A c \in Clients : at[c].target \in TargetSet \cup {0}
  BY <1>t DEF RequestPlaces
<1>0. 0 \notin TargetSet
  BY BalancerAssumption DEF TargetSet
<1>b. Rebuilt => circle' \in SUBSET SUBSET TargetSet
  BY <1>t DEF Rebuilt, Built
<1>c. \A S : Turned(S) => turn' \in Nat
  BY <1>t, BalancerAssumption DEF Turned
<1>1. CASE UNCHANGED balVars
  BY <1>1, <1>t, RequestsStay DEF balVars
<1>2. ASSUME NEW c \in Clients, NEW t \in TargetSet, BalArrive(c, t) PROVE BalInv'
  <2>1. /\ at[c].target = 0 /\ at' = PlaceMoved(c, t, 1)
        /\ openConns' = [openConns EXCEPT ![t] = @ + 1]
        /\ UNCHANGED <<balancer, up, lat>>
    BY <1>2 DEF BalArrive, PlaceMoved
  <2>2. openConns' = ConnsMoved(at[c].target, t)
    BY <1>o, <1>0, <2>1 DEF ConnsMoved
  <2>3. turn' \in Nat /\ circle' \in SUBSET SUBSET TargetSet
    <3>1. Rebuilt /\ (turn' = turn \/ Turned(Filtered({})))
      BY <1>2 DEF BalArrive
    <3> QED
      BY <1>t, <1>b, <1>c, <3>1
  <2> QED
    BY <1>t, <2>1, <2>2, <2>3, RequestMoved
<1>3. ASSUME NEW c \in Clients, NEW t \in TargetSet, Retry(c, t) PROVE BalInv'
  <2> DEFINE old == at[c].target
  <2>1. /\ old # 0 /\ t \in SelectedExcluding(c, {old})
        /\ at' = PlaceMoved(c, t, 2)
        /\ openConns' = [openConns EXCEPT ![old] = @ - 1, ![t] = @ + 1]
        /\ Turned(Filtered({old})) /\ Rebuilt /\ UNCHANGED <<balancer, up, lat>>
    BY <1>3 DEF Retry, PlaceMoved
  <2>2. t # old /\ old \in TargetSet
    BY <1>a, <2>1, RetryFound DEF RetryElsewhere
  <2>3. openConns' = ConnsMoved(old, t)
    <3> HIDE DEF old
    <3> QED
      BY <1>o, <2>1, <2>2 DEF ConnsMoved
  <2>4. turn' \in Nat /\ circle' \in SUBSET SUBSET TargetSet
    BY <1>b, <1>c, <2>1
  <2> QED
    BY <1>t, <2>1, <2>3, <2>4, RequestMoved
<1>4. ASSUME NEW c \in Clients, GiveUp(c) PROVE BalInv'
  <2> DEFINE old == at[c].target
  <2>1. /\ old # 0 /\ at' = PlaceMoved(c, 0, 0)
        /\ openConns' = [openConns EXCEPT ![old] = @ - 1]
        /\ Rebuilt /\ UNCHANGED <<balancer, up, turn, lat>>
    BY <1>4 DEF GiveUp, PlaceMoved
  <2>2. old \in TargetSet
    BY <1>a, <2>1
  <2>3. openConns' = ConnsMoved(old, 0)
    <3> HIDE DEF old
    <3> QED
      BY <1>o, <1>0, <2>1, <2>2 DEF ConnsMoved
  <2> QED
    BY <1>t, <1>b, <2>1, <2>3, RequestMoved
<1>5. ASSUME NEW c \in Clients, NEW d \in {1, 2}, TargetAnswers(c, d) PROVE BalInv'
  <2> DEFINE old == at[c].target
  <2>1. /\ old # 0 /\ at' = PlaceMoved(c, 0, 0)
        /\ openConns' = [openConns EXCEPT ![old] = @ - 1]
        /\ UNCHANGED <<balancer, up, turn, circle>>
    BY <1>5 DEF TargetAnswers, PlaceMoved
  <2>2. old \in TargetSet
    BY <1>a, <2>1
  <2>3. openConns' = ConnsMoved(old, 0)
    <3> HIDE DEF old
    <3> QED
      BY <1>o, <1>0, <2>1, <2>2 DEF ConnsMoved
  <2>4. lat' \in [TargetSet -> Nat]
    <3>1. lat' = lat \/ \E v \in Nat : lat' = [lat EXCEPT ![old] = v]
      BY <1>5, <1>t, <2>2 DEF TargetAnswers
    <3> QED
      BY <1>t, <3>1
  <2> QED
    BY <1>t, <2>1, <2>3, <2>4, RequestMoved
<1>6. ASSUME NEW t \in TargetSet, HealthChanges(t) PROVE BalInv'
  BY <1>6, <1>t, RequestsStay DEF HealthChanges
<1>7. ASSUME NEW t \in TargetSet, FailTimeout(t) PROVE BalInv'
  BY <1>7, <1>t, RequestsStay DEF FailTimeout
<1>8. ASSUME NEW c \in Clients, CookieExpires(c) PROVE BalInv'
  BY <1>8, <1>t, RequestsStay DEF CookieExpires
<1>9. ASSUME NEW c \in Clients, NoTarget(c) PROVE BalInv'
  BY <1>9, <1>t, <1>b, RequestsStay DEF NoTarget
<1> QED
  BY <1>1, <1>2, <1>3, <1>4, <1>5, <1>6, <1>7, <1>8, <1>9 DEF BalNext

\* For every algorithm, any targets, weights, backups and circle, and whatever
\* has happened to health, limits, cookies and counters: a second try never
\* returns to the target that has just failed, goes to a healthy one, and is
\* refused only when nobody else can take it (balancer.go:409-543,
\* consistent_hash.go:236, sticky.go:143).
THEOREM BalancersRetryElsewhere == BalSpec => []RetryElsewhere
<1> QED
  BY BalInitInv, BalStep, RetryFound, PTL DEF BalSpec

-----------------------------------------------------------------------------
(* The shares of the algorithms *)

\* Weighted round robin takes t exactly when the counter is at one of its turns.
LEMMA WeightedTurn ==
  ASSUME NEW S \in SUBSET TargetSet, NEW t \in S, NEW n \in Nat
  PROVE  Weighted(S, n) = {t} <=>
           n % TotalWeight(S) \in TotalWeight({u \in S : u < t})
                                    ..(TotalWeight({u \in S : u < t}) + WeightOf[t] - 1)
<1> DEFINE upTo(u) == TotalWeight({v \in S : v <= u})
           below(u) == TotalWeight({v \in S : v < u})
           d == TotalWeight(S)
           r == n % d
           fits == {u \in S : r < upTo(u)}
<1>1. S \in SUBSET (1..NTargets) /\ NTargets \in Nat
  BY TargetsCounted
<1>2. \A u \in S : upTo(u) \in Nat /\ below(u) \in Nat /\ upTo(u) = below(u) + WeightOf[u]
                   /\ upTo(u) <= d
  <2> SUFFICES ASSUME NEW u \in S
               PROVE upTo(u) \in Nat /\ below(u) \in Nat /\ upTo(u) = below(u) + WeightOf[u]
                     /\ upTo(u) <= d
    OBVIOUS
  <2>1. {v \in S : v <= u} \in SUBSET TargetSet
    OBVIOUS
  <2> QED
    BY <2>1, TurnsOf, TotalIsCount
<1>3. \A u, v \in S : u < v => upTo(u) <= below(v)
  <2> SUFFICES ASSUME NEW u \in S, NEW v \in S, u < v PROVE upTo(u) <= below(v)
    OBVIOUS
  <2>1. \A x \in S : x <= u => x < v
    <3> SUFFICES ASSUME NEW x \in S, x <= u PROVE x < v
      OBVIOUS
    <3>1. x \in Nat /\ u \in Nat /\ v \in Nat
      BY <1>1
    <3> QED
      BY <3>1
  <2>2. {x \in S : x <= u} \in SUBSET {x \in S : x < v} /\ {x \in S : x < v} \in SUBSET TargetSet
    BY <2>1
  <2> QED
    BY <2>2, TotalGrows
<1>4. r \in Nat /\ fits # {} /\ Weighted(S, n) = {Min(fits)}
  <2>1. d \in Nat \ {0}
    BY TotalPositive
  <2>2. r \in Nat /\ r < d
    <3> HIDE DEF d
    <3> QED
      BY <2>1
  <2>3. Max(S) \in S /\ \A y \in S : y <= Max(S)
    BY <1>1, LastPosition
  <2>4. {v \in S : v <= Max(S)} = S
    BY <2>3
  <2>5. Max(S) \in fits
    BY <2>2, <2>3, <2>4
  <2>6. Weighted(S, n) = {Min(fits)}
    BY DEF Weighted
  <2> HIDE DEF fits, d, r
  <2> QED
    BY <2>2, <2>5, <2>6
<1>5. fits \in SUBSET (1..NTargets)
  BY <1>1
<1> HIDE DEF r, d
<1>6. Min(fits) \in fits /\ \A y \in fits : Min(fits) <= y
  <2> HIDE DEF fits
  <2> QED
    BY <1>1, <1>4, <1>5, FirstPosition
<1>7. ASSUME NEW u \in S PROVE u \in fits <=> r < upTo(u)
  OBVIOUS
<1> DEFINE m == Min(fits)
<1>8. m \in S /\ r < upTo(m) /\ \A y \in S : r < upTo(y) => m <= y
  BY <1>6
<1> HIDE DEF m, fits, upTo, below
<1>9. WeightOf[t] \in Nat /\ t \in Nat /\ m \in Nat
  BY <1>1, <1>8, WeightsTyped
<1>10. ASSUME m = t PROVE below(t) <= r
  <2> DEFINE P == {v \in S : v < t}
  <2>1. CASE P = {}
    BY <1>4, <2>1, TotalSteps DEF below
  <2>2. CASE P # {}
    <3> DEFINE p == Max(P)
    <3>1. p \in P /\ \A y \in P : y <= p
      <4>1. P \in SUBSET (1..NTargets)
        BY <1>1
      <4> HIDE DEF P
      <4> QED
        BY <1>1, <2>2, <4>1, LastPosition
    <3> HIDE DEF p
    <3>2. {v \in S : v <= p} = P
      <4>1. ASSUME NEW v \in S PROVE v <= p <=> v < t
        <5>1. v \in Nat /\ p \in Nat /\ t \in Nat /\ p < t
          BY <1>1, <3>1
        <5>2. v < t => v <= p
          BY <3>1
        <5> QED
          BY <5>1, <5>2
      <4> QED
        BY <4>1
    <3>3. upTo(p) = below(t)
      BY <3>2 DEF upTo, below
    <3>4. p \in S /\ p < m /\ p \in Nat
      BY <1>1, <1>10, <3>1
    <3>5. ~(r < upTo(p))
      BY <1>8, <1>9, <3>4
    <3> QED
      BY <1>2, <1>4, <3>3, <3>4, <3>5
  <2> QED
    BY <2>1, <2>2
<1>11. ASSUME below(t) <= r, r < upTo(t) PROVE m = t
  <2>1. m <= t
    BY <1>8, <1>11
  <2>2. ~(m < t)
    <3> SUFFICES ASSUME m < t PROVE FALSE
      OBVIOUS
    <3>1. upTo(m) <= below(t) /\ upTo(m) \in Nat /\ below(t) \in Nat
      BY <1>2, <1>3, <1>8
    <3> QED
      BY <1>4, <1>8, <1>11, <3>1
  <2> QED
    BY <1>9, <2>1, <2>2
<1>12. Weighted(S, n) = {t} <=> m = t
  BY <1>4 DEF m
<1>13. r \in below(t)..(below(t) + WeightOf[t] - 1) <=> below(t) <= r /\ r < upTo(t)
  BY <1>2, <1>4, <1>9
<1>14. r \in below(t)..(below(t) + WeightOf[t] - 1) <=> Weighted(S, n) = {t}
  BY <1>8, <1>10, <1>11, <1>12, <1>13
<1> QED
  BY <1>14 DEF r, d, below

\* All the turns of a target come once in as many requests as the weights add up
\* to.
LEMMA WeightsFollow == BalInv => WeightsRespected
<1> SUFFICES ASSUME BalInv, NEW S, S = Filtered({}), S # {}, NEW t \in S
             PROVE  Cardinality({k \in 0..(TotalWeight(S) - 1) : Weighted(S, turn + k) = {t}})
                      = WeightOf[t]
  BY DEF WeightsRespected
<1>1. S \in SUBSET TargetSet /\ turn \in Nat
  BY DEF Filtered, BalInv
<1> DEFINE d == TotalWeight(S)
           b == TotalWeight({u \in S : u < t})
           w == WeightOf[t]
<1>2. d \in Nat \ {0} /\ b \in Nat /\ w \in Nat /\ b + w <= d
  <2>1. b \in Nat /\ b + w <= d
    BY <1>1, TurnsOf
  <2> QED
    BY <1>1, <2>1, TotalPositive, WeightsTyped
<1>3. ASSUME NEW k \in 0..(d - 1)
      PROVE  Weighted(S, turn + k) = {t} <=> (turn + k) % d \in b..(b + w - 1)
  <2>1. turn + k \in Nat
    BY <1>1, <1>2
  <2> QED
    BY <1>1, <2>1, WeightedTurn
<1> HIDE DEF d, b, w
<1>4. {k \in 0..(d - 1) : Weighted(S, turn + k) = {t}}
        = {k \in 0..(d - 1) : (turn + k) % d \in b..(b + w - 1)}
  BY <1>3
<1>5. Cardinality({k \in 0..(d - 1) : (turn + k) % d \in b..(b + w - 1)}) = w
  BY <1>1, <1>2, ShiftCount
<1> QED
  BY <1>4, <1>5 DEF d, w

\* The node a key has been given is the first one that is left, too.
LEMMA CircleFollows == BalInv => CircleMovesFew
<1> SUFFICES ASSUME BalInv, balancer = "consistent_hash", NEW c \in Clients,
                    NEW E \in SUBSET TargetSet, NEW t \in OnCircle(Built \cap up, c), t \notin E
             PROVE  SelectedExcluding(c, E) = {t}
  BY DEF CircleMovesFew
<1> DEFINE S == Built \cap up
           nodes == {p \in DOMAIN Circle : Circle[p] \in S}
           behind == {p \in nodes : p >= c}
           left == {p \in DOMAIN Circle : Circle[p] \in S \ E}
           leftBehind == {p \in left : p >= c}
<1>1. SelectedExcluding(c, E) = OnCircle(S \ E, c)
  BY DEF SelectedExcluding
<1>2. DOMAIN Circle = 1..Len(Circle) /\ Len(Circle) \in Nat /\ c \in Nat
  BY BalancerAssumption
<1>3. nodes \in SUBSET (1..Len(Circle)) /\ left \in SUBSET (1..Len(Circle))
  BY <1>2
<1>4. left \in SUBSET nodes /\ leftBehind \in SUBSET behind
  OBVIOUS
<1>5. /\ behind \in SUBSET nodes /\ leftBehind \in SUBSET left
      /\ \A p \in nodes : Circle[p] \notin E => p \in left /\ (p \in behind => p \in leftBehind)
  OBVIOUS
<1>6. OnCircle(S, c) = IF nodes = {} THEN {} ELSE {Circle[IF behind # {} THEN Min(behind) ELSE Min(nodes)]}
  <2>1. (\E p \in nodes : p >= c) <=> behind # {}
    OBVIOUS
  <2> HIDE DEF S
  <2> QED
    BY <2>1 DEF OnCircle
<1>7. OnCircle(S \ E, c) = IF left = {} THEN {} ELSE {Circle[IF leftBehind # {} THEN Min(leftBehind) ELSE Min(left)]}
  <2>1. (\E p \in left : p >= c) <=> leftBehind # {}
    OBVIOUS
  <2> HIDE DEF S
  <2> QED
    BY <2>1 DEF OnCircle
<1> HIDE DEF nodes, behind, left, leftBehind
<1>8. ASSUME NEW A \in SUBSET (1..Len(Circle)), NEW B \in SUBSET A, A # {}, Min(A) \in B
      PROVE  Min(B) = Min(A)
  <2>1. Min(A) \in A /\ \A y \in A : Min(A) <= y
    BY <1>2, <1>8, FirstPosition
  <2>2. Min(B) \in B /\ \A y \in B : Min(B) <= y
    BY <1>2, <1>8, FirstPosition
  <2> DEFINE a == Min(A)
             b == Min(B)
  <2> HIDE DEF a, b
  <2>3. a \in B /\ b \in A /\ a <= b /\ b <= a
    BY <1>8, <2>1, <2>2 DEF a, b
  <2>4. a \in Nat /\ b \in Nat
    BY <2>3
  <2>5. a = b
    BY <2>3, <2>4
  <2> QED
    BY <2>5 DEF a, b
<1>9. nodes # {} /\ t = Circle[IF behind # {} THEN Min(behind) ELSE Min(nodes)]
  BY <1>6
<1>10. CASE behind # {}
  <2>1. Min(behind) \in behind
    BY <1>2, <1>3, <1>5, <1>10, FirstPosition
  <2>2. Min(behind) \in leftBehind
    BY <1>5, <1>9, <1>10, <2>1
  <2>3. Min(leftBehind) = Min(behind)
    BY <1>3, <1>4, <1>5, <1>8, <1>10, <2>2
  <2> QED
    BY <1>1, <1>5, <1>7, <1>9, <1>10, <2>2, <2>3
<1>11. CASE behind = {}
  <2>1. Min(nodes) \in nodes
    BY <1>2, <1>3, <1>9, FirstPosition
  <2>2. Min(nodes) \in left
    BY <1>5, <1>9, <1>11, <2>1
  <2>3. Min(left) = Min(nodes)
    BY <1>3, <1>4, <1>8, <1>9, <2>2
  <2> QED
    BY <1>1, <1>4, <1>7, <1>9, <1>11, <2>2, <2>3
<1> QED
  BY <1>10, <1>11

\* balancer.go:194-231, 446-483, consistent_hash.go:256-274: for any weights and any
\* circle, every target gets exactly its weight of as many turns as the weights add
\* up to, wherever the counter is, and leaving targets out moves only their clients.
THEOREM BalancersSharesKept == BalSpec => []SharesKept
<1>1. BalInv => SharesKept
  BY WeightsFollow, CircleFollows DEF SharesKept
<1> QED
  BY <1>1, BalInitInv, BalStep, PTL DEF BalSpec
=============================================================================
