------------------------------ MODULE AcmeStore -----------------------------
(***************************************************************************)
(* The agent's Let's Encrypt certificates: the three files that            *)
(* AcmeIssuer::ensure_certificate keeps in one directory                   *)
(* (src/agent/src/acme.rs) and the HTTP proxy that HttpProxyRunner::apply  *)
(* starts with them (src/agent/src/http_proxy.rs).                         *)
(*                                                                         *)
(* The directory is named after the first host in order, so different host *)
(* sets with the same first host share it; those are the sets modelled.    *)
(* Runner calls are serialized by the runner's mutex, so there is one      *)
(* apply at a time.  What overlaps with it is the proxy's thread, which    *)
(* may end by itself, and the end of the process between two file writes.  *)
(***************************************************************************)
EXTENDS Naturals

CONSTANTS
  HostSets,    \* host sets an apply may order for, with the same first host
  NotRunning,  \* HttpProxyRunner.running is None
  MaxOrders,   \* bound: certificates issued in a behaviour
  MaxFaults    \* bound: crashes, and failed writes

ASSUME HostsAssumption == {} \notin HostSets
ASSUME BoundAssumption == MaxOrders \in Nat /\ MaxFaults \in Nat

VARIABLES
  key,      \* key.pem: the order it comes from, 0 when there is no file
  cert,     \* fullchain.pem: its order, the hosts it covers, renewal due or not
  marker,   \* domains.txt: the hosts in it, and the order that wrote it, which
            \* the file does not say
  pc,       \* where the current apply is
  want,     \* the hosts of the current apply that resolve
  outcome,  \* CertificateOutcome: paths given or not, renewed, error
  running,  \* the proxy: hosts served over TLS, and the pair it loaded
  ok,       \* the last apply reported no error
  orders,   \* certificates issued so far
  unloaded, \* not in the code: an apply changed files and ended in an error
            \* before the restart, and the proxy was not started since
  crashes, writeFailures

diskVars == <<key, cert, marker>>
faultVars == <<crashes, writeFailures>>
vars == <<key, cert, marker, pc, want, outcome, running, ok, orders,
          unloaded, crashes, writeFailures>>

\* No resolvable host, or Let's Encrypt switched off.
Wanted == HostSets \cup {{}}

NoFile == [order |-> 0, hosts |-> {}, due |-> FALSE]
NoMarker == [order |-> 0, hosts |-> {}]

Outcome == [paths : BOOLEAN, renewed : BOOLEAN, error : BOOLEAN]
Kept == [paths |-> TRUE, renewed |-> FALSE, error |-> FALSE]
Issued(error) == [paths |-> TRUE, renewed |-> TRUE, error |-> error]
Skipped == [paths |-> FALSE, renewed |-> FALSE, error |-> TRUE]

Proxy(hosts) ==
  [hosts |-> hosts, alive |-> TRUE,
   key |-> IF hosts = {} THEN 0 ELSE key,
   cert |-> IF hosts = {} THEN 0 ELSE cert.order]

(***************************************************************************)
(* ensure_certificate.                                                     *)
(***************************************************************************)

Parseable == key # 0 /\ cert.order # 0

\* Mutation: the key is not compared with the certificate.
FreshWithoutKey(h) == Parseable /\ marker.hosts = h /\ ~cert.due

\* inspect_certificate: present, one pair, for these hosts by the marker, and
\* not within thirty days of its end.
Fresh(h) == Parseable /\ key = cert.order /\ marker.hosts = h /\ ~cert.due

\* What a failed order falls back to: anything whose expiry could be read.
Existing == [paths |-> Parseable, renewed |-> FALSE, error |-> TRUE]

\* The HTTP listener for the challenge; a dead proxy that was not reaped yet
\* counts as running.
Listening == IF running = NotRunning THEN Proxy({}) ELSE running

\* apply up to the order.  It ends early when the listener does not start or
\* when the directory of the store cannot be created.  With Let's Encrypt off
\* the listener is left to ensure_running.
Apply(h, force) ==
  LET needed == h # {} /\ (force \/ ~Fresh(h)) IN
  /\ pc = "idle"
  /\ want' = h
  /\ \/ /\ running' = Listening \/ (h = {} /\ UNCHANGED running)
        /\ pc' = IF needed THEN "order" ELSE "serve"
        /\ outcome' = IF needed THEN Existing ELSE IF h = {} THEN Skipped ELSE Kept
        /\ UNCHANGED ok
     \/ /\ \/ running = NotRunning /\ UNCHANGED running
           \/ needed /\ running' = Listening
        /\ ok' = FALSE
        /\ UNCHANGED <<pc, outcome>>
  /\ UNCHANGED <<diskVars, orders, unloaded, faultVars>>

OrderFails ==
  /\ pc = "order"
  /\ pc' = "serve"
  /\ UNCHANGED <<diskVars, want, outcome, running, ok, orders, unloaded, faultVars>>

OrderSucceeds ==
  /\ pc = "order"
  /\ orders < MaxOrders
  /\ orders' = orders + 1
  /\ pc' = "key"
  /\ UNCHANGED <<diskVars, want, outcome, running, ok, unloaded, faultVars>>

\* Mutation: the marker is followed by a step that nothing takes.
NextWriteStrands == [key |-> "cert", cert |-> "marker", marker |-> "done"]

\* The steps in the order of the code: key, certificate, marker.
NextWrite == [key |-> "cert", cert |-> "marker", marker |-> "serve"]

\* What a finished write leaves on disk.  A certificate that lives for less
\* than thirty days is due when it is new.
Written(file) ==
  /\ key' = IF file = "key" THEN orders ELSE key
  /\ \E due \in BOOLEAN :
       cert' = IF file = "cert"
               THEN [order |-> orders, hosts |-> want, due |-> due] ELSE cert
  /\ marker' = IF file = "marker" THEN [order |-> orders, hosts |-> want] ELSE marker

\* What was written is read again: a certificate that looks stale already, or
\* cannot be read, is an error beside a certificate renewed all the same.
Inspected(file) ==
  \E error \in BOOLEAN :
    /\ cert.due => error
    /\ outcome' = IF file = "marker" THEN Issued(error) ELSE outcome

\* Mutation: the marker is written before the key.
WriteMarkerFirst(file) ==
  /\ pc = file
  /\ Written(CASE file = "key" -> "marker" [] file = "cert" -> "key" [] OTHER -> "cert")
  /\ pc' = NextWrite[file]
  /\ Inspected(file)
  /\ UNCHANGED <<want, running, ok, orders, unloaded, faultVars>>

\* write_atomic: a file is replaced by a rename.
Write(file) ==
  /\ pc = file
  /\ Written(file)
  /\ pc' = NextWrite[file]
  /\ Inspected(file)
  /\ UNCHANGED <<want, running, ok, orders, unloaded, faultVars>>

\* A write fails: ensure_certificate and apply return the error, and the proxy
\* is left as it is.  A key may be in place already, its mode not yet set.
WriteFails(file) ==
  /\ pc = file
  /\ writeFailures < MaxFaults
  /\ writeFailures' = writeFailures + 1
  /\ \/ UNCHANGED diskVars
     \/ file = "key" /\ Written("key")
  /\ unloaded' = (unloaded \/ file # "key" \/ key' # key)
  /\ pc' = "idle"
  /\ ok' = FALSE
  /\ UNCHANGED <<want, outcome, running, orders, crashes>>

(***************************************************************************)
(* The proxy.                                                              *)
(***************************************************************************)

ServedHosts == IF outcome.paths THEN want ELSE {}

\* Mutation: a renewal does not restart the proxy.
SameRuntimeByPath ==
  running # NotRunning /\ running.alive /\ running.hosts = ServedHosts

\* ensure_running compares hosts and paths, after a renewal has stopped the
\* proxy and a dead one was reaped.
SameRuntime ==
  /\ running # NotRunning
  /\ running.alive
  /\ ~outcome.renewed
  /\ running.hosts = ServedHosts

\* store_custom_certificate: a pasted certificate that does not parse, does
\* not fit its key or cannot be written ends apply before the restart, and the
\* proxy is left as it is, a certificate renewed or not.
StoreCustomFails ==
  /\ pc = "serve"
  /\ pc' = "idle"
  /\ ok' = FALSE
  /\ unloaded' = (unloaded \/ outcome.renewed)
  /\ UNCHANGED <<diskVars, want, outcome, running, orders, faultVars>>

\* The rest of apply, whose pasted certificates are stored.  A stop or a start
\* that fails ends it without a proxy.
Serve ==
  /\ pc = "serve"
  /\ pc' = "idle"
  /\ \/ /\ running' = IF SameRuntime THEN running ELSE Proxy(ServedHosts)
        /\ ok' = ~outcome.error
     \/ /\ ~SameRuntime
        /\ running' = NotRunning
        /\ ok' = FALSE
  /\ unloaded' = (unloaded /\ SameRuntime)
  /\ UNCHANGED <<diskVars, want, outcome, orders, faultVars>>

\* Runner::stop, or a configuration without a proxy.
StopProxy ==
  /\ pc = "idle"
  /\ running # NotRunning
  /\ running' = NotRunning
  /\ unloaded' = FALSE
  /\ UNCHANGED <<diskVars, pc, want, outcome, ok, orders, faultVars>>

\* Pingora's thread ends by itself, an apply in progress or not.
ProxyDies ==
  /\ running # NotRunning
  /\ running.alive
  /\ running' = [running EXCEPT !.alive = FALSE]
  /\ UNCHANGED <<diskVars, pc, want, outcome, ok, orders, unloaded, faultVars>>

\* Runner::refresh, which the reporting loop calls under the mutex.
Refresh ==
  /\ pc = "idle"
  /\ running # NotRunning
  /\ ~running.alive
  /\ running' = NotRunning
  /\ unloaded' = FALSE
  /\ UNCHANGED <<diskVars, pc, want, outcome, ok, orders, faultVars>>

\* Sixty days pass.
CertificateAges ==
  /\ pc = "idle"
  /\ cert.order # 0
  /\ ~cert.due
  /\ cert' = [cert EXCEPT !.due = TRUE]
  /\ UNCHANGED <<key, marker, pc, want, outcome, running, ok, orders, unloaded, faultVars>>

\* The agent's process ends and starts again.
Crash ==
  /\ crashes < MaxFaults
  /\ crashes' = crashes + 1
  /\ pc' = "idle"
  /\ running' = NotRunning
  /\ ok' = FALSE
  /\ outcome' = Skipped
  /\ unloaded' = FALSE
  /\ UNCHANGED <<diskVars, want, orders, writeFailures>>

(***************************************************************************)
(* The specification.                                                      *)
(***************************************************************************)

Init ==
  /\ key = 0 /\ cert = NoFile /\ marker = NoMarker
  /\ pc = "idle" /\ want = {} /\ outcome = Skipped
  /\ running = NotRunning /\ ok = FALSE
  /\ orders = 0 /\ unloaded = FALSE /\ crashes = 0 /\ writeFailures = 0

Files == {"key", "cert", "marker"}

IssueStep ==
  \/ \E h \in Wanted, force \in BOOLEAN : Apply(h, force)
  \/ OrderFails \/ OrderSucceeds
  \/ \E file \in Files : Write(file) \/ WriteFails(file)

ProxyStep == StoreCustomFails \/ Serve \/ StopProxy \/ ProxyDies \/ Refresh

Next == IssueStep \/ ProxyStep \/ CertificateAges \/ Crash

Spec == Init /\ [][Next]_vars

(***************************************************************************)
(* Properties.                                                             *)
(***************************************************************************)

\* Every variable keeps its type; what the proxy loaded is on record as the
\* orders of its key and certificate.
TypeOK ==
  /\ key \in Nat
  /\ cert \in [order : Nat, hosts : Wanted, due : BOOLEAN]
  /\ marker \in [order : Nat, hosts : Wanted]
  /\ pc \in {"idle", "order", "serve"} \cup Files
  /\ want \in Wanted
  /\ outcome \in Outcome
  /\ running \in {NotRunning}
       \cup [hosts : Wanted, alive : BOOLEAN, key : Nat, cert : Nat]
  /\ ok \in BOOLEAN /\ unloaded \in BOOLEAN
  /\ orders \in Nat /\ crashes \in Nat /\ writeFailures \in Nat

\* Whatever crashed or failed between the writes, a marker is never newer than
\* the certificate it describes, nor a certificate newer than its key: no
\* marker claims an order whose pair was not completed.
WritesNest == marker.order <= cert.order /\ cert.order <= key /\ key <= orders

Serving == running # NotRunning /\ running.alive /\ running.hosts # {}

\* An apply that reports no error leaves the proxy with a key and a certificate
\* of one order, whatever earlier crashes and failed orders left behind; unless
\* one before it renewed them and stopped short of the restart.
PairOrError ==
  pc = "idle" /\ ok /\ Serving /\ ~unloaded => running.key = running.cert

\* Every apply leaves the proxy with the pair that is on disk, and a renewal,
\* which keeps the paths, is loaded all the same; unless an error stopped an
\* apply between its first write and the restart, until the proxy is started.
RenewalIsLoaded ==
  pc = "idle" /\ Serving /\ ~unloaded
    => running.key = key /\ running.cert = cert.order

=============================================================================
