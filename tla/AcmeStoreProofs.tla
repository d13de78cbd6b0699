--------------------------- MODULE AcmeStoreProofs --------------------------
(***************************************************************************)
(* Proofs about AcmeStore, for any host sets and any number of orders,     *)
(* crashes and failed writes.                                              *)
(*                                                                         *)
(* WritesNest needs to know what is on disk between two writes of an order *)
(* (HalfWritten).  RenewalIsLoaded needs to know that the loaded pair      *)
(* differs from the one on disk only while an order is being written,      *)
(* waits to be loaded, or was given up half-way (Loaded), and PairOrError  *)
(* that an apply about to end without an error found or wrote a complete   *)
(* pair (Complete).                                                        *)
(***************************************************************************)
EXTENDS AcmeStore, TLAPS

USE HostsAssumption, BoundAssumption

\* The files an order has written so far carry its number.
HalfWritten ==
  /\ pc \in {"cert", "marker"} => key = orders
  /\ pc = "marker" => cert.order = orders
  /\ pc = "order" => outcome.error
  /\ pc \in {"order", "key"} => ~outcome.renewed

\* The proxy has the pair on disk unless an order is under way or was given up.
Loaded ==
  Serving /\ ~unloaded /\ pc \notin {"cert", "marker"}
    /\ ~(pc = "serve" /\ outcome.renewed)
  => running.key = key /\ running.cert = cert.order

\* An apply that has no error to report has a complete pair.
Complete == pc = "serve" /\ ~outcome.error => key = cert.order

IInv == TypeOK /\ WritesNest /\ HalfWritten /\ Loaded /\ Complete /\ PairOrError

\* The initial states: no files, no proxy.
LEMMA InitIInv == Init => IInv
<1> SUFFICES ASSUME Init PROVE IInv
  OBVIOUS
<1>1. NoFile \in [order : Nat, hosts : Wanted, due : BOOLEAN]
      /\ NoMarker \in [order : Nat, hosts : Wanted] /\ Skipped \in Outcome /\ {} \in Wanted
  BY DEF NoFile, NoMarker, Skipped, Outcome, Wanted
<1>2. TypeOK
  BY <1>1 DEF Init, TypeOK
<1>3. WritesNest /\ HalfWritten
  BY DEF Init, WritesNest, HalfWritten, NoFile, NoMarker
<1>4. Loaded /\ Complete /\ PairOrError
  BY DEF Init, Loaded, Complete, PairOrError, Serving
<1> QED
  BY <1>2, <1>3, <1>4 DEF IInv

\* What a proxy started now has loaded.
LEMMA ProxyLoads ==
  ASSUME TypeOK, NEW hosts \in Wanted
  PROVE  /\ Proxy(hosts) \in [hosts : Wanted, alive : BOOLEAN, key : Nat, cert : Nat]
         /\ Proxy(hosts).hosts = hosts
         /\ hosts # {} => Proxy(hosts).key = key /\ Proxy(hosts).cert = cert.order
BY DEF Proxy, TypeOK

\* Every variable keeps its type.
LEMMA TypeStep == TypeOK /\ [Next]_vars => TypeOK'
<1> SUFFICES ASSUME TypeOK, [Next]_vars PROVE TypeOK'
  OBVIOUS
<1>1. /\ Kept \in Outcome /\ \A error \in BOOLEAN : Issued(error) \in Outcome
      /\ Skipped \in Outcome /\ Existing \in Outcome
  BY DEF Kept, Issued, Skipped, Existing, Outcome, Parseable
<1>2. {} \in Wanted /\ ServedHosts \in Wanted
  BY DEF Wanted, ServedHosts, TypeOK
<1>3. ASSUME NEW h \in Wanted, NEW force \in BOOLEAN, Apply(h, force)
      PROVE  TypeOK'
  <2>1. /\ UNCHANGED <<key, cert, marker, orders, unloaded, crashes, writeFailures>>
        /\ want' = h
        /\ running' \in {running, Proxy({})}
        /\ ok' \in {ok, FALSE}
        /\ pc' \in {"idle", "serve", "order"}
        /\ outcome' \in {outcome, Skipped, Kept, Existing}
    BY <1>3 DEF Apply, Listening, diskVars, faultVars
  <2> QED
    BY <1>1, <1>2, <2>1, ProxyLoads DEF TypeOK
<1>4. ASSUME NEW file \in Files, Write(file)
      PROVE  TypeOK'
  <2>1. /\ UNCHANGED <<want, running, ok, orders, unloaded, crashes, writeFailures>>
        /\ key' \in {key, orders}
        /\ cert' \in {cert} \cup {[order |-> orders, hosts |-> want, due |-> due] : due \in BOOLEAN}
        /\ marker' \in {marker, [order |-> orders, hosts |-> want]}
        /\ outcome' \in {outcome} \cup {Issued(error) : error \in BOOLEAN}
    BY <1>4 DEF Write, Written, Inspected, faultVars
  <2>2. pc' \in {"idle", "order", "serve"} \cup Files
    BY <1>4 DEF Write, NextWrite, Files
  <2>3. /\ \A due \in BOOLEAN : [order |-> orders, hosts |-> want, due |-> due]
                                \in [order : Nat, hosts : Wanted, due : BOOLEAN]
        /\ [order |-> orders, hosts |-> want] \in [order : Nat, hosts : Wanted]
    BY DEF TypeOK
  <2>4. /\ key' \in Nat /\ outcome' \in Outcome
        /\ cert' \in [order : Nat, hosts : Wanted, due : BOOLEAN]
        /\ marker' \in [order : Nat, hosts : Wanted]
    BY <1>1, <2>1, <2>3 DEF TypeOK
  <2> QED
    BY <2>1, <2>2, <2>4 DEF TypeOK
<1>5. ASSUME NEW file \in Files, WriteFails(file)
      PROVE  TypeOK'
  <2>1. /\ UNCHANGED <<cert, marker, want, outcome, running, orders, crashes>>
        /\ key' \in {key, orders} /\ pc' = "idle" /\ ok' = FALSE /\ unloaded' \in BOOLEAN
        /\ writeFailures' = writeFailures + 1
    BY <1>5 DEF WriteFails, Written, diskVars
  <2>2. key' \in Nat /\ writeFailures' \in Nat
    BY <2>1 DEF TypeOK
  <2> QED
    BY <2>1, <2>2 DEF TypeOK
<1>6. CASE OrderFails \/ OrderSucceeds
  BY <1>6 DEF OrderFails, OrderSucceeds, TypeOK, Files, diskVars, faultVars
<1>7. CASE Serve \/ StoreCustomFails
  <2>1. /\ UNCHANGED <<key, cert, marker, want, outcome, orders, crashes, writeFailures>>
        /\ pc' = "idle" /\ unloaded' \in BOOLEAN
        /\ running' \in {running, Proxy(ServedHosts), NotRunning}
        /\ ok' \in {~outcome.error, FALSE}
    BY <1>7 DEF Serve, StoreCustomFails, TypeOK, diskVars, faultVars
  <2>2. ok' \in BOOLEAN
    BY <2>1
  <2> QED
    BY <1>2, <2>1, <2>2, ProxyLoads DEF TypeOK
<1>8. CASE StopProxy \/ Refresh \/ CertificateAges \/ Crash
  <2>1. CASE StopProxy \/ Refresh
    BY <2>1 DEF StopProxy, Refresh, TypeOK, diskVars, faultVars
  <2>2. CASE CertificateAges
    <3>1. /\ UNCHANGED <<key, marker, pc, want, outcome, running, ok, orders, crashes,
                          unloaded, writeFailures>>
          /\ cert' = [cert EXCEPT !.due = TRUE]
      BY <2>2 DEF CertificateAges, faultVars
    <3>2. cert' \in [order : Nat, hosts : Wanted, due : BOOLEAN]
      BY <3>1 DEF TypeOK
    <3> QED
      BY <3>1, <3>2 DEF TypeOK
  <2>3. CASE Crash
    <3>1. /\ UNCHANGED <<key, cert, marker, want, orders, writeFailures>>
          /\ pc' = "idle" /\ running' = NotRunning /\ ok' = FALSE /\ unloaded' = FALSE
          /\ outcome' = Skipped /\ crashes' = crashes + 1
      BY <2>3 DEF Crash, diskVars
    <3>2. crashes' \in Nat
      BY <3>1 DEF TypeOK
    <3> QED
      BY <1>1, <3>1, <3>2 DEF TypeOK
  <2> QED
    BY <1>8, <2>1, <2>2, <2>3
<1>9. CASE ProxyDies
  BY <1>9 DEF ProxyDies, TypeOK, Files, diskVars, faultVars
<1>10. CASE UNCHANGED vars
  BY <1>10 DEF vars, TypeOK
<1> QED
  BY <1>3, <1>4, <1>5, <1>6, <1>7, <1>8, <1>9, <1>10 DEF Next, IssueStep, ProxyStep

\* Every step keeps the invariant.
LEMMA NextIInv == IInv /\ [Next]_vars => IInv'
<1> SUFFICES ASSUME IInv, [Next]_vars PROVE IInv'
  OBVIOUS
<1> USE DEF IInv, WritesNest, HalfWritten, Loaded, Complete, PairOrError, Serving
<1>1. TypeOK'
  BY TypeStep
<1>2. ASSUME NEW h \in Wanted, NEW force \in BOOLEAN, Apply(h, force)
      PROVE  IInv'
  <2>1. UNCHANGED <<key, cert, marker, orders, unloaded, crashes, writeFailures>>
    BY <1>2 DEF Apply, diskVars, faultVars
  <2>2. Proxy({}).hosts = {} /\ running' \in {running, Proxy({})} /\ pc = "idle"
    BY <1>2 DEF Apply, Listening, Proxy
  <2>3. CASE pc' = "idle" /\ ok' = FALSE
    BY <1>1, <2>1, <2>2, <2>3
  <2>4. CASE pc' # "idle"
    <3>1. /\ pc' \in {"serve", "order"}
          /\ ~outcome'.renewed
          /\ pc' = "order" => outcome'.error
          /\ ~outcome'.error => Fresh(h)
      BY <1>2, <2>2, <2>4 DEF Apply, Skipped, Kept, Existing
    <3> QED
      BY <1>1, <2>1, <2>2, <3>1 DEF Fresh
  <2> QED
    BY <1>2, <2>3, <2>4 DEF Apply
<1>3. ASSUME NEW file \in Files, Write(file)
      PROVE  IInv'
  <2>1. UNCHANGED <<running, ok, orders, want, unloaded, crashes, writeFailures>>
    BY <1>3 DEF Write, faultVars
  <2>2. CASE file = "key"
    BY <1>1, <1>3, <2>1, <2>2 DEF Write, Written, Inspected, NextWrite, TypeOK
  <2>3. CASE file = "cert"
    BY <1>1, <1>3, <2>1, <2>3 DEF Write, Written, Inspected, NextWrite, TypeOK
  <2>4. CASE file = "marker"
    BY <1>1, <1>3, <2>1, <2>4 DEF Write, Written, Inspected, NextWrite, TypeOK, Issued
  <2> QED
    BY <2>2, <2>3, <2>4 DEF Files
<1>4. ASSUME NEW file \in Files, WriteFails(file)
      PROVE  IInv'
  <2>1. pc = file /\ pc' = "idle" /\ ~ok' /\ UNCHANGED <<running, orders>>
    BY <1>4 DEF WriteFails
  <2>2. UNCHANGED <<cert, marker>> /\ key' \in {key, orders}
    BY <1>4 DEF WriteFails, Written, diskVars
  <2>3. ~unloaded' => ~unloaded /\ file = "key" /\ key' = key
    BY <1>4 DEF WriteFails
  <2>4. Loaded'
    BY <2>1, <2>2, <2>3
  <2> QED
    BY <1>1, <2>1, <2>2, <2>4 DEF TypeOK
<1>5. CASE OrderFails
  BY <1>1, <1>5 DEF OrderFails, TypeOK, diskVars, faultVars
<1>6. CASE OrderSucceeds
  BY <1>1, <1>6 DEF OrderSucceeds, TypeOK, diskVars, faultVars
<1>7. CASE Serve
  <2>1. UNCHANGED <<key, cert, marker, want, outcome, orders, crashes, writeFailures>>
        /\ pc = "serve" /\ pc' = "idle" /\ unloaded' = (unloaded /\ SameRuntime)
    BY <1>7 DEF Serve, diskVars, faultVars
  <2>2. ServedHosts \in Wanted
    BY DEF ServedHosts, TypeOK, Wanted
  <2>3. CASE running' = NotRunning
    BY <1>1, <2>1, <2>3
  <2>4. CASE SameRuntime /\ running' = running /\ ok' = ~outcome.error
    BY <1>1, <2>1, <2>4 DEF SameRuntime
  <2>5. CASE ~SameRuntime /\ running' = Proxy(ServedHosts) /\ ok' = ~outcome.error
    BY <1>1, <2>1, <2>2, <2>5, ProxyLoads
  <2> QED
    BY <1>7, <2>3, <2>4, <2>5 DEF Serve
<1>8. CASE StopProxy \/ Refresh \/ Crash
  BY <1>1, <1>8 DEF StopProxy, Refresh, Crash, Skipped, diskVars, faultVars
<1>9. CASE ProxyDies
  BY <1>1, <1>9 DEF ProxyDies, TypeOK, diskVars, faultVars
<1>10. CASE CertificateAges
  BY <1>1, <1>10 DEF CertificateAges, TypeOK, faultVars
<1>11. CASE StoreCustomFails
  <2>1. UNCHANGED <<key, cert, marker, running, outcome, orders>>
        /\ pc = "serve" /\ pc' = "idle" /\ ~ok'
        /\ (~unloaded' => ~unloaded /\ ~outcome.renewed)
    BY <1>11 DEF StoreCustomFails, diskVars
  <2> QED
    BY <1>1, <2>1
<1>12. CASE UNCHANGED vars
  BY <1>1, <1>12 DEF vars
<1> QED
  BY <1>2, <1>3, <1>4, <1>5, <1>6, <1>7, <1>8, <1>9, <1>10, <1>11, <1>12
  DEF Next, IssueStep, ProxyStep

\* The inductive invariant holds in every behaviour.
THEOREM Inductive == Spec => []IInv
BY InitIInv, NextIInv, PTL DEF Spec

\* The files and the proxy keep their types.
THEOREM TypeCorrect == Spec => []TypeOK
<1>1. IInv => TypeOK
  BY DEF IInv
<1> QED
  BY Inductive, <1>1, PTL

\* The write order of ensure_certificate: key before certificate before marker,
\* so that no crash or failed write leaves a marker ahead of its pair.
THEOREM MarkerIsEarned == Spec => []WritesNest
<1>1. IInv => WritesNest
  BY DEF IInv
<1> QED
  BY Inductive, <1>1, PTL

\* The restart after a renewal: the proxy serves what is on disk, or an error
\* stopped the apply that wrote it.
THEOREM DiskIsServed == Spec => []RenewalIsLoaded
<1>1. IInv => RenewalIsLoaded
  BY DEF IInv, Loaded, RenewalIsLoaded, Serving
<1> QED
  BY Inductive, <1>1, PTL

\* An apply without an error has the proxy serve a key with its certificate.
THEOREM ErrorFreeIsAPair == Spec => []PairOrError
<1>1. IInv => PairOrError
  BY DEF IInv
<1> QED
  BY Inductive, <1>1, PTL

=============================================================================
