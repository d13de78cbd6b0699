---------------------------- MODULE ConfigLogic ----------------------------
(***************************************************************************)
(* What the panel, the Worker and the agent each make of one               *)
(* configuration: src/src/shared/config-generator.ts on one side, the      *)
(* builders of src/agent/src/runner.rs on the other.  Operators only; the  *)
(* module ConfigEditor puts them to work.                                  *)
(*                                                                         *)
(* A text is the member of a small set that names what the code asks of    *)
(* it.  A host name is a record: its label, and whether this spelling of   *)
(* it has capitals or the final dot of a fully qualified name.  A bind     *)
(* address is a record: the way it is written, whether its host part is    *)
(* one, and its port.                                                      *)
(***************************************************************************)
EXTENDS Integers, Sequences, SequencesExt

CONSTANTS
    Absent,         \* a field that is not there (undefined, None)
    Text,           \* what may be written into a field
    BadLabels,      \* labels that are no host names
    ListLabels,     \* those with a comma, a semicolon or a blank in them
    NamesIn         \* the hosts between these

(***************************************************************************)
(* The types of src/src/shared/types.ts, with the fields earlier versions  *)
(* wrote.                                                                  *)
(***************************************************************************)
Host == [label : Text, upper : BOOLEAN, dot : BOOLEAN]

Addr == [form : {"v4", "v6", "memory", "blank", "other"}, hostOk : BOOLEAN, port : Int]

Certificate == [enabled : BOOLEAN, pem : Text]

Service ==
    [name : Text, type : {"tcp", "udp", "http", "https"}, bindAddr : Addr,
     token : Text \cup {Absent}, domain : Text \cup {Absent},
     httpHosts : Seq(Host) \cup {Absent}, httpHost : Host \cup {Absent},
     httpEnabled : BOOLEAN \cup {Absent}, httpUpstreamTls : BOOLEAN \cup {Absent},
     customCertificate : Certificate \cup {Absent}]

LetsEncrypt == [enabled : BOOLEAN, email : Text]

Http == [keys : {"canonical", "edited"}, enabled : BOOLEAN, letsEncrypt : LetsEncrypt \cup {Absent},
         customCertificate : Certificate \cup {Absent}]

Config == [bindAddr : Addr, domain : Text \cup {Absent}, defaultToken : Text \cup {Absent},
           http : Http \cup {Absent}, services : Seq(Service)]

ASSUME TextAssumption == {"", "good", "bad", "padded", "partial"} \subseteq Text

HostLists == [label : ListLabels, upper : BOOLEAN, dot : BOOLEAN]

ASSUME ListsAssumption ==
    /\ ListLabels \subseteq BadLabels \ {""}
    /\ NamesIn \in [HostLists -> Seq(Host)]

ASSUME AbsentAssumption ==
    /\ Absent \notin Text /\ Absent \notin BOOLEAN /\ Absent \notin Host
    /\ Absent \notin Seq(Host) /\ Absent \notin Certificate
    /\ Absent \notin LetsEncrypt /\ Absent \notin Http

Digits(port) == port >= 0              \* a negative "port" is not a number

(***************************************************************************)
(* Texts                                                                   *)
(***************************************************************************)
Trim(text) == CASE text = "padded" -> "good" [] text = "blank" -> "" [] OTHER -> text

Given(value) == IF value = Absent THEN FALSE ELSE Trim(value) # ""

Memory == [form |-> "memory", hostOk |-> TRUE, port |-> 0]

\* 0.0.0.0:5000+i, for the i-th service counted from zero.
DefaultPublicBindAddr(i) == [form |-> "v4", hostOk |-> TRUE, port |-> 5000 + i]

\* The address is host:port or [v6]:port, not blank, a URL, a bare IPv6...
ValidHostPort(addr) ==
    /\ addr.form \in {"v4", "v6"}
    /\ addr.hostOk
    /\ Digits(addr.port)
    /\ 1 <= addr.port /\ addr.port <= 65535

\* The standard library's parser of an address to listen on: a u16 port.
Binds(addr) ==
    addr.form \in {"v4", "v6"} /\ addr.hostOk /\ 0 <= addr.port /\ addr.port < 2^16

ValidHttpHost(host) == host.label \notin BadLabels \cup {""}

ValidAcmeEmail(email) == email = "good"

(***************************************************************************)
(* Hosts of a service                                                      *)
(***************************************************************************)
ParseHttpHostsInput(host) ==
    IF host.label \in ListLabels THEN NamesIn[host] ELSE <<host>>

\* The list, then the legacy field, which is split.
WrittenHosts(s) ==
    (IF s.httpHosts = Absent THEN <<>> ELSE s.httpHosts)
        \o (IF s.httpHost = Absent THEN <<>> ELSE ParseHttpHostsInput(s.httpHost))

\* The legacy field is more or less than one host.
ListsHosts(s) == IF s.httpHost = Absent THEN FALSE ELSE s.httpHost.label \in ListLabels

\* Mutation: the spelling taken for the host.
PanelKeyAsTyped(host) == host

PanelKey(host) == <<host.label, host.dot>>

Blank(host) == host.label = "" /\ ~host.dot

\* The loop: blanks are dropped, and of spellings with one key the first is kept.
Keep(kept, host) ==
    IF Blank(host) \/ \E k \in DOMAIN kept : PanelKey(kept[k]) = PanelKey(host)
    THEN kept
    ELSE Append(kept, host)

FirstSpellings(hosts) ==
    LET kept[n \in 0 .. Len(hosts)] ==
            IF n = 0 THEN <<>> ELSE Keep(kept[n - 1], hosts[n])
    IN  kept[Len(hosts)]

ServiceHttpHosts(s) == FirstSpellings(WrittenHosts(s))

HasHttpRoute(s) == ServiceHttpHosts(s) # <<>>

IsHttpRoutingOn(s) ==
    /\ s.type # "udp"
    /\ IF s.httpEnabled = Absent THEN HasHttpRoute(s) ELSE s.httpEnabled

\* Mutation: a paused route counted in.
IsHttpRouteActivePaused(s) == HasHttpRoute(s)

IsHttpRouteActive(s) == HasHttpRoute(s) /\ IsHttpRoutingOn(s)

CustomOn(s) == IF s.customCertificate = Absent THEN FALSE ELSE s.customCertificate.enabled

ProxyOn(c) == IF c.http = Absent THEN FALSE ELSE c.http.enabled

LetsEncryptOn(c) ==
    IF c.http = Absent THEN FALSE
    ELSE IF c.http.letsEncrypt = Absent THEN FALSE ELSE c.http.letsEncrypt.enabled

Services(c) == ToSet(c.services)

(***************************************************************************)
(* normalizeConfig                                                         *)
(***************************************************************************)
RestorePublicBindAddr(s, i) ==
    IF s.bindAddr.form \in {"memory", "blank"} THEN DefaultPublicBindAddr(i) ELSE s.bindAddr

\* Mutation: the switch read from the hosts alone.
NormalFlagFromHosts(s) ==
    IF HasHttpRoute(s) THEN s.httpEnabled # FALSE ELSE Absent

\* An explicit switch survives without hosts; hosts turn an unset one on.
NormalFlag(s) ==
    IF s.httpEnabled = TRUE THEN TRUE
    ELSE IF HasHttpRoute(s) THEN s.httpEnabled # FALSE ELSE Absent

NormalCertificate(cert) ==
    IF cert = Absent THEN Absent
    ELSE [enabled |-> cert.enabled, pem |-> Trim(cert.pem)]

\* Mutation: the former global certificate forgotten.
MigratedCertificateNever(s, legacy) == s.customCertificate

\* The certificate of its own, else the former global one if it has hosts.
MigratedCertificate(s, legacy) ==
    IF s.customCertificate # Absent THEN s.customCertificate
    ELSE IF HasHttpRoute(s) THEN legacy ELSE Absent

NormalService(s, i, legacyCertificate) ==
    LET hosts  == ServiceHttpHosts(s)
        legacy == s.type \in {"http", "https"}
    IN  [name            |-> s.name,
         type            |-> IF legacy THEN "tcp" ELSE s.type,
         bindAddr        |-> IF legacy THEN RestorePublicBindAddr(s, i) ELSE s.bindAddr,
         token           |-> s.token,
         domain          |-> Absent,
         httpHost        |-> Absent,
         httpHosts       |-> IF hosts = <<>> THEN Absent ELSE hosts,
         httpEnabled     |-> NormalFlag(s),
         httpUpstreamTls |-> IF s.type # "udp" /\ (s.httpUpstreamTls = TRUE \/ s.type = "https")
                             THEN TRUE ELSE Absent,
         customCertificate |-> NormalCertificate(MigratedCertificate(s, legacyCertificate))]

\* Mutation: the former global certificate kept beside the migrated ones.
NormalHttpKeepsCertificate(http) ==
    IF http = Absent THEN Absent ELSE [http EXCEPT !.keys = "canonical"]

NormalLetsEncrypt(le) == IF le = Absent THEN Absent ELSE [le EXCEPT !.email = Trim(@)]

NormalHttp(http) ==
    IF http = Absent THEN Absent
    ELSE [http EXCEPT
            !.keys        = "canonical",
            !.letsEncrypt = NormalLetsEncrypt(@),
            !.customCertificate = Absent]

LegacyDomain(c) ==
    LET named == {i \in DOMAIN c.services : Given(c.services[i].domain)}
    IN  IF named = {} THEN Absent ELSE c.services[Min(named)].domain

NormalizeConfig(c) ==
    LET legacyCertificate == IF c.http = Absent THEN Absent ELSE c.http.customCertificate
    IN  [c EXCEPT
            !.domain   = IF @ = Absent THEN LegacyDomain(c) ELSE @,
            !.http     = NormalHttp(@),
            !.services = [i \in DOMAIN @ |-> NormalService(@[i], i - 1, legacyCertificate)]]

DefaultConfig ==
    [bindAddr |-> [form |-> "v4", hostOk |-> TRUE, port |-> 2333],
     domain |-> Absent, defaultToken |-> "", services |-> <<>>,
     http |-> [keys |-> "canonical", enabled |-> FALSE, customCertificate |-> Absent,
               letsEncrypt |-> [enabled |-> FALSE, email |-> ""]]]

\* What a node starts with when it is enrolled: a random default token.
NewInstanceConfig == NormalizeConfig([DefaultConfig EXCEPT !.defaultToken = "good"])

(***************************************************************************)
(* validateConfig: the places something is wrong at                        *)
(***************************************************************************)
\* Let's Encrypt would be asked for a certificate.
LetsEncryptActive(c) ==
    LetsEncryptOn(c) /\ \E s \in Services(c) : IsHttpRouteActive(s) /\ ~CustomOn(s)

GlobalIssues(c) ==
    {p \in {"bindAddr", "email", "defaultToken"} :
        CASE p = "bindAddr"     -> ~ValidHostPort(c.bindAddr)
          [] p = "email"        -> LetsEncryptActive(c)
                                      /\ ~ValidAcmeEmail(c.http.letsEncrypt.email)
          [] p = "defaultToken" -> ~Given(c.defaultToken)
                                      /\ \E s \in Services(c) : ~Given(s.token)}

\* The host, at place h of service i, was seen before.
RepeatsHost(c, i, h) ==
    \E j \in 1 .. i : \E k \in DOMAIN ServiceHttpHosts(c.services[j]) :
        /\ <<j, k>> # <<i, h>>
        /\ j < i \/ k < h
        /\ PanelKey(ServiceHttpHosts(c.services[j])[k])
             = PanelKey(ServiceHttpHosts(c.services[i])[h])

\* Mutation: the public bind of a routed service goes unchecked, proxy on or off.
ServiceIssueAnyProxy(c, i) ==
    LET s     == c.services[i]
        hosts == ServiceHttpHosts(s)
    IN  \/ s.name = "" \/ \E j \in 1 .. i - 1 : c.services[j].name = s.name
        \/ ~IsHttpRoutingOn(s) /\ ~ValidHostPort(s.bindAddr)
        \/ IsHttpRoutingOn(s) /\ hosts = <<>>
        \/ \E h \in DOMAIN hosts : ~ValidHttpHost(hosts[h]) \/ RepeatsHost(c, i, h)

ServiceIssue(c, i) ==
    LET s     == c.services[i]
        hosts == ServiceHttpHosts(s)
    IN  \/ s.name = "" \/ \E j \in 1 .. i - 1 : c.services[j].name = s.name
        \/ ~(ProxyOn(c) /\ IsHttpRoutingOn(s)) /\ ~ValidHostPort(s.bindAddr)
        \/ IsHttpRoutingOn(s) /\ hosts = <<>>
        \/ CustomOn(s) /\ (hosts = <<>> \/ Trim(s.customCertificate.pem) # "good")
        \/ hosts # <<>> /\ s.type = "udp"
        \/ \E h \in DOMAIN hosts : ~ValidHttpHost(hosts[h]) \/ RepeatsHost(c, i, h)

ValidateConfig(c) ==
    {<<p, 0>> : p \in GlobalIssues(c)}
        \cup {<<"services", i>> : i \in {j \in DOMAIN c.services : ServiceIssue(c, j)}}

(***************************************************************************)
(* What the panel says of the node                                         *)
(***************************************************************************)
\* "via HTTP proxy - no public port"
SaysNoPublicPort(c, s) == ProxyOn(c) /\ IsHttpRoutingOn(s)

\* The hosts listed under the Let's Encrypt certificate.
LetsEncryptHosts(c) ==
    {h.label : h \in UNION {ToSet(ServiceHttpHosts(s)) : s \in
        {t \in Services(c) : t.type = "tcp" /\ IsHttpRouteActive(t) /\ ~CustomOn(t)}}}

\* The client.toml it offers for the machine behind NAT.

\* Mutation: the service's own token left out.
ClientServiceInherits(s) ==
    [type |-> IF s.type = "udp" THEN "udp" ELSE "tcp", token |-> Absent]

ClientService(s) ==
    [type  |-> IF s.type = "udp" THEN "udp" ELSE "tcp",
     token |-> IF Given(s.token) THEN s.token ELSE Absent]

ClientToml(c) ==
    [port         |-> c.bindAddr.port,
     defaultToken |-> IF Given(c.defaultToken) THEN c.defaultToken ELSE Absent,
     services     |-> {<<s.name, ClientService(s)>> : s \in Services(c)}]

(***************************************************************************)
(* What the agent builds                                                   *)
(***************************************************************************)
\* Case and the final dot are folded away, blanks dropped, nothing kept
\* while routing is switched off; the legacy field is one host, whatever is
\* in it.
AgentHosts(s) ==
    IF s.httpEnabled = FALSE THEN {}
    ELSE {h.label : h \in (IF s.httpHosts = Absent THEN {} ELSE ToSet(s.httpHosts))
                             \cup (IF s.httpHost = Absent THEN {} ELSE {s.httpHost})} \ {""}

AgentBindAddr(s, proxyOn) ==
    IF \/ s.type \in {"http", "https"}
       \/ s.type = "tcp" /\ proxyOn /\ AgentHosts(s) # {}
    THEN Memory
    ELSE s.bindAddr

AgentRoutes(c) ==
    IF ~ProxyOn(c) THEN {}
    ELSE UNION {{[host |-> h, service |-> s.name, addr |-> AgentBindAddr(s, TRUE),
                  tls  |-> s.httpUpstreamTls = TRUE \/ s.type = "https"] :
                 h \in AgentHosts(s)} : s \in Services(c)}

LegacyCertificate(c) ==
    IF c.http = Absent THEN Absent
    ELSE IF c.http.customCertificate = Absent THEN Absent
    ELSE IF c.http.customCertificate.enabled THEN c.http.customCertificate ELSE Absent

\* The pasted certificate that the agent serves for each host.
AgentCustom(c) ==
    IF ~ProxyOn(c) THEN {}
    ELSE UNION {{<<h, Trim(IF CustomOn(s) THEN s.customCertificate.pem
                           ELSE LegacyCertificate(c).pem)>> : h \in AgentHosts(s)} :
                s \in {t \in Services(c) : CustomOn(t) \/ LegacyCertificate(c) # Absent}}

AgentHttpsHosts(c) ==
    IF ~ProxyOn(c) \/ LegacyCertificate(c) # Absent THEN {}
    ELSE UNION {AgentHosts(s) : s \in {t \in Services(c) : ~CustomOn(t)}}

\* http_proxy_config fails for want of an ACME account.
AgentRefuses(c) ==
    LetsEncryptOn(c) /\ AgentHttpsHosts(c) # {} /\ Trim(c.http.letsEncrypt.email) = ""

\* rathole gives a service the default token when it has none of its own.
RatholeToken(c, s) == IF s.token = Absent THEN c.defaultToken ELSE s.token

AgentService(c, s) ==
    [type  |-> IF s.type = "udp" THEN "udp" ELSE "tcp",
     token |-> RatholeToken(c, s),
     bind  |-> AgentBindAddr(s, ProxyOn(c))]

\* What visitors get from the node.
Serving(c) ==
    [ports  |-> {<<s.name, s.bindAddr>> :
                    s \in {t \in Services(c) : AgentBindAddr(t, ProxyOn(c)) # Memory}},
     routes |-> AgentRoutes(c),
     custom |-> AgentCustom(c),
     https  |-> IF LetsEncryptOn(c) THEN AgentHttpsHosts(c) ELSE {}]
=============================================================================
