---------------------------- MODULE ConfigEditor ---------------------------
(***************************************************************************)
(* One configuration on its way through the panel: the record the hub      *)
(* keeps, the copy a browser shows, the draft an administrator edits in    *)
(* src/src/react-app/pages/InstanceDetail.tsx, and the PUT handler of      *)
(* src/src/worker/index.ts that normalises, validates and stores it.       *)
(* Another administrator, with an editor or a script of his own, writes    *)
(* the same record.                                                        *)
(***************************************************************************)
EXTENDS ConfigLogic

CONSTANTS
    OldConfigs,     \* what earlier versions of the panel have stored
    StartConfigs,   \* those of them that are edited
    OtherConfigs,   \* what the other administrator sends
    SomeHosts,      \* sequences of hosts that are typed
    SomeAddrs,      \* bind addresses that are typed
    SomeTokens,     \* tokens that are typed
    ServiceNames,   \* "service_1", "service_2", ...
    MaxServices,    \* bounds: services in the draft,
    MaxEdits,       \*         edits of the draft,
    MaxWrites       \*         writes of the other administrator

\* What earlier versions could save: an http service has a host, a udp
\* service none, and the global certificate no rival that is switched off.
FromEarlier(c) ==
    \A s \in Services(c) :
        /\ s.type \in {"http", "https"} => AgentHosts(s) # {}
        /\ s.type = "udp" => AgentHosts(s) = {}
        /\ LegacyCertificate(c) # Absent => s.customCertificate = Absent \/ CustomOn(s)

ASSUME ConfigsAssumption ==
    /\ OldConfigs \cup StartConfigs \cup OtherConfigs \subseteq Config
    /\ \A c \in OldConfigs \cup StartConfigs : FromEarlier(c)

ASSUME TypedAssumption ==
    /\ SomeHosts \subseteq Seq(Host) /\ SomeAddrs \subseteq Addr
    /\ SomeTokens \subseteq Text /\ ServiceNames \in Seq(Text)

ASSUME EditorBoundsAssumption ==
    MaxServices \in 0 .. Len(ServiceNames) /\ MaxEdits \in Nat /\ MaxWrites \in Nat

VARIABLES
    stored,     \* instance.config in the hub
    shown,      \* instance.config in the browser: the editor's `initial`
    draft,      \* the editor's `config`
    edits,      \* edits since the editor was opened
    budget,     \* bound: edits and foreign writes left, none for OldConfigs
    written     \* the stored configuration went through the PUT handler

editorVars == <<stored, shown, draft, edits, budget, written>>

NoLetsEncrypt == [enabled |-> FALSE, email |-> ""]

EditorInit ==
    /\ stored \in OldConfigs \cup StartConfigs \cup {NewInstanceConfig}
    /\ shown = stored
    /\ draft = NormalizeConfig(stored)
    /\ edits = 0
    /\ budget = [edits  |-> IF stored \in OldConfigs THEN 0 ELSE MaxEdits,
                 writes |-> IF stored \in OldConfigs THEN 0 ELSE MaxWrites]
    /\ written = FALSE

\* JSON.stringify(config) !== JSON.stringify(initial)
Dirty(config, initial) == config # initial

----------------------------------------------------------------------------
(***************************************************************************)
(* The editor's controls                                                   *)
(***************************************************************************)
SetConfig(config) ==
    /\ budget.edits > 0
    /\ draft' = config
    /\ edits' = edits + 1
    /\ budget' = [budget EXCEPT !.edits = @ - 1]
    /\ UNCHANGED <<stored, shown, written>>

Patch ==
    \/ \E a \in SomeAddrs : SetConfig([draft EXCEPT !.bindAddr = a])
    \/ \E t \in SomeTokens : SetConfig([draft EXCEPT !.defaultToken = t])

UpdateService(i, s) == SetConfig([draft EXCEPT !.services[i] = s])

\* The services table.  The public bind is only offered while there is one.
EditService(i) ==
    LET s == draft.services[i] IN
    \/ \E j \in DOMAIN draft.services :
          UpdateService(i, [s EXCEPT !.name = draft.services[j].name])
    \/ \E t \in SomeTokens : UpdateService(i, [s EXCEPT !.token = t])
    \/ /\ ~SaysNoPublicPort(draft, s)
       /\ \E a \in SomeAddrs : UpdateService(i, [s EXCEPT !.bindAddr = a])

\* The panel of one TCP backend; its fields show while routing is on.
RouteService(i) ==
    LET s == draft.services[i] IN
    /\ s.type = "tcp"
    /\ \/ \E on \in BOOLEAN : UpdateService(i, [s EXCEPT !.httpEnabled = on])
       \/ /\ IsHttpRoutingOn(s)
          /\ \/ \E hosts \in SomeHosts :
                   UpdateService(i, [s EXCEPT !.httpHost = Absent, !.httpHosts = hosts])
             \/ \E tls \in {TRUE, Absent} :
                   UpdateService(i, [s EXCEPT !.httpUpstreamTls = tls])

\* A UDP service drops everything HTTP; the whole draft is normalised.
RetypedConfig(i, type) ==
    LET s == [draft.services[i] EXCEPT !.type = type]
    IN  NormalizeConfig([draft EXCEPT !.services[i] =
            IF type # "udp" THEN s
            ELSE [s EXCEPT !.httpHost = Absent, !.httpHosts = Absent,
                           !.httpEnabled = Absent, !.httpUpstreamTls = Absent,
                           !.customCertificate = Absent]])

UpdateServiceType(i) ==
    \E type \in {"tcp", "udp"} : SetConfig(RetypedConfig(i, type))

\* Every write of the http block fixes both addresses and drops the former
\* global certificate; only updateHttp lays its keys out in another order.
HttpBlock(keys, enabled, letsEncrypt) ==
    [keys |-> keys, enabled |-> enabled, letsEncrypt |-> letsEncrypt,
     customCertificate |-> Absent]

CurrentLetsEncrypt ==
    IF draft.http = Absent THEN NoLetsEncrypt
    ELSE IF draft.http.letsEncrypt = Absent THEN NoLetsEncrypt ELSE draft.http.letsEncrypt

UpdateHttp ==
    \E on \in BOOLEAN :
        SetConfig([draft EXCEPT !.http = HttpBlock("edited", on, CurrentLetsEncrypt)])

UpdateLetsEncrypt ==
    \E next \in {[CurrentLetsEncrypt EXCEPT !.enabled = on] : on \in BOOLEAN}
                  \cup {[CurrentLetsEncrypt EXCEPT !.email = e] : e \in {"", "good", "bad"}} :
        SetConfig([draft EXCEPT
            !.http = HttpBlock("canonical", next.enabled \/ ProxyOn(draft), next)])

UpdateServiceCustomCertificate(i) ==
    LET s       == draft.services[i]
        current == IF s.customCertificate = Absent THEN [enabled |-> FALSE, pem |-> ""]
                   ELSE s.customCertificate
    IN  /\ s.type = "tcp" /\ IsHttpRoutingOn(s)
        /\ \E next \in {[current EXCEPT !.enabled = on] : on \in BOOLEAN}
                 \cup (IF CustomOn(s)
                       THEN {[current EXCEPT !.pem = p] : p \in {"partial", "padded"}}
                       ELSE {}) :
              SetConfig([draft EXCEPT
                  !.services[i].customCertificate = next,
                  !.http = HttpBlock("canonical", next.enabled \/ ProxyOn(draft),
                                     CurrentLetsEncrypt)])

NewService(n) ==
    [name |-> n, type |-> "tcp", bindAddr |-> DefaultPublicBindAddr(0), domain |-> Absent,
     httpHosts |-> Absent, httpHost |-> Absent, httpEnabled |-> Absent,
     httpUpstreamTls |-> Absent, customCertificate |-> Absent, token |-> Absent]

AddService ==
    /\ Len(draft.services) < MaxServices
    /\ SetConfig([draft EXCEPT
           !.services = Append(@, NewService(ServiceNames[Len(@) + 1]))])

RemoveService(i) == SetConfig([draft EXCEPT !.services = RemoveAt(@, i)])

EditDraft ==
    \/ Patch \/ UpdateHttp \/ UpdateLetsEncrypt \/ AddService
    \/ \E i \in DOMAIN draft.services :
          \/ EditService(i) \/ RouteService(i) \/ UpdateServiceType(i)
          \/ UpdateServiceCustomCertificate(i) \/ RemoveService(i)

----------------------------------------------------------------------------
(***************************************************************************)
(* Saving, other writers, and what comes back                              *)
(***************************************************************************)
\* PUT /api/instances/:id: normalised, validated, stored or refused.
Put(config) ==
    LET config1 == NormalizeConfig(config)
    IN  /\ ValidateConfig(config1) = {}
        /\ stored' = config1
        /\ written' = TRUE

\* "Save & push" is disabled while nothing changed or something is wrong.
Save ==
    /\ Dirty(draft, shown)
    /\ ValidateConfig(draft) = {}
    /\ Put(NormalizeConfig(draft))
    /\ UNCHANGED <<shown, draft, edits, budget>>

\* Renaming the node sends no configuration; the stored one is written back
\* in its normal form.
Rename ==
    /\ Put(stored)
    /\ UNCHANGED <<shown, draft, edits, budget>>

OtherSaves ==
    /\ budget.writes > 0
    /\ \E config \in OtherConfigs : Put(config)
    /\ budget' = [budget EXCEPT !.writes = @ - 1]
    /\ UNCHANGED <<shown, draft, edits>>

\* The effect on a changed `initial`: dirty compares the draft with it.
Resynced == IF Dirty(draft, stored) THEN draft ELSE NormalizeConfig(stored)

\* A push or a refresh brings the stored record.
ViewArrives ==
    /\ shown # stored
    /\ shown' = stored
    /\ draft' = Resynced
    /\ UNCHANGED <<stored, edits, budget, written>>

\* The page is left and opened again.
Reopen ==
    /\ draft' = NormalizeConfig(shown)
    /\ edits' = 0
    /\ UNCHANGED <<stored, shown, budget, written>>

EditorNext == EditDraft \/ Save \/ Rename \/ OtherSaves \/ ViewArrives \/ Reopen

EditorSpec == EditorInit /\ [][EditorNext]_editorVars

----------------------------------------------------------------------------
(***************************************************************************)
(* Properties                                                              *)
(***************************************************************************)
\* What the browser, the hub and the draft hold are configurations, the
\* draft without the fields that earlier versions used.
EditorTypeOK ==
    /\ stored \in Config /\ shown \in Config /\ draft \in Config
    /\ \A s \in Services(draft) :
          s.type \in {"tcp", "udp"} /\ s.httpHost = Absent /\ s.domain = Absent
    /\ draft.http # Absent => draft.http.customCertificate = Absent
    /\ edits \in 0 .. MaxEdits /\ written \in BOOLEAN

(***************************************************************************)
(* A configuration the handler let through can be run: the agent builds    *)
(* its proxy, every port it is told to open can be opened, every service   *)
(* has a token of some kind, and none is left without a way in.  The       *)
(* comments at config-generator.ts:309 ("that refusal never makes it back  *)
(* to the panel - so catch it here") and 346 ask for it.                   *)
(***************************************************************************)
NodeCanRunIt ==
    written =>
        /\ ~AgentRefuses(stored)
        /\ Binds(stored.bindAddr)
        /\ \A s \in Services(stored) :
              /\ AgentBindAddr(s, ProxyOn(stored)) # Memory =>
                    Binds(AgentBindAddr(s, ProxyOn(stored)))
              /\ RatholeToken(stored, s) # Absent
              /\ AgentBindAddr(s, ProxyOn(stored)) = Memory =>
                    \E r \in AgentRoutes(stored) : r.service = s.name

(***************************************************************************)
(* What the panel says of a saved configuration is what the node does: the *)
(* services without a public port (InstanceDetail.tsx:870) and "exactly    *)
(* this set" of Let's Encrypt hosts (:799) are the agent's.                *)
(***************************************************************************)
PanelSaysWhatNodeDoes ==
    written =>
        /\ \A s \in Services(stored) :
              SaysNoPublicPort(stored, s) <=> AgentBindAddr(s, ProxyOn(stored)) = Memory
        /\ ProxyOn(stored) => LetsEncryptHosts(stored) = AgentHttpsHosts(stored)

(***************************************************************************)
(* Two services of a saved configuration never claim one host on the node, *)
(* where the later would silently take it: unless their spellings differ   *)
(* by the final dot, which only the agent ignores.                         *)
(***************************************************************************)
HostsHaveOneOwner ==
    written =>
        \A r1, r2 \in AgentRoutes(stored) :
            r1.host = r2.host /\ r1 # r2 =>
                \E s \in Services(stored) : \E h \in ToSet(ServiceHttpHosts(s)) :
                    h.label = r1.host /\ h.dot

(***************************************************************************)
(* The client.toml offered for a saved configuration fits the node: the    *)
(* port of its control channel, and for each service its kind and token,   *)
(* apart from a token of the service's own that was emptied.               *)
(***************************************************************************)
ClientFitsNode ==
    written =>
        LET client == ClientToml(stored) IN
        /\ client.port = stored.bindAddr.port
        /\ \A s \in Services(stored) :
              LET block == CHOOSE b \in client.services : b[1] = s.name
                  token == IF block[2].token = Absent THEN client.defaultToken
                           ELSE block[2].token
              IN  /\ block[2].type = AgentService(stored, s).type
                  /\ s.token = Absent \/ Given(s.token) => token = AgentService(stored, s).token

\* A service that an earlier version marked http is bound in memory even
\* while the proxy is off: normalising it gives it a port back.
Stranded(c) == ~ProxyOn(c) /\ \E s \in Services(c) : s.type \in {"http", "https"}

\* Everything that old serves is in new, apart from the hosts that no visitor
\* can ask for.
ServesAll(old, new) ==
    /\ old.ports \subseteq new.ports
    /\ \A r \in old.routes : r.host \notin ListLabels => r \in new.routes
    /\ \A p \in old.custom : p[1] \notin ListLabels => p \in new.custom
    /\ \A h \in old.https : h \notin ListLabels => h \in new.https

(***************************************************************************)
(* Opening an old configuration in the editor, or renaming its node,       *)
(* changes nothing of what the node serves: ports, routes and              *)
(* certificates survive the migration ("Defaults to on for services that   *)
(* already have hosts so older configs keep routing",                      *)
(* config-generator.ts:113).  A legacy field with a list of hosts, which   *)
(* the node took for one host and the panel splits, may add to it but      *)
(* takes nothing away.                                                     *)
(***************************************************************************)
MigrationKeepsServing ==
    LET old == Serving(stored)
        new == Serving(NormalizeConfig(stored))
    IN  ~Stranded(stored) =>
            IF \E s \in Services(stored) : ListsHosts(s) THEN ServesAll(old, new) ELSE new = old

(***************************************************************************)
(* An edit of one service leaves the routing, the port and the certificate *)
(* of the others alone, also when the whole draft is normalised half-way   *)
(* ("normalizing mid-edit must not flip the switch back",                  *)
(* config-generator.ts:115).                                               *)
(***************************************************************************)
ServiceShown(c, i) ==
    LET s == c.services[i]
    IN  [routing |-> IsHttpRoutingOn(s), hosts |-> ServiceHttpHosts(s),
         bind |-> s.bindAddr, custom |-> CustomOn(s)]

Retypes == \E i \in DOMAIN draft.services : UpdateServiceType(i)

OthersStay ==
    [][Retypes =>
          \E i \in DOMAIN draft.services : \A j \in DOMAIN draft.services \ {i} :
              ServiceShown(draft', j) = ServiceShown(draft, j)]_editorVars

(***************************************************************************)
(* The comment on the effect, InstanceDetail.tsx:651: "Re-sync if the      *)
(* server pushes an update while we're not editing."                       *)
(***************************************************************************)
EditorFollows == edits = 0 => draft = NormalizeConfig(shown)
=============================================================================
