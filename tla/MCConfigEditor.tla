--------------------------- MODULE MCConfigEditor --------------------------
(***************************************************************************)
(* Configurations of one or two services for the model checker: the fields *)
(* earlier versions wrote, and what may be typed into the editor.          *)
(***************************************************************************)
EXTENDS ConfigEditor

Spelled(label) == [label |-> label, upper |-> FALSE, dot |-> FALSE]

HostsDef == {<<>>, <<Spelled("app")>>, <<Spelled("www")>>, <<Spelled("b d")>>,
             <<[Spelled("app") EXCEPT !.upper = TRUE]>>,
             <<[Spelled("app") EXCEPT !.dot = TRUE]>>,
             <<Spelled("app"), [Spelled("app") EXCEPT !.upper = TRUE]>>}

V4(port) == [form |-> "v4", hostOk |-> TRUE, port |-> port]

AddrsDef == {V4(0), V4(65535), V4(65536), Memory}

TokensDef == {"", "own"}

TextDef == STRING

NamesDef == <<"service_1", "service_2">>

BadLabelsDef == {"b d", "app, www", ","}

ListLabelsDef == BadLabelsDef

\* "App, www." has the capital in its first host and the dot in its last.
NamesInDef ==
    [h \in HostLists |->
        CASE h.label = "b d" -> <<Spelled("b"), Spelled("d")>>
          [] h.label = "app, www" -> <<[Spelled("app") EXCEPT !.upper = h.upper],
                                       [Spelled("www") EXCEPT !.dot = h.dot]>>
          [] OTHER -> <<>>]

Control == [form |-> "v6", hostOk |-> TRUE, port |-> 2333]

Written(services, http, token) ==
    [bindAddr |-> Control, domain |-> Absent, defaultToken |-> token,
     http |-> http, services |-> services]

Plain(n) == [NewService(n) EXCEPT !.bindAddr = V4(5001)]

Routed(n, h) == [Plain(n) EXCEPT !.httpHosts = <<Spelled(h)>>, !.httpEnabled = TRUE]

Proxy(on, le, cert) ==
    [keys |-> "canonical", enabled |-> on, letsEncrypt |-> le, customCertificate |-> cert]

Issuing == [enabled |-> TRUE, email |-> "good"]

Pasted(on) == [enabled |-> on, pem |-> "padded"]

\* One service of each former kind, hosts in either field.
OldServices ==
    {[Plain("web") EXCEPT !.type = t, !.bindAddr = b, !.httpHost = one, !.httpHosts = many,
                          !.domain = d] :
        t \in {"tcp", "http", "https"}, b \in {V4(5001), Memory},
        one \in {Absent, Spelled("app"), Spelled("app, www"), Spelled(",")},
        many \in {Absent, <<Spelled("www")>>, <<[Spelled("app") EXCEPT !.upper = TRUE]>>},
        d \in {Absent, "good"}}

\* Those that an earlier panel could save: an http service has a host, a
\* plain one has a port.
OldDef ==
    {Written(<<s>>, Proxy(on, le, cert), "good") :
        s \in {t \in OldServices : IF t.type = "tcp" THEN t.bindAddr # Memory
                                   ELSE HasHttpRoute(t)},
        on \in BOOLEAN, le \in {Absent, Issuing}, cert \in {Absent, Pasted(TRUE), Pasted(FALSE)}}

\* Where an editing session starts.
StartDef ==
    {Written(<<Routed("web", "app"), Plain("ssh")>>, Proxy(TRUE, Issuing, Absent), "good"),
     Written(<<Routed("web", "app"), Routed("api", "www")>>, Proxy(FALSE, NoLetsEncrypt, Absent), "good"),
     Written(<<[Plain("web") EXCEPT !.type = "https", !.bindAddr = Memory,
                                   !.httpHost = Spelled("app"), !.domain = "good"],
              Plain("ssh")>>, Proxy(TRUE, Absent, Pasted(TRUE)), "good")}

OtherDef == {Written(<<Routed("web", "www")>>, Proxy(TRUE, Issuing, Absent), "good"),
             Written(<<[Plain("dns") EXCEPT !.type = "udp"]>>, Absent, "good")}
=============================================================================
