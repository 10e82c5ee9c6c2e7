--------------------------- MODULE MCTopologyState ---------------------------
(***************************************************************************)
(* TopologyState, EntityRoutes and Client for TLC.  The state space is     *)
(* finite for finite id sets, so nothing but the ids is bounded.  The ids  *)
(* are texts that a path must not contain as they are: a separator, a      *)
(* percent sign that looks like an escape, the name of a route, nothing.   *)
(***************************************************************************)
EXTENDS Client

MCComponentIds == {<<"a", "/", "data">>, <<"%", "2F">>}
MCAppIds       == {<<"hosts">>}
MCAreaIds      == {<<"?", "x">>, <<>>}

\* All short texts over letters, an escape and the characters that matter.
MCTexts ==
    LET symbols == {"data", "2F", "%", "/", "?", "."}
    IN  UNION {[1 .. n -> symbols] : n \in 0 .. 2}

MCItems == {<<"/">>}

\* Components have a tag and a data provider, areas another tag, apps neither.
MCTagsOf ==
    [e \in Entities |-> CASE e.kind = "component" -> {"drive"}
                          [] e.kind = "app"       -> {}
                          [] e.kind = "area"      -> {"body"}]

MCHasData == {ComponentRef(c) : c \in ComponentIds}

MCQueries == {{}, {"body"}, {"drive", "body"}}

MCSovd == <<"/", "sovd">>
MCApi  == <<"/", "api", "/", "sovd">>

MCAddresses == {"localhost:7690", "opensovd.sock"}

\* The versioned URI over TCP and over a Unix socket; a trailing slash; no path; a
\* query; a host where nobody listens.
MCClients ==
    LET sovd == <<"/", "sovd", "/", "v1">>
    IN  {Build(<<"localhost:7690">> \o sovd, "http"),
         Build(<<"localhost">> \o sovd, "opensovd.sock"),
         Build(<<"localhost:7690">> \o sovd \o <<"/">>, "http"),
         Build(<<"localhost:7690">>, "http"),
         Build(<<"localhost:7690">> \o sovd \o <<"/", "apps", "?", "tags">>, "http"),
         Build(<<"localhost">> \o sovd, "http")}

=============================================================================
