------------------------------ MODULE SovdUris ------------------------------
(***************************************************************************)
(* The text of SOVD URIs: how the server and the client library write an   *)
(* id into a path, and which handler the server's router finds for a path. *)
(*                                                                         *)
(* A text is a sequence of symbols.  A symbol is a character that URIs     *)
(* treat specially, two hex digits behind a "%", or a run of letters that  *)
(* nothing takes apart.  A URI is a host, which is one symbol, a path and  *)
(* sometimes a "?" and a query.                                            *)
(***************************************************************************)
EXTENDS Naturals, Sequences

CONSTANT Base  \* the path of the URI that ServerBuilder::base_uri is given

Seqs == INSTANCE SequencesExt

\* A URI of the http crate; the base is its path, without a query.
ASSUME BaseAssumption ==
    Base \in Seq(STRING) /\ \A i \in DOMAIN Base : Base[i] # "?"

Kinds == {"component", "app", "area"}

Plural == [component |-> "components", app |-> "apps", area |-> "areas"]

DataCollections == {"data", "data-categories", "data-groups"}

SubRoutes == [component |-> {"hosts", "belongs-to"} \cup DataCollections,
              app       |-> {"is-located-on", "belongs-to"} \cup DataCollections,
              area      |-> {"contains"}]

(***************************************************************************)
(* Percent-encoding.                                                       *)
(***************************************************************************)

\* What is encoded, of the characters that ids are made of here.
PathSegmentEncodeSet == {"/", "%", "?", "#", ":", " "}
NonAlphanumeric      == PathSegmentEncodeSet \cup {".", "-"}

HexOf ==
    [c \in NonAlphanumeric |->
        CASE c = "/" -> "2F" [] c = "%" -> "25" [] c = "?" -> "3F" [] c = "#" -> "23"
          [] c = ":" -> "3A" [] c = " " -> "20" [] c = "." -> "2E" [] c = "-" -> "2D"]

EncodeSymbol(x, encodeSet) == IF x \in encodeSet THEN <<"%", HexOf[x]>> ELSE <<x>>

Encode(text, encodeSet) ==
    Seqs!FlattenSeq([i \in DOMAIN text |-> EncodeSymbol(text[i], encodeSet)])

\* Faulty variant of EncodePathSegment: "%" is left as it is.
EncodeAllButPercent(id) == Encode(id, PathSegmentEncodeSet \ {"%"})

EncodePathSegment(id) == Encode(id, PathSegmentEncodeSet)

\* Faulty variant of ClientEncode: the id is put in the path as it is.
PlainId(id) == id

ClientEncode(id) == Encode(id, NonAlphanumeric)

\* A "%" with two hex digits behind it; any other stays.
Escapes(text, i) ==
    text[i] = "%" /\ i < Len(text) /\ \E c \in NonAlphanumeric : HexOf[c] = text[i + 1]

Character(hex) == CHOOSE c \in NonAlphanumeric : HexOf[c] = hex

DecodeSymbol(text, i) ==
    IF Escapes(text, i) THEN <<>>
    ELSE IF i > 1 /\ Escapes(text, i - 1) THEN <<Character(text[i])>> ELSE <<text[i]>>

Decode(text) == Seqs!FlattenSeq([i \in DOMAIN text |-> DecodeSymbol(text, i)])

(***************************************************************************)
(* The router of the server.                                               *)
(***************************************************************************)

NormalizedBase ==
    CASE Base \in {<<>>, <<"/">>}             -> <<>>
      [] Base # <<>> /\ Base # <<"/">>        -> IF Base[1] = "/" THEN Base
                                                 ELSE <<"/">> \o Base

\* What the router calls: a handler, with the ids in the path.
Call(route, kind, id, item) == [route |-> route, kind |-> kind, id |-> id, item |-> item]

\* A parameter of a route takes one segment that is not empty, here what is between
\* two positions of a path.
Param(path, first, last) ==
    IF first <= last /\ \A i \in first .. last : path[i] # "/"
    THEN {Decode(SubSeq(path, first, last))} ELSE {}

\* The routes of a kind of entities.
KindCalls(path, k) ==
    LET n == Len(path)
    IN  UNION {
          {Call("capabilities", k, id, <<>>) : id \in Param(path, 3, n)},
          {Call(r, k, id, <<>>) :
              r \in {r \in SubRoutes[k] : n > 3 /\ SubSeq(path, n - 1, n) = <<"/", r>>},
              id \in Param(path, 3, n - 2)},
          UNION {{Call("data-item", k, id, item) :
                     id \in Param(path, 3, i - 1), item \in Param(path, i + 3, n)} :
                 i \in {i \in 4 .. n - 3 : /\ "data" \in SubRoutes[k]
                                          /\ SubSeq(path, i, i + 2) = <<"/", "data", "/">>}}}

\* The path is what follows the version prefix and its "/".
V1Calls(path) ==
    UNION {IF path = <<Plural[k]>> THEN {Call("list", k, <<>>, <<>>)}
           ELSE IF Seqs!IsPrefix(<<Plural[k], "/">>, path) THEN KindCalls(path, k) ELSE {} :
           k \in Kinds}

\* What follows the host, without the query.
Path(uri) ==
    LET query == Seqs!SelectInSeq(uri, LAMBDA x : x = "?")
    IN  SubSeq(uri, 2, IF query = 0 THEN Len(uri) ELSE query - 1)

V1Prefix == NormalizedBase \o <<"/", "v1">>

PathCalls(path) ==
    CASE path = NormalizedBase \o <<"/", "version-info">> ->
            {Call("version-info", "server", <<>>, <<>>)}
      [] path = V1Prefix -> {Call("root", "server", <<>>, <<>>)}
      [] Seqs!IsPrefix(V1Prefix \o <<"/">>, path) ->
            V1Calls(SubSeq(path, Len(V1Prefix) + 2, Len(path)))
      [] OTHER -> {}

\* The call for the text of a request, a set of at most one.
Calls(uri) == PathCalls(Path(uri))

(***************************************************************************)
(* The URIs that the server hands out to a client that asked for host.     *)
(***************************************************************************)

BaseUri(host) == <<host, "/", "sovd">>

VersionedUri(host) == BaseUri(host) \o <<"/", "v1">>

CollectionText(host, kind) == VersionedUri(host) \o <<"/", Plural[kind]>>

EntityText(host, e) == CollectionText(host, e.kind) \o <<"/">> \o EncodePathSegment(e.id)

LinkText(host, uri) ==
    CASE uri.route = "list"         -> CollectionText(host, uri.kind)
      [] uri.route = "capabilities" -> EntityText(host, uri.entity)
      [] uri.route \notin {"list", "capabilities"} ->
            EntityText(host, uri.entity) \o <<"/", uri.route>>

=============================================================================
