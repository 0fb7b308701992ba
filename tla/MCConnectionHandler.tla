------------------------ MODULE MCConnectionHandler ------------------------
(* Small streams for ConnectionHandler. *)
EXTENDS ConnectionHandler

Line(text) == text \o CrLf
Header(type, value) == Line(<<type, ": ", value>>)
Get == Line(<<"GET", " ", "uri", " ", "version">>)
Post == Line(<<"POST", " ", "uri", " ", "version">>)
Status == Line(<<"version", " ", "200">>)
Host == Header("Host", "name")
Length(n) == Header("Content-Length", n)
Chunked == Header("Transfer-Encoding", "chunked")

(* A request for an ordinary page, and one followed by the start of the    *)
(* next request.                                                           *)
GoodRequests == {Get \o Host \o CrLf, Get \o Host \o CrLf \o <<"GET">>}

(* Bodies of a given length (also none) and in chunks; the data of one     *)
(* chunk look like a line end.                                             *)
GoodResponses ==
  {Status \o Length("2") \o CrLf \o <<"b", "b">>,
   Status \o Length("0") \o CrLf,
   Status \o Chunked \o CrLf \o Line(<<"1">>) \o Line(<<"b">>)
     \o Line(<<"2">>) \o Line(CrLf) \o Line(<<"0">>) \o CrLf,
   Status \o Chunked \o CrLf \o Line(<<"0">>) \o CrLf}

(* A request that is not a GET, that has no Host, and two malformed ones.  *)
AllRequests == GoodRequests \cup
  {Post \o Host \o CrLf, Get \o CrLf,
   Line(<<"GET", " ", "uri">>) \o CrLf, Get \o Line(<<"Host">>) \o CrLf}

(* Responses cut short or too long, without a length (or with -1, and      *)
(* something behind the last chunk), and malformed.                        *)
AllResponses ==
  {Status \o Length("2") \o CrLf \o <<"b", "b">>,
   Status \o Chunked \o CrLf \o Line(<<"1">>) \o Line(<<"b">>) \o Line(<<"0">>) \o CrLf,
   Status \o Length("-1") \o Chunked \o CrLf \o Line(<<"0">>) \o CrLf \o <<"b">>,
   Status \o Length("3") \o CrLf \o <<"b">>,
   Status \o Length("1") \o CrLf \o <<"b", "b">>,
   Status \o CrLf \o <<"b">>,
   Line(<<"version">>) \o CrLf,
   Status \o Line(<<"Content-Length">>) \o CrLf}

MCPeers ==
  [request : GoodRequests, response : GoodResponses, cooperative : {TRUE}]
    \cup [request : AllRequests, response : AllResponses, cooperative : {FALSE}]

=============================================================================
