--------------------------- MODULE MCHttpSession ---------------------------
(* HttpSession with requests that are good, that end too early or too late, and
   that are rejected.  A request line has two symbols, of which one alone is as
   short as the parser puts up with. *)
EXTENDS HttpSession

Get  == <<"get", "text", "CRLF">>
Post == <<"post", "text", "CRLF">>
Len2 == <<"length", "CRLF">>
End  == <<"CRLF">>

Req(s, n) == [stream |-> s, length |-> n]

MCGood == {Req(Get \o End, 0),
           Req(Get \o <<"header", "CRLF">> \o End, 0),
           Req(Post \o Len2 \o End, 0),
           Req(Post \o Len2 \o End \o <<"CRLF", "text">>, 2)}

MCRequests == MCGood \union
          {Req(Get \o End \o <<"text">>, 0),
           Req(Post \o End \o <<"text", "text">>, 0),
           Req(Post \o Len2 \o End \o <<"text">>, 2),
           Req(Post \o Len2 \o End \o <<"text", "text">>, 1),
           Req(Post \o Len2 \o End \o <<"text">>, -5),
           Req(Get \o <<"plain", "CRLF">> \o Len2 \o End, 0),
           Req(Get \o <<"plain", "CRLF">> \o End, 0),
           Req(Get \o <<"colon", "CRLF">> \o Len2 \o End, 0),
           Req(<<"other", "text", "CRLF">> \o End \o <<"text">>, 0),
           Req(<<"short", "CRLF">> \o End, 0),
           Req(<<"short", "CRLF">> \o Len2 \o Get \o End, 1),
           Req(Get \o <<"header", "length", "CRLF">> \o End \o <<"text">>, 5),
           Req(End, 0)}
=============================================================================
