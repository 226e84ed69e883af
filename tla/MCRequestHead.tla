---------------------------- MODULE MCRequestHead ----------------------------
(***************************************************************************)
(* Small requests for RequestHead: every pair of header fields, and every  *)
(* kind of request line.  An int is at most 9, and recv() returns 8 bytes  *)
(* at most, so that every way of cutting the blank line occurs.            *)
(***************************************************************************)
EXTENDS RequestHead

Given(name, value, space) ==
  [name |-> name, value |-> value, space |-> space, colon |-> TRUE]

Fields ==
  {Given(<<n>>, v, s) : n \in {"Host", "host"}, v \in {<<"H">>, <<"h", ":", "3">>},
                        s \in {<<>>, <<" ">>}}
  \cup {Given(<<"Content-Length">>, v, <<" ">>) :
          v \in {<<"3">>, <<"0">>, <<"99">>, <<"-", "3">>, <<"H">>, <<>>}}
  \cup {Given(<<"content-length">>, <<"3">>, <<>>),
        Given(<<"Content-Type">>, <<"T">>, <<" ">>),
        Given(<<"Request-Method">>, <<"T">>, <<>>),
        Given(<<"x", "-", "T">>, <<"a", " ", "b">>, <<" ">>),
        Given(<<>>, <<"a">>, <<>>),
        [Given(<<"a">>, <<>>, <<>>) EXCEPT !.colon = FALSE]}

FieldLists ==
  {<<>>} \cup {<<f>> : f \in Fields} \cup {<<f, g>> : f \in Fields, g \in Fields}

Targets ==
  {<<"/", "a">>, <<"/", "?", "x", "=", "a", "&", "x", "=", "b", "&", "y">>,
   <<"/", "?", "x", "=", "%26", "y", "+", "a">>, <<"/", "%3f", "x">>,
   <<"/", "a", "?", "=", "b", "&", "&">>, <<"/", "a", "#", "?", "x">>,
   <<"a">>, <<>>, <<"/", "a", "a", "a", "a", "a", "a", "a", "a", "a", "a", "a">>}

Message(method, target, protocol, fields, body) ==
  [method |-> method, target |-> target, protocol |-> protocol, fields |-> fields,
   body |-> body]

\* A body may look like the end of a head.
Body == <<"b", "\r", "\n", "\r", "\n", "a">>

SmallIntents ==
  {Message(<<"POST">>, <<"/", "a">>, <<"P">>, fields, Body) : fields \in FieldLists}
  \cup {Message(<<"GET">>, <<"/", "a">>, <<"P">>, <<f>>, Body) : f \in Fields}
  \cup {Message(method, target, protocol, <<>>, <<>>) :
          method \in {<<"GET">>, <<"POST">>, <<"DELETE">>, <<"PUT">>, <<>>},
          target \in Targets, protocol \in {<<"P">>, <<>>}}

ASSUME SmallSendable == \A it \in SmallIntents : Sendable(it)

Lower == [c \in {"Host", "H", "Content-Length", "Content-Type", "T", "Request-Method"} |->
            CASE c = "Host" -> "host" [] c = "H" -> "h" [] c = "T" -> "t"
              [] c = "Content-Length" -> "content-length"
              [] c = "Content-Type" -> "content-type"
              [] c = "Request-Method" -> "request-method"]
Upper == [c \in {"host", "x", "t", "-", "request-method"} |->
            CASE c = "host" -> "HOST" [] c = "x" -> "X" [] c = "t" -> "T"
              [] c = "-" -> "_" [] c = "request-method" -> "REQUEST_METHOD"]
Decoded == [c \in {"%26", "%3f"} |-> IF c = "%26" THEN "&" ELSE "?"]
Number == [c \in {"0", "3", "99"} |-> CASE c = "0" -> 0 [] c = "3" -> 3 [] c = "99" -> 99]
=============================================================================
