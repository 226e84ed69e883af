------------------------------ MODULE MCStartup ------------------------------
(***************************************************************************)
(* Small configuration files for Startup: every pair of directives in the  *)
(* location that could leak into the next, and servers that share          *)
(* addresses.  Ports count modulo 100.                                     *)
(***************************************************************************)
EXTENDS Startup

Item(words) == [words |-> words, block |-> FALSE, body |-> <<>>]
Block(path, body) == [words |-> <<"location", path>>, block |-> TRUE, body |-> body]

Directives ==
  {<<"root", "/a">>, <<"root", "/b">>, <<"index", "x", "y">>, <<"index", "z">>,
   <<"methods", "GET", "DELETE">>, <<"upload_store", "/u">>,
   <<"error_page", "404", "/e">>, <<"error_page", "404", "/f">>,
   <<"cgi", ".py", "/p">>, <<"cgi", ".py", "/q">>, <<"return", "301", "/n">>,
   <<"autoindex", "on">>, <<"autoindex", "off">>}
Bodies == {<<>>} \cup {<<d>> : d \in Directives}
                \cup {<<d, e>> : d \in Directives, e \in Directives}

\* A location after another, an unknown line, what a server ignores, a server
\* after another.
Layered ==
  {<< <<Item(<<"listen", "h:80">>), Item(<<"//url:", "/x">>), Block("/", body),
        Item(<<"root", "/c">>), Block("/u", <<>>)>>,
      <<Item(<<"listen", "h:81">>), Block("/v", <<<<"methods", "POST">>>>)>> >> :
   body \in Bodies}

Ports == {"h:80", "h:81", "h:180", "g:80", "g:81", "bad:80", "far:80", "h:0", "80"}
Sharing ==
  {<< <<Item(<<"listen", p>>), Item(<<"listen", q>>)>>,
      <<Item(<<"listen", r>>)>> >> : p \in Ports, q \in Ports, r \in {"h:80", "g:80"}}

AllSources == Layered \cup Sharing

\* All of them can be read, as the proofs about Startup ask of Sources.
ASSUME AllSourcesLegible == \A servers \in AllSources : Legible(servers)

Words == Ports \cup {"404", "301", ""}
Host ==
  [w \in Words |-> CASE w \in {"h:80", "h:81", "h:180", "h:0"} -> "h"
                     [] w \in {"g:80", "g:81"} -> "g" [] w = "bad:80" -> "bad"
                     [] w = "far:80" -> "far" [] OTHER -> w]
Number ==
  [w \in Words |-> CASE w \in {"h:81", "g:81"} -> 81 [] w = "h:180" -> 180 [] w = "404" -> 404
                     [] w = "301" -> 301 [] w \in {"", "h:0"} -> 0 [] OTHER -> 80]
Addr == [h \in {"h", "g", "far"} \cup {"bad", "80", ""} |->
           IF h \in {"h", "g", "far"} THEN h
           ELSE IF h = "bad" THEN "255.255.255.255" ELSE "0.0.0.80"]
Here == {"h", "g", "255.255.255.255"}
Busy == {[addr |-> "g", port |-> 81]}
=============================================================================
