------------------------------ MODULE MCServing ------------------------------
(***************************************************************************)
(* Small servers, disks and requests for Serving: the configurations of    *)
(* config_files with one or two segments for each path.                    *)
(***************************************************************************)
EXTENDS Serving

All == {"GET", "POST", "DELETE"}
Slash(s) == <<"/">> \o s

Root == <<"/", "R">>
Store == Root \o <<"/", "u">>
Scripts == Root \o <<"/", "c">>

At(path, root, store, methods) ==
  [path |-> path, root |-> root, methods |-> methods, index |-> <<<<"i">>>>,
   autoindex |-> TRUE, upload_store |-> store, redirected |-> FALSE, cgi |-> {}]
CgiLocation(methods) ==
  [At(Cgi, Scripts, Store, methods) EXCEPT
     !.cgi = {".py"}, !.index = <<<<"i", ".py">>>>, !.autoindex = FALSE]

\* As in configFile1.txt, and with a location whose uploads can be read back.
Everything == At(<<"/">>, Root, Root, All)
Uploads == At(<<"/", "u">>, Store \o <<"/">>, Store, All)
Elsewhere ==
  [At(<<"/", "u", "/", "x">>, <<>>, Root \o <<"/">>, All) EXCEPT
     !.redirected = TRUE]
Closed == [At(<<"/", "u">>, Root, Store, {"GET", "DELETE"}) EXCEPT !.autoindex = FALSE]

\* The whole disk.
Bare == At(<<"/">>, <<"/">>, Root, All)

FullServers ==
  {<<Everything, Uploads, CgiLocation({"GET", "POST"})>>,
   <<Uploads, Elsewhere>>, <<Closed, Everything>>, <<Bare>>}

Tree(dirs, files, sealed, hidden) ==
  [dirs |-> {Segments(p) : p \in dirs}, files |-> {Segments(p) : p \in files},
   sealed |-> {Segments(p) : p \in sealed}, hidden |-> {Segments(p) : p \in hidden}]
Dirs == {<<>>, Root, Store, Scripts, Store \o <<"/", "x">>, Store \o <<"/", "u">>}
Files == {Root \o <<"/", "u", "u">>, Scripts \o <<"/", "i", ".py">>,
          Store \o <<"/", "x">> \o <<"/", "y">>, <<"/", "y">>}
SomeDisks == {Tree(Dirs, Files, {<<>>}, {}), Tree(Dirs, Files, {Store}, {Store})}

UriOf(targets) == {Slash(t) : t \in targets}
Targets ==
  UriOf({<<>>, <<"u">>, <<"u", "/">>, <<"u", "u">>, <<"u", "/", "x">>,
         <<"u", "/", "x", "/", "y">>, <<"u", "/", "y">>, <<"y">>, <<"cgi">>,
         <<"cgi", "/", "i", ".py">>,
         <<".", "%2e", "/", ".", ".", "/", "u", "%2f", "y", "?", "x">>,
         <<"u", "/", ".", ".", "/", "/", "u", "u", "#", "y">>})
BadTargets == {<<>>, <<"u">>, [n \in 1..12 |-> "/"]}

Asked(methods, uris, malformed) ==
  {[NoRequest EXCEPT !.method = m, !.uri = u, !.malformed = b] :
     m \in methods, u \in uris, b \in malformed}
Posted(uris, lengths, kinds, earlies, part) ==
  {[NoRequest EXCEPT !.method = "POST", !.uri = u, !.length = n, !.kind = k,
                     !.early = e, !.part = part, !.stamp = <<"y">>] :
     u \in uris, n \in lengths, k \in kinds, e \in earlies}

\* Names from the query, the last of which leads up.
Named ==
  {[NoRequest EXCEPT !.method = "POST", !.uri = u \o <<"?", "y">>, !.length = 1,
                     !.kind = k, !.early = TRUE, !.queries = <<<<"y">>, name>>,
                     !.stamp = <<"y">>] :
     u \in UriOf({<<>>, <<"u">>}), k \in {"plain", "multipart"},
     name \in {<<"x">>, <<".", ".", "/", "x">>}}

Reads == Asked({"GET", "DELETE"}, Targets, {FALSE})
Wrong == Asked({"GET", "other"}, BadTargets \cup {<<"/">>}, BOOLEAN)
EveryRequest ==
  Reads \cup Wrong
    \cup Posted(Targets, {0, 1}, {"plain"}, BOOLEAN, <<>>)
    \cup Posted(UriOf({<<>>, <<"u">>}), {1}, {"multipart", "invalid"}, BOOLEAN,
                <<"x">>)
    \cup Named
=============================================================================
