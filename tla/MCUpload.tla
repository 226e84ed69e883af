------------------------------- MODULE MCUpload -------------------------------
(***************************************************************************)
(* Small requests for Upload: plain bodies, multipart bodies of one and of *)
(* two parts whose data hold blank lines, dashes and stray filename= texts.*)
(***************************************************************************)
EXTENDS Upload

Part(header, data) == Delimiter \o header \o <<Blank>> \o data
Ended(parts) == parts \o Delimiter \o <<Dashes>>

UpTo(n, S) == UNION {[1..m -> S] : m \in 0..n}

\* Data no boundary occurs in.
SomeData == {<<"x">> \o s : s \in UpTo(2, {"y", Dashes, Blank, CutName})}
FewData == {<<"x">>, <<"x", Dashes>>, <<"x", Blank, "y">>}
Header == {<<>>, <<FileName>>}

OneParts == {Ended(Part(h, s)) : h \in Header, s \in SomeData}
TwoParts == {Ended(Part(<<FileName>>, s) \o Part(h, t)) :
               h \in Header, s \in FewData, t \in FewData}

Made(kind, bodies, stores) ==
  UNION {{[kind |-> kind, length |-> n, body |-> b, store |-> s] :
            s \in stores, n \in {Len(b), Len(b) - 1}} : b \in bodies}

PlainRequests ==
  Made("plain", UpTo(4, {"x", "y", Blank}) \ {<<>>}, {"usable", "unusable", "unset"})
MultipartRequests ==
  Made("multipart", OneParts \cup TwoParts, {"usable"})
    \cup Made("multipart", {Ended(Part(<<>>, <<"x">>))}, {"unusable", "unset"})
    \cup Made("capital", {Ended(Part(h, <<"x", "y">>)) : h \in Header}, {"usable"})
    \cup Made("invalid", {<<"x", "y">>}, {"usable"})
EveryRequest == PlainRequests \cup MultipartRequests

NoFiles == {[n \in Names |-> <<>>]}
SomeFiles == NoFiles \cup {[n \in Names |-> <<"y", "y", "y", "x">>]}
=============================================================================
