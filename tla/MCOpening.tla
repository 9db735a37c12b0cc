----------------------------- MODULE MCOpening -----------------------------
(* Opening on small instances: who the ends are, and what foreign ends send. *)
EXTENDS Opening
LOCAL INSTANCE TLC
LOCAL INSTANCE SequencesExt

\* A websocket request of version 13, as a function of its header lines.
MCOrder == <<"Host", "Upgrade", "Connection", "Version", "Key", "Key1", "Key2",
             "Protocol", "Extensions", "Length", "Cookie", "malformed">>
MCValid == [n \in ToSet(MCOrder) |->
              CASE n = "Host" -> <<"h">> [] n = "Upgrade" -> <<"websocket">>
                [] n = "Connection" -> <<"upgrade">> [] n = "Version" -> <<"13">>
                [] n = "Key" -> <<"key">> [] OTHER -> <<>>]
MCPlain == [MCValid EXCEPT !["Upgrade"] = <<>>, !["Connection"] = <<>>, !["Key"] = <<>>]
MCFirst == [MCValid EXCEPT !["Version"] = <<>>, !["Key"] = <<>>,
                           !["Key1"] = <<"key">>, !["Key2"] = <<"key">>]

MCStart == Line("request", <<"GET", "HTTP/1.1">>)
MCLines(start, f) ==
  <<start>> \o [i \in 1..Len(SelectSeq(MCOrder, LAMBDA n : f[n] # <<>>)) |->
                   LET n == SelectSeq(MCOrder, LAMBDA m : f[m] # <<>>)[i] IN Line(n, f[n])]

\* What the server's user may do, and what he does where it makes no difference.
MCPolicies ==
  {[http |-> h, validate |-> "accept", choose |-> <<"a">>] : h \in {"none", "answers", "quiet", "defers"}}
  \cup {[http |-> "none", validate |-> v, choose |-> <<"b">>] : v \in {"reject", "forbid", "accept"}}
MCPolicy == {[http |-> "none", validate |-> "accept", choose |-> <<"a">>]}

MCForeign(start, f, tail, whole) ==
  [library |-> {"server"}, lines |-> MCLines(start, f), tail |-> tail, whole |-> whole,
   policies |-> IF whole THEN MCPolicies ELSE MCPolicy, offers |-> <<>>, uri |-> <<>>]
MCFrames == <<Frame("m1"), Frame("m2")>>
MCKey3 == [i \in 1..Key3Bytes |-> Tok("key3", "", <<>>)]
MCBytes(m) == <<Tok("hdr", "", <<>>), Tok("byte", m, <<>>), Tok("ftr", "", <<>>)>>

\* Whatever can be wrong with a request, and what may be right in another way.
MCChanges ==
  {<<"Host", v>> : v \in {<<>>, <<"h", ":", "9002">>, <<"h", ":", "0">>, <<"h", ":", "70000">>,
                          <<"[", "h", ":", "h", "]">>, <<"[", "h", "]", ":", "80">>, <<"h", ":">>,
                          <<" ", "h", " ">>}}
  \cup {<<"Version", v>> : v \in {<<"7">>, <<"8">>, <<"5">>, <<"x">>}}
  \cup {<<"Extensions", v>> : v \in {<<"a", ";", "b", "=", Quote, "a", Quote>>, <<";">>, <<"=">>}}
  \cup {<<"Length", v>> : v \in {<<"0">>, <<"huge">>}}
  \cup {<<"Upgrade", <<>>>>, <<"Connection", <<>>>>, <<"Key", <<>>>>,
        <<"Cookie", <<"a">>>>, <<"malformed", <<"a">>>>, <<"Protocol", <<"a", ",", " ", "b">>>>}

MCServed ==
  {MCForeign(MCStart, [MCValid EXCEPT ![ch[1]] = ch[2]], MCFrames, w) :
     ch \in MCChanges, w \in BOOLEAN}
  \cup {MCForeign(st, MCValid, <<>>, TRUE) :
          st \in {Line("request", <<"GET">>), Line("request", <<"POST", "HTTP/1.1">>),
                  Line("request", <<"GET", "HTTP/1.0">>), Line("Host", <<"h">>)}}
  \cup {MCForeign(MCStart, [MCValid EXCEPT !["Length"] = <<"1">>], t, FALSE) :
          t \in {<<>>, <<Tok("byte", "body", <<>>)>> \o MCFrames}}
  \cup {MCForeign(MCStart, [MCPlain EXCEPT !["Host"] = h], <<>>, TRUE) :
          h \in {<<"h">>, <<>>, <<"h", ":", "h">>}}
  \cup {MCForeign(MCStart, f, MCKey3 \o MCBytes("m1") \o t, FALSE) :
          f \in {MCFirst}, t \in {MCBytes("m2"), <<Tok("byte", "m2", <<>>)>>}}
  \cup {MCForeign(MCStart, [MCFirst EXCEPT !["Key2"] = <<>>], MCKey3, TRUE)}
  \cup {MCForeign(MCStart, MCValid, SubSeq(MCFrames, 1, 1), FALSE)}

\* Every short list of subprotocols, well formed or not.
MCLists == {[MCForeign(MCStart, [MCValid EXCEPT !["Protocol"] = v], <<>>, TRUE)
               EXCEPT !.policies = MCPolicy] :
              v \in SeqOf({"a", " ", ",", ";", "="}, 4) \ {<<>>}}

MCClient(library, uri, offers, whole) ==
  [library |-> library, lines |-> <<>>, tail |-> <<>>, whole |-> whole,
   policies |-> MCPolicy, offers |-> offers, uri |-> uri]
MCUris == {<<"ws://", "h">>, <<"ws://", "h", ":", "9002", "/", "h">>, <<"wss://", "h", ":", "80">>,
           <<"ws://", "h", "/">>, <<"ws://", "[", "h", ":", "h", "]", ":", "9002">>}
MCOffers == {<<>>, <<<<"a">>>>, <<<<"a">>, <<"b">>>>, <<<<"a", " ">>, <<>>, <<"b">>>>}

MCScenarios ==
  MCServed \cup MCLists
  \cup {MCClient({"client", "server"}, u, o, TRUE) : u \in MCUris, o \in MCOffers}
  \cup {MCClient({"client", "server"}, <<"ws://", "h">>, <<<<"a">>>>, FALSE),
        MCClient({"client"}, <<"ws://", "h">>, <<<<"a">>>>, FALSE)}

\* Responses of foreign servers.
MCResponse(status, accept, more, tail, good) ==
  [lines |-> <<Line("status", <<status, "reason">>), Line("Upgrade", <<"websocket">>),
               Line("Connection", <<"upgrade">>), Line("Accept", accept)>> \o more,
   tail |-> tail, good |-> good]
MCAnswers ==
  {MCResponse("101", <<"accept", "key">>, <<>>, MCFrames, TRUE),
   MCResponse("101", <<"accept", "key">>, <<Line("Extensions", <<"=">>)>>, MCFrames, TRUE),
   MCResponse("101", <<"accept", "other">>, <<>>, MCFrames, FALSE),
   MCResponse("101", <<>>, <<>>, <<>>, FALSE),
   MCResponse("403", <<>>, <<Line("Length", <<"1">>)>>, <<Tok("byte", "body", <<>>)>>, FALSE),
   MCResponse("403", <<>>, <<Line("Length", <<"x">>)>>, <<>>, FALSE),
   MCResponse("200", <<"accept", "key">>, <<Line("malformed", <<"a">>)>>, <<>>, FALSE),
   [lines |-> <<Line("status", <<"101">>)>>, tail |-> <<>>, good |-> FALSE],
   [lines |-> <<Line("status", <<"101", "reason">>), Line("Accept", <<"accept", "key">>)>>,
    tail |-> MCFrames, good |-> FALSE],
   [lines |-> <<>>, tail |-> <<>>, good |-> FALSE]}

MCLineSize == "Cookie" :> MaxHeaderSize
=============================================================================
