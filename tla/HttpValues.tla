----------------------------- MODULE HttpValues -----------------------------
(***************************************************************************)
(* The values of HTTP headers and uris as the websocket library reads them *)
(* (http/parser.hpp, uri.hpp, processors/processor.hpp): what each parser  *)
(* takes from a sequence of characters, for better and worse input.        *)
(*                                                                         *)
(* A character is one of its kind: "a" and "b" are token characters; space *)
(* comma semicolon = quote and backslash are not.  In uris, "h" is any     *)
(* character of a host name or resource, a scheme is one character, and so *)
(* is each number in Numbers.                                              *)
(***************************************************************************)
EXTENDS Integers, Sequences
LOCAL INSTANCE FiniteSets
LOCAL INSTANCE SequencesExt

Quote == "\""
Backslash == "\\"
TokenChars == {"a", "b"}

\* F of the value of x: a LET that is evaluated once, whoever asks.
With(x, F(_)) == CHOOSE y \in {F(z) : z \in {x}} : TRUE

\* A parser's result: what it has read and the place after it.
LOCAL At(text, place) == [text |-> text, at |-> place]

\* The first place from i on whose character is in (or out of) a set, or the end.
FirstOf(s, i, chars) ==
  LET k == SelectInSubSeq(s, i, Len(s), LAMBDA c : c \in chars)
  IN IF k = 0 THEN Len(s) + 1 ELSE k
FirstNot(s, i, chars) ==
  LET k == SelectInSubSeq(s, i, Len(s), LAMBDA c : c \notin chars)
  IN IF k = 0 THEN Len(s) + 1 ELSE k

ExtractToken(s, i) ==
  LET j == FirstNot(s, i, TokenChars) IN At(SubSeq(s, i, j - 1), j)

\* Lines are cut at CR LF before their values are read, so that none is left to
\* be stripped with the white space.
ExtractAllLws(s, i) == FirstNot(s, i, {" "})

StripLws(s) ==
  LET i == ExtractAllLws(s, 1)
      kept == {j \in i..Len(s) : s[j] # " "}
  IN IF kept = {} THEN <<>> ELSE SubSeq(s, i, CHOOSE j \in kept : \A k \in kept : k <= j)

\* From `marker' on, with `text' read so far: a quote after a backslash is kept, the
\* next one ends the string; without an end nothing has been read.
RECURSIVE QuotedFrom(_, _, _, _)
QuotedFrom(s, begin, marker, text) ==
  LET cursor == FirstOf(s, marker, {Quote})
  IN IF cursor > Len(s) THEN At(<<>>, begin)
     ELSE IF s[cursor - 1] = Backslash
     THEN QuotedFrom(s, begin, cursor + 1, text \o SubSeq(s, marker, cursor - 2) \o <<Quote>>)
     ELSE At(text \o SubSeq(s, marker, cursor - 1), cursor + 1)

ExtractQuotedString(s, i) ==
  IF i > Len(s) \/ s[i] # Quote THEN At(<<>>, i) ELSE QuotedFrom(s, i, i + 1, <<>>)

\* The value of an attribute, from the character after its '=': a quoted string or
\* a token.  Text is {} when there is neither.
AttributeValue(s, i) ==
  LET v == ExtractAllLws(s, i)
      quoted == ExtractQuotedString(s, v)
      token == ExtractToken(s, v)
  IN IF quoted.at # v THEN quoted ELSE token

\* ';'-separated attributes from begin on, the names read so far in `names'; a
\* syntax error is reported by the place they began at.
RECURSIVE AttributesFrom(_, _, _, _)
\* The attribute whose name is `name'.
LOCAL AttributeNamed(s, begin, name, names) ==
  With(ExtractAllLws(s, name.at), LAMBDA e :
    IF name.text = <<>> THEN At(<<>>, begin)
    ELSE IF e > Len(s) \/ s[e] # "="
    THEN AttributesFrom(s, begin, e, Append(names, name.text))
    ELSE With(AttributeValue(s, e + 1), LAMBDA value :
           IF value.at = ExtractAllLws(s, e + 1) THEN At(<<>>, begin)
           ELSE AttributesFrom(s, begin, value.at, Append(names, name.text))))

AttributesFrom(s, begin, i, names) ==
  With(ExtractAllLws(s, i), LAMBDA c :
    IF i > Len(s) \/ c > Len(s) THEN At(names, c)
    ELSE IF names # <<>> /\ s[c] # ";" THEN At(names, c)
    ELSE With(ExtractToken(s, ExtractAllLws(s, IF names = <<>> THEN c ELSE c + 1)),
              LAMBDA name : AttributeNamed(s, begin, name, names)))

ExtractAttributes(s, i) == AttributesFrom(s, i, i, <<>>)

\* The parameter names of a ','-separated list; an error is reported by the place 1.
\* A character that fits nowhere ends the list without one.
RECURSIVE ParametersFrom(_, _, _)
\* What follows the parameter whose attributes end before f.
LOCAL NextParameter(s, f, names) ==
  IF f > Len(s) \/ s[f] # "," THEN At(names, f)
  ELSE IF f = Len(s) THEN At(names, 1)
  ELSE ParametersFrom(s, f + 1, names)

\* What follows the name of a parameter, white space skipped.
LOCAL AfterName(s, d, names) ==
  IF d > Len(s) THEN At(names, d)
  ELSE IF s[d] # ";" THEN NextParameter(s, d, names)
  ELSE With(ExtractAttributes(s, d + 1), LAMBDA attributes :
         IF attributes.at = d + 1 THEN At(SubSeq(names, 1, Len(names) - 1), 1)
         ELSE NextParameter(s, ExtractAllLws(s, attributes.at), names))

ParametersFrom(s, i, names) ==
  IF ExtractAllLws(s, i) > Len(s) THEN At(names, ExtractAllLws(s, i))
  ELSE With(ExtractToken(s, ExtractAllLws(s, i)), LAMBDA name :
         IF name.text = <<>> THEN At(names, 1)
         ELSE AfterName(s, ExtractAllLws(s, name.at), Append(names, name.text)))

\* get_header_as_plist: an absent or empty header is an empty list without error.
HeaderAsPlist(value) ==
  LET r == ParametersFrom(value, 1, <<>>)
  IN IF value = <<>> THEN [error |-> FALSE, names |-> <<>>]
     ELSE [error |-> r.at = 1, names |-> r.text]

-----------------------------------------------------------------------------
(* uris *)

DefaultPort(secure) == IF secure THEN 443 ELSE 80
Numbers == [n \in {"0", "80", "443", "9002", "70000"} |->
              CASE n = "0" -> 0 [] n = "80" -> 80 [] n = "443" -> 443
                [] n = "9002" -> 9002 [] OTHER -> 70000]

\* get_port_from_string, with atoi: what does not begin with a number is 0.
PortOf(text, secure) ==
  IF text = <<>> THEN DefaultPort(secure)
  ELSE IF Head(text) \in DOMAIN Numbers THEN Numbers[Head(text)] ELSE 0
ValidPort(n) == n \in 1..65535

Uri(secure, host, port, valid) ==
  [secure |-> secure, host |-> host, port |-> port % 65536, valid |-> valid]

NoUri(secure) == Uri(secure, <<>>, 0, FALSE)

\* uri(scheme, host, port, resource), and the one without a port.
UriOfParts(secure, host, text) ==
  Uri(secure, host, PortOf(text, secure), ValidPort(PortOf(text, secure)))
UriOfHost(secure, host) == Uri(secure, host, DefaultPort(secure), TRUE)

\* uri(uri_string).  The scheme must be followed by something.
UriOfString(u) ==
  LET secure == u[1] \in {"wss://", "https://"}
      close == FirstOf(u, 3, {"]"})
      v6 == u[2] = "["
      hostEnd == IF v6 THEN close + 1 ELSE FirstOf(u, 2, {":", "/"})
      host == IF v6 THEN SubSeq(u, 3, close - 1) ELSE SubSeq(u, 2, hostEnd - 1)
      colon == hostEnd <= Len(u) /\ u[hostEnd] = ":"
      portEnd == FirstOf(u, hostEnd + 1, {"/"})
  IN IF Len(u) < 2 \/ u[1] \notin {"ws://", "wss://", "http://", "https://"} THEN NoUri(FALSE)
     ELSE IF v6 /\ close > Len(u) THEN NoUri(secure)
     ELSE IF v6 /\ hostEnd <= Len(u) /\ u[hostEnd] \notin {":", "/"} THEN NoUri(secure)
     ELSE UriOfParts(secure, host, IF colon THEN SubSeq(u, hostEnd + 1, portEnd - 1) ELSE <<>>)

NumberOf(port) == CHOOSE n \in DOMAIN Numbers : Numbers[n] = port
HostPort(uri) ==
  IF uri.port = DefaultPort(uri.secure) THEN uri.host
  ELSE uri.host \o <<":", NumberOf(uri.port)>>

\* get_uri_from_host: a colon after the last bracket, if any, begins a port.
UriFromHost(value, secure) ==
  LET colon == SelectLastInSeq(value, LAMBDA c : c = ":")
      brace == SelectLastInSeq(value, LAMBDA c : c = "]")
  IN IF colon = 0 \/ brace > colon THEN UriOfHost(secure, value)
     ELSE UriOfParts(secure, SubSeq(value, 1, colon - 1), SubSeq(value, colon + 1, Len(value)))
=============================================================================
