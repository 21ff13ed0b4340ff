------------------------ MODULE MCRequestProcessing ------------------------
EXTENDS RequestProcessing

\* The text of a request line whose words have the given lengths, followed by
\* lines of the given lengths; the line at position x, if any, is the client's.
\* No CR is bare.
Sum(s, n) == FoldFunction(+, 0, [k \in 1 .. n |-> s[k]])
Text(words, lines, x) ==
    LET request == Sum(words, Len(words)) + Len(words) - 1
        End(n)  == request + Sum(lines, n) + 2 * n + 1
    IN  [len      |-> End(Len(lines)) + 1,
         spaces   |-> {Sum(words, n) + n : n \in 1 .. Len(words) - 1},
         crs      |-> {End(n) : n \in 0 .. Len(lines)},
         crlfs    |-> {End(n) : n \in 0 .. Len(lines)},
         xclients |-> IF x = 0 THEN {} ELSE {End(x - 1) + 2}]

\* A CR instead of the character at position n + 1 of the line that begins at
\* the CRLF number m of the text (0 is the request line's): it is bare unless the
\* CRLF of the line stands there.
WithCr(t, m, n) ==
    LET crlf == CHOOSE c \in t.crlfs : Cardinality({d \in t.crlfs : d < c}) = m
        cr   == crlf + 2 + n
    IN  [t EXCEPT !.crs = @ \cup {cr}, !.xclients = {x \in @ : cr \notin x .. x + 7}]

\* The last n positions are missing; a CR whose LF is gone is bare.
Cut(t, n) == LET len == t.len - n
             IN  [len      |-> len,
                  spaces   |-> t.spaces \cap 1 .. len,
                  crs      |-> t.crs \cap 1 .. len,
                  crlfs    |-> t.crlfs \cap 1 .. len - 1,
                  xclients |-> t.xclients \cap 1 .. len - 7]

\* "GET /index HTTP/1.1", "Host: example", "X-Client: <id>", "X-Trace: <16>", "":
\* methods of 3, 4 and 6 characters, paths of 6, 9 and 11, ids of up to 10.
MCMadeTexts ==
    {Text(<<m, q, 8>>, <<13, 10 + id, 25, 0>>, 2) : m \in {3, 4, 6}, q \in {6, 9, 11}, id \in {1, 2, 10}}

\* At and over the limits: methods and paths that just fit or are cut, a request
\* line of one or two words, headers of 63 and of 64 characters, more headers
\* than fit with the client's in the last place kept or behind it, no empty
\* line, a last line without CRLF, no CRLF at all, no client.  A bare CR at the
\* beginning of the first or of the client's line, inside the client's line and
\* right in front of its CRLF, and in the request line.
Many(n) == [k \in 1 .. n |-> 9]
MCOtherTexts ==
    {Text(<<m, q, 8>>, <<13, 12, 0>>, 2) : m \in {7, 8, 14, 15}, q \in {1, 255, 256}}
    \cup {Text(<<6>>, <<12, 0>>, 1), Text(<<300>>, <<12, 0>>, 1), Text(<<3, 6>>, <<12>>, 1)}
    \cup {Text(<<3, 6, 8>>, <<63, 64, 65, 12, 0, 12>>, 4), Text(<<3, 6, 8>>, <<13, 64, 0>>, 2)}
    \cup {Text(<<3, 6, 8>>, Many(16) \o <<12, 0>>, 17), Text(<<3, 6, 8>>, Many(18) \o <<0>>, 16)}
    \cup {Cut(Text(<<3, 6, 8>>, <<13, 12>>, 2), n) : n \in {1, 2, 8, 18, 33}}
    \cup {Text(<<3, 6, 8>>, <<13, 25, 0>>, 0), Text(<<3, 6, 8>>, <<>>, 0)}
    \cup {WithCr(Text(<<3, 6, 8>>, <<13, 20, 9, 0>>, 2), m, n) : m \in {0, 1}, n \in {0, 12}}
    \cup {WithCr(Text(<<3, 6, 8>>, <<13, 20, 9, 0>>, 2), 1, 19)}
    \cup {[Text(<<3, 6, 8>>, <<13, 12, 0>>, 2) EXCEPT !.crs = @ \cup {15}]}
=============================================================================
