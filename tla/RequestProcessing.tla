------------------------- MODULE RequestProcessing -------------------------
(***************************************************************************)
(* What a worker of server_sim_prefetch.c does with a request, between two *)
(* calls of dequeue_request: make the text, parse it, look for the client  *)
(* header, build and compress the response, log.  Everything here is local *)
(* to the worker; the database is the module Database.                     *)
(*                                                                         *)
(* A text is what the parser can tell apart: its length, the positions of  *)
(* its spaces, of its CRs and of those with an LF behind them, and those   *)
(* where "X-Client" begins.  What is copied out of a text is the slice     *)
(* <<first, last>> of its positions.                                       *)
(***************************************************************************)
EXTENDS Naturals, Sequences, FiniteSets, FiniteSetsExt, SequencesExt

CONSTANTS MadeTexts,    \* the texts make_request_text writes
          OtherTexts,   \* texts parse_request_text is prepared for beyond those
          Digits,       \* lengths of a database value, printed
          METHOD_SIZE,  \* sizeof(req->method), 8
          PATH_SIZE,    \* sizeof(req->path), 256
          MAX_HEADERS,  \* 16
          HEADER_SIZE,  \* of one header, 64
          RESP_SIZE,    \* sizeof(resp), 256
          COMP_SIZE     \* sizeof(compbuf), 1024

Texts == MadeTexts \cup OtherTexts

ASSUME ProcessingAssumption ==
    /\ {METHOD_SIZE, PATH_SIZE, HEADER_SIZE} \subseteq Nat \ {0}
    /\ {MAX_HEADERS, RESP_SIZE, COMP_SIZE} \subseteq Nat
    /\ Digits \subseteq Nat \ {0}
    /\ \A t \in Texts : /\ t.len \in Nat
                        /\ t.spaces \subseteq 1 .. t.len
                        /\ t.crlfs \subseteq 1 .. t.len - 1
                        /\ t.crs \subseteq 1 .. t.len /\ t.crlfs \subseteq t.crs
                        /\ \A c \in t.crlfs : c + 1 \notin t.crs
                        /\ t.xclients \subseteq 1 .. t.len - 7

\* What make_request_text writes: a method and a path that fit, and leave room
\* for the response; a first header, then the client's, which fits as well.
IsMade(t) ==
    LET space == Min(t.spaces)
        next  == Min(t.spaces \ {space})
    IN  /\ t.crs = t.crlfs
        /\ Cardinality(t.spaces) > 1
        /\ space <= METHOD_SIZE /\ next - space <= PATH_SIZE
        /\ \A digits \in Digits : 8 + (next - space - 1) + 5 + digits + 4 < RESP_SIZE
        /\ \E line, client, end \in t.crlfs :
              /\ \A c \in t.crlfs : c \in {line, client} \/ c >= end
              /\ line + 2 < client /\ client + 2 \in t.xclients
              /\ client + 9 < end /\ end - client - 2 < HEADER_SIZE

ASSUME MadeAssumption == MAX_HEADERS > 1 /\ \A t \in MadeTexts : IsMade(t)

VARIABLES buffer,        \* the text
          p,             \* where the parser is: p, later line
          method, path,  \* slices
          headers,       \* the header_count headers, slices
          inlen,         \* of fake_compress: the length of the response
          i, out,        \* its loop: the place in the input, the words written
          status,        \* what server_log printed last
          pc

parsed == <<method, path, headers>>
compress == <<inlen, i, out>>
vars == <<buffer, p, parsed, compress, status, pc>>

Length(slice) == slice[2] + 1 - slice[1]
Word == 8

Init ==
    /\ buffer \in MadeTexts
    /\ p = 1
    /\ method = <<1, 0>> /\ path = <<1, 0>>
    /\ headers = <<>>
    /\ inlen = 0 /\ i = 0 /\ out = <<>>
    /\ status = 0
    /\ pc = "make"

-----------------------------------------------------------------------------
(* make_request_text and parse_request_text *)

MakeRequestText(t) ==
    /\ pc = "make"
    /\ buffer' = t
    /\ p' = 1
    /\ pc' = "method"
    /\ UNCHANGED <<parsed, compress, status>>

\* Fault: no room is kept for the terminating 0.
CopyWordFull(from, size) ==
    <<from, Min({from + size - 1, buffer.len}
                \cup {s - 1 : s \in {r \in buffer.spaces : r >= from}})>>

\* The copy loops: up to a space, the end of the text, or a full array.
CopyWord(from, size) ==
    <<from, Min({from + size - 2, buffer.len}
                \cup {s - 1 : s \in {r \in buffer.spaces : r >= from}})>>

\* The place behind the slice, and behind one space there.
Behind(slice) == IF slice[2] + 1 \in buffer.spaces THEN slice[2] + 2 ELSE slice[2] + 1

ParseMethod ==
    /\ pc = "method"
    /\ method' = CopyWord(p, METHOD_SIZE)
    /\ p' = Behind(method')
    /\ pc' = "path"
    /\ UNCHANGED <<buffer, path, headers, compress, status>>

\* Fault: the CRLF of the request line is not skipped.
FirstLineAtCrlf == Min(buffer.crlfs)

\* Where the first line behind the request line begins.
FirstLine == Min(buffer.crlfs) + 2

\* Without a CRLF in the text there are no headers.
ParsePath ==
    /\ pc = "path"
    /\ path' = CopyWord(p, PATH_SIZE)
    /\ headers' = <<>>
    /\ IF buffer.crlfs = {} THEN pc' = "auth" /\ p' = p
                            ELSE pc' = "headers" /\ p' = FirstLine
    /\ UNCHANGED <<buffer, method, compress, status>>

\* Fault: a line that begins with a CR is a header unless it is empty.
MoreHeadersAtCr == {c \in buffer.crlfs : c >= p} # {} /\ p \notin buffer.crlfs /\ Len(headers) < MAX_HEADERS

\* A CRLF ends the next line, which does not begin with a CR, bare or its own.
NextCrlf == {c \in buffer.crlfs : c >= p}
MoreHeaders == NextCrlf # {} /\ p \notin buffer.crs /\ Len(headers) < MAX_HEADERS

\* A line of HEADER_SIZE bytes or more is skipped.
ParseHeader ==
    /\ pc = "headers"
    /\ MoreHeaders
    /\ LET line == <<p, Min(NextCrlf) - 1>>
       IN  headers' = IF Length(line) < HEADER_SIZE THEN Append(headers, line) ELSE headers
    /\ p' = Min(NextCrlf) + 2
    /\ UNCHANGED <<buffer, method, path, compress, status, pc>>

ParseEnds ==
    /\ pc = "headers"
    /\ ~MoreHeaders
    /\ pc' = "auth"
    /\ UNCHANGED <<buffer, p, parsed, compress, status>>

-----------------------------------------------------------------------------
(* worker_fn *)

Authorized == \E h \in ToSet(headers), x \in buffer.xclients : h[1] <= x /\ x + 7 <= h[2]

ServerLog(code) ==
    /\ status' = code
    /\ pc' = "make"

Unauthorized ==
    /\ pc = "auth"
    /\ ~Authorized
    /\ ServerLog(401)
    /\ UNCHANGED <<buffer, p, parsed, compress>>

\* business_logic_sim and db_lookup_update answer; snprintf's result is the
\* length of "OK path=<path> dbv=<value> d=<0 or 1>", cut off in resp or not.
Respond(digits) ==
    /\ pc = "auth"
    /\ Authorized
    /\ inlen' = 8 + Length(path) + 5 + digits + 4
    /\ i' = 0
    /\ out' = <<>>
    /\ pc' = "compress"
    /\ UNCHANGED <<buffer, p, parsed, status>>

\* Fault: an input that does not fill the last word is cut.
CompressFull == i + Word <= inlen /\ Len(out) * Word + Word < COMP_SIZE

\* fake_compress goes on: input is left, and more than a word of room.
CompressMore == i < inlen /\ Len(out) * Word + Word < COMP_SIZE

\* The next Word bytes of input, or what is left, become one word of output.
CompressWord ==
    /\ pc = "compress"
    /\ CompressMore
    /\ out' = Append(out, <<i + 1, Min({i + Word, inlen})>>)
    /\ i' = i + Word
    /\ UNCHANGED <<buffer, p, parsed, inlen, status, pc>>

\* The output is dropped; the worker sleeps and logs.
CompressEnds ==
    /\ pc = "compress"
    /\ ~CompressMore
    /\ ServerLog(200)
    /\ UNCHANGED <<buffer, p, parsed, compress>>

-----------------------------------------------------------------------------
Next ==
    \/ \E t \in Texts : MakeRequestText(t)
    \/ ParseMethod \/ ParsePath \/ ParseHeader \/ ParseEnds
    \/ Unauthorized
    \/ \E digits \in Digits : Respond(digits)
    \/ CompressWord \/ CompressEnds

Spec == Init /\ [][Next]_vars
-----------------------------------------------------------------------------
(* Properties *)

Labels == {"make", "method", "path", "headers", "auth", "compress"}

\* Types; what is copied fits the arrays of request_t with its terminating 0,
\* and fake_compress stays inside compbuf.
TypeOK ==
    /\ buffer \in Texts
    /\ p \in Nat \ {0}
    /\ method \in Nat \X Nat /\ path \in Nat \X Nat
    /\ Length(method) < METHOD_SIZE /\ Length(path) < PATH_SIZE
    /\ headers \in Seq(Nat \X Nat)
    /\ Len(headers) <= MAX_HEADERS
    /\ \A h \in ToSet(headers) : Length(h) < HEADER_SIZE
    /\ inlen \in Nat /\ i \in Nat
    /\ out \in Seq(Nat \X Nat)
    /\ Len(out) * Word <= COMP_SIZE
    /\ status \in {0, 200, 401}
    /\ pc \in Labels

Parsed == pc \in {"auth", "compress"}

\* Where the line that ends at the CRLF c begins, and where the first line
\* does that is empty or begins with a bare CR.
Begins(c) == Max({b + 2 : b \in {d \in buffer.crlfs : d < c}} \cup {1})
HeadersEnd == Min({c \in buffer.crs : c - 2 \in buffer.crlfs} \cup {buffer.len + 1})

\* The lines of the text in front of that one, and those a header may be.
Lines == {<<Begins(c), c - 1>> : c \in {d \in buffer.crlfs : d < HeadersEnd}}
HeaderLines == {l \in Lines : l[1] > 1 /\ Length(l) < HEADER_SIZE}

\* server_sim_prefetch.c:92: the parser "fills request_t from text".  Of a text
\* whose request line has a method and a path that fit, it keeps exactly these;
\* of any text, the first MAX_HEADERS of the lines that are short enough and end
\* in a CRLF, in their order, up to the first that is empty or begins with a CR.
\* A CR inside a line is part of its header.
ParsedAsWritten ==
    Parsed =>
        LET space == Min(buffer.spaces)
            next  == Min(buffer.spaces \ {space})
        IN  /\ /\ Cardinality(buffer.spaces) > 1
               /\ space <= METHOD_SIZE
               /\ next - space <= PATH_SIZE
               => method = <<1, space - 1>> /\ path = <<space + 1, next - 1>>
            /\ ToSet(headers) \subseteq HeaderLines
            /\ Len(headers) = Min({MAX_HEADERS, Cardinality(HeaderLines)})
            /\ \A m, n \in DOMAIN headers : m < n => headers[m][2] < headers[n][1]
            /\ \A l \in HeaderLines \ ToSet(headers), h \in ToSet(headers) : h[2] < l[1]

\* The parser and the check behind it fit the texts the server makes for itself:
\* a made request is never refused, and its response fits resp, so that
\* fake_compress reads no byte snprintf had no room for.
MadeRequestsPass ==
    buffer \in MadeTexts =>
        /\ pc = "auth" => Authorized
        /\ pc = "compress" => inlen < RESP_SIZE

\* fake_compress: the words written cut the input into pieces of Word bytes
\* without a gap, and together they are all of it unless compbuf has no more
\* than one word of room.
CompressesInput ==
    pc = "compress" =>
        /\ \A n \in DOMAIN out : out[n] = <<Word * (n - 1) + 1, Min({Word * n, inlen})>>
        /\ ~CompressMore =>
              \/ \A b \in 1 .. inlen : \E n \in DOMAIN out : out[n][1] <= b /\ b <= out[n][2]
              \/ COMP_SIZE <= Len(out) * Word + Word
=============================================================================
