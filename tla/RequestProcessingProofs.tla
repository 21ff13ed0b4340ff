---------------------- MODULE RequestProcessingProofs ----------------------
(***************************************************************************)
(* Proofs about RequestProcessing, for any texts, numbers and sizes of the *)
(* arrays.                                                                 *)
(***************************************************************************)
EXTENDS RequestProcessing, DataTheorems, TLAPS

LEMMA StepCases ==
    ASSUME [Next]_vars
    PROVE  \/ \E t \in Texts : MakeRequestText(t)
           \/ ParseMethod \/ ParsePath \/ ParseHeader \/ ParseEnds \/ Unauthorized
           \/ \E digits \in Digits : Respond(digits)
           \/ CompressWord \/ CompressEnds
           \/ UNCHANGED vars
BY Zenon DEF Next

LEMMA TextType ==
    ASSUME NEW t \in Texts
    PROVE  /\ t.len \in Nat
           /\ t.spaces \subseteq Nat \ {0} /\ t.crlfs \subseteq Nat \ {0}
<1>1. /\ t.len \in Nat
      /\ t.spaces \subseteq 1 .. t.len
      /\ t.crlfs \subseteq 1 .. t.len - 1
  BY ProcessingAssumption, Zenon
<1> QED BY <1>1

-----------------------------------------------------------------------------
(* The parser *)

\* A copy loop leaves room for the terminating 0; started in the text or right
\* behind it, it stays there.
LEMMA CopyWordFits ==
    ASSUME buffer \in Texts, NEW from \in Nat \ {0}, NEW size \in Nat \ {0}
    PROVE  /\ CopyWord(from, size) \in Nat \X Nat
           /\ Length(CopyWord(from, size)) < size
           /\ from <= buffer.len + 1 =>
                 /\ Length(CopyWord(from, size)) >= 0
                 /\ CopyWord(from, size)[2] <= buffer.len
<1> DEFINE S == {from + size - 2, buffer.len}
                \cup {s - 1 : s \in {r \in buffer.spaces : r >= from}}
<1>1. /\ buffer.len \in Nat
      /\ buffer.spaces \subseteq Nat \ {0}
  BY TextType
<1>2. S \in SUBSET Nat /\ from + size - 2 \in S /\ buffer.len \in S
  BY <1>1
<1>3. from <= buffer.len + 1 => \A m \in S : from <= m + 1
  BY <1>1
<1>4. CopyWord(from, size) = <<from, Min(S)>>
  BY DEF CopyWord
<1> HIDE DEF S
<1>5. Min(S) \in S /\ \A m \in S : Min(S) <= m
  BY <1>2, MinOfNats
<1>6. /\ Min(S) \in Nat
      /\ Min(S) <= from + size - 2 /\ Min(S) <= buffer.len
  BY <1>2, <1>5
<1> QED BY <1>1, <1>3, <1>4, <1>5, <1>6 DEF Length

LEMMA BehindType ==
    ASSUME buffer \in Texts, NEW s \in Nat \X Nat
    PROVE  /\ Behind(s) \in Nat \ {0}
           /\ s[2] <= buffer.len => Behind(s) <= buffer.len + 1
<1>1. buffer.spaces \subseteq 1 .. buffer.len /\ buffer.len \in Nat
  BY ProcessingAssumption, Zenon
<1> QED BY <1>1 DEF Behind

\* A line ends at a CRLF behind its first position.
LEMMA NextCrlfType ==
    ASSUME buffer \in Texts, NextCrlf # {}
    PROVE  Min(NextCrlf) \in Nat \ {0}
<1>1. NextCrlf \subseteq Nat \ {0}
  BY TextType DEF NextCrlf
<1> QED BY <1>1, MinOfNats

LEMMA FirstLineType ==
    ASSUME buffer \in Texts, buffer.crlfs # {}
    PROVE  FirstLine \in Nat \ {0}
<1>1. buffer.crlfs \in SUBSET Nat
  BY TextType
<1>2. Min(buffer.crlfs) \in Nat
  BY <1>1, MinOfNats
<1> QED BY <1>2 DEF FirstLine

LEMMA ToSetAppend ==
    ASSUME NEW S, NEW s \in Seq(S), NEW e \in S, NEW h \in ToSet(Append(s, e))
    PROVE  h \in ToSet(s) \/ h = e
<1>1. PICK k \in DOMAIN Append(s, e) : h = Append(s, e)[k]
  BY Zenon DEF ToSet
<1>2. /\ DOMAIN Append(s, e) = 1 .. Len(s) + 1
      /\ DOMAIN s = 1 .. Len(s)
  OBVIOUS
<1>3. CASE k \in DOMAIN s
  BY <1>1, <1>2, <1>3 DEF ToSet
<1>4. CASE k \notin DOMAIN s
  BY <1>1, <1>2, <1>4
<1> QED BY <1>3, <1>4

-----------------------------------------------------------------------------
(* Type correctness *)

\* The parts of TypeOK about the parser and about the compression.  TypeOK is
\* not inductive: the length of the response is a number only because a path
\* has no negative length, and it has none because the parser reaches the path
\* at most one place behind the text.
ParserType ==
    /\ p \in Nat \ {0}
    /\ method \in Nat \X Nat /\ path \in Nat \X Nat
    /\ Length(method) < METHOD_SIZE /\ Length(path) < PATH_SIZE
    /\ headers \in Seq(Nat \X Nat)
    /\ Len(headers) <= MAX_HEADERS
    /\ \A h \in ToSet(headers) : Length(h) < HEADER_SIZE
    /\ Length(path) >= 0

CompressType ==
    /\ inlen \in Nat /\ i \in Nat
    /\ out \in Seq(Nat \X Nat)
    /\ Len(out) * Word <= COMP_SIZE

TypeInv ==
    /\ buffer \in Texts /\ ParserType /\ CompressType
    /\ status \in {0, 200, 401} /\ pc \in Labels
    /\ pc \in {"method", "path"} => p <= buffer.len + 1

LEMMA NoSlice == <<1, 0>> \in Nat \X Nat /\ Length(<<1, 0>>) = 0
BY DEF Length

LEMMA TypeInit == Init => TypeInv
<1> SUFFICES ASSUME Init PROVE TypeInv
  OBVIOUS
<1>1. ParserType
  BY NoSlice, ProcessingAssumption DEF Init, ParserType, ToSet
<1>2. CompressType
  BY ProcessingAssumption DEF Init, CompressType, Word
<1> QED BY <1>1, <1>2 DEF Init, TypeInv, Texts, Labels

LEMMA ParseMethodType ==
    ASSUME TypeInv, ParseMethod
    PROVE  ParserType' /\ p' <= buffer.len + 1
<1>1. /\ method' \in Nat \X Nat
      /\ Length(method') < METHOD_SIZE /\ method'[2] <= buffer.len
  <2>1. p \in Nat \ {0} /\ p <= buffer.len + 1 /\ method' = CopyWord(p, METHOD_SIZE)
    BY DEF ParseMethod, TypeInv, ParserType
  <2>2. buffer \in Texts /\ METHOD_SIZE \in Nat \ {0}
    BY ProcessingAssumption DEF TypeInv, ParserType
  <2> QED BY <2>1, <2>2, CopyWordFits
<1>2. p' \in Nat \ {0} /\ p' <= buffer.len + 1
  BY <1>1, BehindType DEF ParseMethod, TypeInv
<1> QED BY <1>1, <1>2 DEF ParseMethod, TypeInv, ParserType, CompressType

LEMMA ParsePathType == ASSUME TypeInv, ParsePath PROVE ParserType'
<1>0. path' = CopyWord(p, PATH_SIZE) /\ p <= buffer.len + 1
  BY DEF ParsePath, TypeInv
<1>1. /\ path' \in Nat \X Nat
      /\ Length(path') < PATH_SIZE /\ Length(path') >= 0
  <2>1. buffer \in Texts /\ p \in Nat \ {0} /\ PATH_SIZE \in Nat \ {0}
    BY ProcessingAssumption DEF TypeInv, ParserType
  <2>2. /\ CopyWord(p, PATH_SIZE) \in Nat \X Nat
        /\ Length(CopyWord(p, PATH_SIZE)) < PATH_SIZE
        /\ Length(CopyWord(p, PATH_SIZE)) >= 0
    BY <1>0, <2>1, CopyWordFits
  <2> QED BY <1>0, <2>2, Zenon
<1>2. p' \in Nat \ {0}
  BY FirstLineType DEF ParsePath, TypeInv, ParserType, CompressType
<1>3. /\ headers' \in Seq(Nat \X Nat) /\ Len(headers') <= MAX_HEADERS
      /\ ToSet(headers') = {}
  BY ProcessingAssumption DEF ParsePath, ToSet
<1> QED BY <1>1, <1>2, <1>3 DEF ParsePath, TypeInv, ParserType, CompressType

LEMMA ParseHeaderType == ASSUME TypeInv, ParseHeader PROVE ParserType'
<1> DEFINE l == <<p, Min(NextCrlf) - 1>>
<1>1. Min(NextCrlf) \in Nat \ {0}
  BY NextCrlfType DEF ParseHeader, MoreHeaders, TypeInv, ParserType, CompressType
<1>2. p' \in Nat \ {0}
  BY <1>1 DEF ParseHeader
<1>3. l \in Nat \X Nat
  BY <1>1 DEF TypeInv, ParserType, CompressType
<1>4. headers' = IF Length(l) < HEADER_SIZE THEN Append(headers, l) ELSE headers
  BY DEF ParseHeader
<1>5. headers \in Seq(Nat \X Nat) /\ Len(headers) < MAX_HEADERS
  BY DEF ParseHeader, MoreHeaders, TypeInv, ParserType, CompressType
<1>6. /\ headers' \in Seq(Nat \X Nat)
      /\ Len(headers') <= MAX_HEADERS
  BY <1>3, <1>4, <1>5, ProcessingAssumption
<1>7. \A h \in ToSet(headers') : Length(h) < HEADER_SIZE
  <2>1. CASE Length(l) < HEADER_SIZE
    <3>1. headers' = Append(headers, l)
      BY <1>4, <2>1
    <3>2. \A h \in ToSet(headers') : h \in ToSet(headers) \/ h = l
      BY <1>3, <1>5, <3>1, ToSetAppend
    <3> QED BY <2>1, <3>2 DEF TypeInv, ParserType, CompressType
  <2>2. CASE ~(Length(l) < HEADER_SIZE)
    BY <1>4, <2>2 DEF TypeInv, ParserType, CompressType
  <2> QED BY <2>1, <2>2
<1>8. UNCHANGED <<method, path>>
  BY DEF ParseHeader
<1> QED BY <1>2, <1>6, <1>7, <1>8 DEF TypeInv, ParserType, CompressType

LEMMA CompressWordType ==
    ASSUME TypeInv, CompressWord
    PROVE  /\ CompressType'
           /\ Min({i + Word, inlen}) \in {i + Word, inlen}
<1>1. {i + Word, inlen} \in SUBSET Nat
  BY DEF TypeInv, ParserType, CompressType, Word
<1>2. Min({i + Word, inlen}) \in {i + Word, inlen}
  BY <1>1, MinOfNats, Zenon
<1>3. <<i + 1, Min({i + Word, inlen})>> \in Nat \X Nat
  BY <1>1, <1>2 DEF TypeInv, ParserType, CompressType
<1>4. /\ out' \in Seq(Nat \X Nat)
      /\ Len(out') = Len(out) + 1
  BY <1>3 DEF CompressWord, TypeInv, ParserType, CompressType
<1>5. Len(out') * Word <= COMP_SIZE
  <2>1. Len(out) * Word + Word < COMP_SIZE
    BY DEF CompressWord, CompressMore
  <2>2. Len(out) \in Nat /\ COMP_SIZE \in Nat
    BY ProcessingAssumption DEF TypeInv, CompressType
  <2> QED BY <1>4, <2>1, <2>2 DEF Word
<1> QED BY <1>2, <1>4, <1>5 DEF CompressWord, TypeInv, ParserType, CompressType, Word

LEMMA TypeNext == TypeInv /\ [Next]_vars => TypeInv'
<1> SUFFICES ASSUME TypeInv, [Next]_vars PROVE TypeInv'
  OBVIOUS
<1>0. /\ buffer \in Texts /\ ParserType /\ CompressType
      /\ status \in {0, 200, 401} /\ pc \in Labels
      /\ pc \in {"method", "path"} => p <= buffer.len + 1
  BY DEF TypeInv
<1>p. ASSUME buffer' \in Texts, ParserType', CompressType', status' \in {0, 200, 401}, pc' \in Labels,
             pc' \in {"method", "path"} => p' <= buffer'.len + 1
      PROVE  TypeInv'
  BY <1>p DEF TypeInv
<1>s. /\ UNCHANGED <<p, parsed>> => ParserType'
      /\ UNCHANGED compress => CompressType'
  BY <1>0 DEF ParserType, CompressType, parsed, compress
<1> USE DEF Labels
<1>1. ASSUME NEW t \in Texts, MakeRequestText(t) PROVE TypeInv'
  <2>1. ParserType'
    BY <1>0, <1>1 DEF MakeRequestText, ParserType, parsed
  <2>2. p' <= buffer'.len + 1
    BY <1>1, TextType DEF MakeRequestText
  <2> QED BY <1>0, <1>1, <1>p, <1>s, <2>1, <2>2 DEF MakeRequestText
<1>2. CASE ParseMethod
  BY <1>0, <1>2, <1>p, <1>s, ParseMethodType DEF ParseMethod
<1>3. CASE ParsePath
  BY <1>0, <1>3, <1>p, <1>s, ParsePathType DEF ParsePath
<1>4. CASE ParseHeader
  BY <1>0, <1>4, <1>p, <1>s, ParseHeaderType DEF ParseHeader
<1>5. CASE ParseEnds
  BY <1>0, <1>5, <1>p, <1>s DEF ParseEnds
<1>6. CASE Unauthorized
  BY <1>0, <1>6, <1>p, <1>s DEF Unauthorized, ServerLog
<1>7. ASSUME NEW digits \in Digits, Respond(digits) PROVE TypeInv'
  <2>1. Length(path) \in Nat
    <3>1. path \in Nat \X Nat /\ Length(path) >= 0
      BY <1>0, Zenon DEF ParserType
    <3> QED BY <3>1 DEF Length
  <2>2. inlen' \in Nat
    <3>1. inlen' = 8 + Length(path) + 5 + digits + 4
      BY <1>7 DEF Respond
    <3>2. digits \in Nat
      BY ProcessingAssumption
    <3> QED BY <2>1, <3>1, <3>2
  <2>3. CompressType'
    BY <1>7, <2>2, ProcessingAssumption DEF Respond, CompressType, Word
  <2> QED BY <1>0, <1>7, <1>p, <1>s, <2>3 DEF Respond
<1>8. CASE CompressWord
  BY <1>0, <1>8, <1>p, <1>s, CompressWordType DEF CompressWord
<1>9. CASE CompressEnds
  BY <1>0, <1>9, <1>p, <1>s DEF CompressEnds, ServerLog
<1>10. CASE UNCHANGED vars
  BY <1>0, <1>10, <1>p, <1>s DEF vars, parsed, compress
<1> QED BY <1>1, <1>2, <1>3, <1>4, <1>5, <1>6, <1>7, <1>8, <1>9, <1>10, StepCases

\* Whatever the text, method, path and headers of request_t keep room for
\* their terminating 0, and fake_compress writes no word behind compbuf.
THEOREM TypeCorrect == Spec => []TypeOK
<1>1. TypeInv => TypeOK
  BY DEF TypeInv, TypeOK, ParserType, CompressType
<1> QED BY <1>1, TypeInit, TypeNext, PTL DEF Spec

-----------------------------------------------------------------------------
(* fake_compress *)

Piece(n) == <<Word * (n - 1) + 1, Min({Word * n, inlen})>>

LEMMA PieceIs ==
    ASSUME NEW n, NEW a, NEW e, Word * (n - 1) + 1 = a, Word * n = e
    PROVE  Piece(n) = <<a, Min({e, inlen})>>
BY Zenon DEF Piece

\* The place in the input is as many words on as there are words of output.
CompressInv ==
    /\ TypeInv
    /\ pc = "compress" => /\ i = Word * Len(out)
                          /\ \A n \in DOMAIN out : out[n] = Piece(n)

LEMMA CompressInit == Init => CompressInv
BY TypeInit DEF Init, CompressInv

LEMMA CompressNext == CompressInv /\ [Next]_vars => CompressInv'
<1> SUFFICES ASSUME CompressInv, [Next]_vars PROVE CompressInv'
  OBVIOUS
<1>0. TypeInv /\ TypeInv'
  BY TypeNext DEF CompressInv
<1>1. ASSUME pc' # "compress" PROVE CompressInv'
  BY <1>0, <1>1 DEF CompressInv
<1>2. ASSUME NEW t \in Texts, MakeRequestText(t) PROVE CompressInv'
  BY <1>1, <1>2 DEF MakeRequestText
<1>3. CASE ParseMethod \/ ParsePath \/ ParseHeader \/ ParseEnds
  BY <1>1, <1>3 DEF ParseMethod, ParsePath, ParseHeader, ParseEnds
<1>4. CASE Unauthorized \/ CompressEnds
  BY <1>1, <1>4 DEF Unauthorized, CompressEnds, ServerLog
<1>5. ASSUME NEW digits \in Digits, Respond(digits) PROVE CompressInv'
  BY <1>0, <1>5 DEF Respond, CompressInv, Word
<1>6. CASE CompressWord
  <2>1. /\ i = Word * Len(out)
        /\ \A n \in DOMAIN out : out[n] = Piece(n)
        /\ out \in Seq(Nat \X Nat)
    BY <1>0, <1>6 DEF CompressWord, CompressInv, TypeInv, CompressType
  <2>2. Piece(Len(out) + 1) = <<i + 1, Min({i + Word, inlen})>>
    <3> DEFINE n == Len(out) + 1
    <3>1. Word * (n - 1) + 1 = i + 1 /\ Word * n = i + Word
      BY <2>1 DEF Word
    <3> HIDE DEF n
    <3>2. Piece(n) = <<i + 1, Min({i + Word, inlen})>>
      BY <3>1, PieceIs
    <3> QED BY <3>2 DEF n
  <2>3. /\ out' = Append(out, Piece(Len(out) + 1))
        /\ i' = i + Word /\ inlen' = inlen
    BY <1>6, <2>2 DEF CompressWord
  <2>4. Piece(Len(out) + 1) \in Nat \X Nat
    <3>1. {i + Word, inlen} \in SUBSET Nat
      BY <1>0 DEF TypeInv, CompressType, Word
    <3>2. Min({i + Word, inlen}) \in Nat
      BY <1>0, <1>6, <3>1, CompressWordType
    <3> QED BY <1>0, <2>2, <3>2 DEF TypeInv, CompressType
  <2>5. \A n : Piece(n)' = Piece(n)
    BY <2>3 DEF Piece
  <2>6. ASSUME NEW n \in DOMAIN out' PROVE out'[n] = Piece(n)
    <3>1. DOMAIN out' = 1 .. Len(out) + 1 /\ DOMAIN out = 1 .. Len(out)
      BY <2>1, <2>3, <2>4
    <3>2. CASE n \in DOMAIN out
      BY <2>1, <2>3, <2>4, <3>1, <3>2
    <3>3. CASE n = Len(out) + 1
      BY <2>1, <2>3, <2>4, <3>3
    <3> QED BY <2>1, <3>1, <3>2, <3>3
  <2>7. i' = Word * Len(out')
    BY <2>1, <2>3, <2>4 DEF Word
  <2> QED BY <1>0, <2>5, <2>6, <2>7 DEF CompressInv
<1>7. CASE UNCHANGED vars
  BY <1>0, <1>7 DEF vars, compress, CompressInv, Piece
<1> QED BY <1>2, <1>3, <1>4, <1>5, <1>6, <1>7, StepCases

\* Every byte of the input is in the piece of its word.
LEMMA PieceOfByte ==
    ASSUME inlen \in Nat, NEW m \in Nat, inlen <= Word * m, NEW b \in 1 .. inlen
    PROVE  \E n \in 1 .. m : Piece(n)[1] <= b /\ b <= Piece(n)[2]
<1> DEFINE n == ((b - 1) \div Word) + 1
<1>1. n \in 1 .. m /\ Word * (n - 1) + 1 <= b /\ b <= Word * n
  BY DEF Word
<1> HIDE DEF n
<1>2. {Word * n, inlen} \in SUBSET Nat
  BY <1>1 DEF Word
<1>3. Min({Word * n, inlen}) \in {Word * n, inlen}
  BY <1>2, MinOfNats, Zenon
<1>4. b <= Min({Word * n, inlen})
  BY <1>1, <1>3
<1>5. Piece(n)[1] <= b /\ b <= Piece(n)[2]
  BY <1>1, <1>4 DEF Piece
<1> QED BY <1>1, <1>5

LEMMA CompressImplies == CompressInv => CompressesInput
<1> SUFFICES ASSUME CompressInv, pc = "compress" PROVE CompressesInput
  BY DEF CompressesInput
<1>1. /\ i = Word * Len(out)
      /\ \A n \in DOMAIN out : out[n] = Piece(n)
      /\ out \in Seq(Nat \X Nat) /\ inlen \in Nat
  BY DEF CompressInv, TypeInv, CompressType
<1>2. DOMAIN out = 1 .. Len(out) /\ Len(out) \in Nat
  BY <1>1
<1>3. CASE inlen <= i
  <2>1. ASSUME NEW b \in 1 .. inlen PROVE \E n \in DOMAIN out : out[n][1] <= b /\ b <= out[n][2]
    <3>1. inlen \in Nat /\ Len(out) \in Nat /\ inlen <= Word * Len(out)
      BY <1>1, <1>2, <1>3
    <3>2. \E n \in 1 .. Len(out) : Piece(n)[1] <= b /\ b <= Piece(n)[2]
      BY <3>1, PieceOfByte
    <3> QED BY <1>1, <1>2, <3>2, Zenon
  <2> QED BY <1>1, <2>1 DEF CompressesInput, Piece
<1>4. CASE ~(inlen <= i)
  <2>1. ~CompressMore => COMP_SIZE <= Len(out) * Word + Word
    BY <1>1, <1>2, <1>4, ProcessingAssumption DEF CompressMore, Word
  <2> QED BY <1>1, <2>1 DEF CompressesInput, Piece
<1> QED BY <1>3, <1>4

\* Whatever the length of the response, fake_compress cuts it into words
\* without a gap and ends with all of it unless compbuf is full.
THEOREM CompressesTheInput == Spec => []CompressesInput
BY CompressInit, CompressNext, CompressImplies, PTL DEF Spec
-----------------------------------------------------------------------------
(* The lines of a text *)

LEMMA CrlfFacts ==
    ASSUME buffer \in Texts
    PROVE  /\ buffer.len \in Nat
           /\ buffer.crlfs \in SUBSET (Nat \ {0})
           /\ buffer.crs \in SUBSET (Nat \ {0}) /\ buffer.crlfs \subseteq buffer.crs
           /\ \A c \in buffer.crlfs : /\ c < buffer.len
                                     /\ c + 1 \notin buffer.crs /\ c + 1 \notin buffer.crlfs
<1>1. /\ buffer.len \in Nat
      /\ buffer.crlfs \subseteq 1 .. buffer.len - 1
      /\ buffer.crs \subseteq 1 .. buffer.len /\ buffer.crlfs \subseteq buffer.crs
      /\ \A c \in buffer.crlfs : c + 1 \notin buffer.crs
  BY ProcessingAssumption, Zenon
<1> QED BY <1>1

\* A line begins behind the CRLF in front of it, the first one with the text.
LEMMA BeginsIs ==
    ASSUME buffer \in Texts, NEW c \in buffer.crlfs
    PROVE  /\ \A b \in buffer.crlfs : b < c => b + 2 <= Begins(c)
           /\ Begins(c) = 1 \/ \E b \in buffer.crlfs : b < c /\ Begins(c) = b + 2
<1> DEFINE S == {b + 2 : b \in {d \in buffer.crlfs : d < c}} \cup {1}
<1>1. S \in SUBSET Nat /\ c \in Nat /\ \A y \in S : y <= c + 2
  BY CrlfFacts
<1>2. Begins(c) = Max(S)
  BY DEF Begins
<1>3. \A b \in buffer.crlfs : b < c => b + 2 \in S
  OBVIOUS
<1>4. \A y \in S : y = 1 \/ \E b \in buffer.crlfs : b < c /\ y = b + 2
  OBVIOUS
<1>5. 1 \in S
  OBVIOUS
<1> HIDE DEF S
<1>6. c + 2 \in Nat
  BY <1>1
<1>7. Max(S) \in S /\ \A y \in S : y <= Max(S)
  BY <1>1, <1>5, <1>6, MaxOfNats
<1> QED BY <1>2, <1>3, <1>4, <1>7, Zenon

LEMMA HeadersEndIs ==
    ASSUME buffer \in Texts
    PROVE  /\ HeadersEnd \in Nat
           /\ \A c \in buffer.crs : c - 2 \in buffer.crlfs => HeadersEnd <= c
           /\ \/ HeadersEnd = buffer.len + 1
              \/ HeadersEnd \in buffer.crs /\ HeadersEnd - 2 \in buffer.crlfs
<1> DEFINE S == {c \in buffer.crs : c - 2 \in buffer.crlfs} \cup {buffer.len + 1}
<1>1. S \in SUBSET Nat
  BY CrlfFacts
<1>2. HeadersEnd = Min(S)
  BY DEF HeadersEnd
<1>3. \A c \in buffer.crs : c - 2 \in buffer.crlfs => c \in S
  OBVIOUS
<1>4. \A y \in S : y = buffer.len + 1 \/ (y \in buffer.crs /\ y - 2 \in buffer.crlfs)
  OBVIOUS
<1>5. S # {}
  OBVIOUS
<1> HIDE DEF S
<1>6. Min(S) \in S /\ \A y \in S : Min(S) <= y
  BY <1>1, <1>5, MinOfNats
<1>7. Min(S) \in Nat
  BY <1>1, <1>6
<1> QED BY <1>2, <1>3, <1>4, <1>6, <1>7, Zenon

\* Neighbouring CRLFs in front of the end of the headers have a line between them.
LEMMA LineBetween ==
    ASSUME buffer \in Texts, NEW b \in buffer.crlfs, NEW c \in buffer.crlfs,
           b < c, \A d \in buffer.crlfs : ~(b < d /\ d < c),
           c < HeadersEnd,
           Length(<<b + 2, c - 1>>) < HEADER_SIZE
    PROVE  <<b + 2, c - 1>> \in HeaderLines
<1>1. buffer.crlfs \in SUBSET Nat
  BY CrlfFacts
<1>2. Begins(c) = b + 2
  <2>1. b + 2 <= Begins(c)
    BY BeginsIs
  <2>2. Begins(c) = 1 \/ \E a \in buffer.crlfs : a < c /\ Begins(c) = a + 2
    BY BeginsIs, Zenon
  <2> QED BY <1>1, <2>1, <2>2
<1>3. <<Begins(c), c - 1>> \in Lines
  BY DEF Lines
<1>4. <<b + 2, c - 1>>[1] > 1
  BY <1>1
<1> QED BY <1>2, <1>3, <1>4 DEF HeaderLines

\* A header line has a character, and no CRLF in or right in front of it but the
\* one it begins behind.
LEMMA HeaderLineIs ==
    ASSUME buffer \in Texts, NEW l \in HeaderLines
    PROVE  \E b, c \in buffer.crlfs :
               /\ l = <<b + 2, c - 1>>
               /\ b + 2 < c /\ c < HeadersEnd
               /\ \A d \in buffer.crlfs : ~(b < d /\ d < c)
               /\ Length(l) < HEADER_SIZE
<1>1. l \in Lines /\ l[1] > 1 /\ Length(l) < HEADER_SIZE
  BY DEF HeaderLines
<1>2. PICK c \in buffer.crlfs : l = <<Begins(c), c - 1>> /\ c < HeadersEnd
  BY <1>1 DEF Lines
<1>3. l[1] = Begins(c)
  BY <1>2
<1>4. /\ \A b \in buffer.crlfs : b < c => b + 2 <= Begins(c)
      /\ Begins(c) = 1 \/ \E b \in buffer.crlfs : b < c /\ Begins(c) = b + 2
  BY BeginsIs
<1>5. PICK b \in buffer.crlfs : b < c /\ Begins(c) = b + 2
  BY <1>1, <1>3, <1>4
<1>6. /\ b \in Nat /\ c \in Nat /\ b + 1 \notin buffer.crlfs
      /\ \A d \in buffer.crlfs : d \in Nat
  BY CrlfFacts
<1>7. \A d \in buffer.crlfs : ~(b < d /\ d < c)
  BY <1>4, <1>5, <1>6
<1>8. b # c - 1 /\ b # c - 2
  <2>1. c \in buffer.crs /\ HeadersEnd \in Nat /\ (c - 2 \in buffer.crlfs => HeadersEnd <= c)
    BY CrlfFacts, HeadersEndIs
  <2> QED BY <1>2, <1>6, <2>1
<1>9. b + 2 < c
  BY <1>5, <1>6, <1>8
<1>10. l = <<b + 2, c - 1>>
  BY <1>2, <1>5
<1> QED BY <1>1, <1>2, <1>7, <1>9, <1>10

LEMMA HeaderLinesFinite ==
    ASSUME buffer \in Texts
    PROVE  IsFiniteSet(HeaderLines)
<1> DEFINE S == {d \in buffer.crlfs : d < HeadersEnd}
           f == [c \in S |-> <<Begins(c), c - 1>>]
<1>1. S \subseteq 1 .. buffer.len /\ buffer.len \in Nat
  BY CrlfFacts
<1>2. IsFiniteSet(S)
  <2>1. IsFiniteSet(1 .. buffer.len)
    BY <1>1, FS_Interval
  <2> HIDE DEF S
  <2> QED BY <1>1, <2>1, FS_Subset
<1>3. f \in Surjection(S, Lines)
  <2>1. f \in [S -> Lines]
    BY DEF Lines
  <2>2. \A l \in Lines : \E c \in S : f[c] = l
    BY DEF Lines
  <2> QED BY <2>1, <2>2, Zenon DEF Surjection
<1>4. IsFiniteSet(Lines)
  BY <1>2, <1>3, FS_Surjection
<1>5. HeaderLines \subseteq Lines
  BY DEF HeaderLines
<1> QED BY <1>4, <1>5, FS_Subset

-----------------------------------------------------------------------------
(* What the parser keeps *)

\* The words are copied from the places the copy loops reach.
WordsInv ==
    /\ pc = "method" => p = 1
    /\ pc \in {"path", "headers", "auth", "compress"} => method = CopyWord(1, METHOD_SIZE)
    /\ pc = "path" => p = Behind(method)
    /\ pc \in {"headers", "auth", "compress"} => path = CopyWord(Behind(method), PATH_SIZE)

\* The parser is behind a CRLF, has passed no line that is empty or begins with
\* a CR, and has all the header lines in front of it.
LinesInv ==
    pc \in {"headers", "auth", "compress"} =>
        IF buffer.crlfs = {} THEN headers = <<>> /\ pc # "headers"
        ELSE /\ \E b \in buffer.crlfs : p = b + 2
             /\ \A c \in buffer.crs : c < p => c - 2 \notin buffer.crlfs
             /\ ToSet(headers) = {l \in HeaderLines : l[2] < p}
             /\ \A m, n \in DOMAIN headers : m < n => headers[m][2] < headers[n][1]
             /\ pc # "headers" => ~MoreHeaders

ResponseInv ==
    pc = "compress" =>
        /\ Authorized
        /\ \E digits \in Digits : inlen = 8 + Length(path) + 5 + digits + 4

\* The next line: from p, where no CR is, to a CRLF in front of the end of the headers.
LEMMA NextLine ==
    ASSUME buffer \in Texts, p \in Nat, NEW b \in buffer.crlfs, p = b + 2,
           \A c \in buffer.crs : c < p => c - 2 \notin buffer.crlfs,
           MoreHeaders, NEW end, end = Min(NextCrlf)
    PROVE  /\ end \in buffer.crlfs /\ p < end
           /\ \A d \in buffer.crlfs : ~(b < d /\ d < end)
           /\ end < HeadersEnd
<1>1. /\ buffer.crlfs \in SUBSET Nat /\ buffer.len \in Nat
      /\ \A c \in buffer.crlfs : c < buffer.len /\ c + 1 \notin buffer.crlfs
  BY CrlfFacts
<1>2. NextCrlf \in SUBSET Nat /\ NextCrlf # {} /\ p \notin buffer.crs /\ p \notin buffer.crlfs
  BY <1>1, CrlfFacts DEF NextCrlf, MoreHeaders
<1>3. end \in NextCrlf /\ \A d \in NextCrlf : end <= d
  BY <1>2, MinOfNats
<1>4. end \in buffer.crlfs /\ end >= p /\ \A d \in buffer.crlfs : d >= p => end <= d
  BY <1>3 DEF NextCrlf
<1>5. end \in Nat /\ b \in Nat /\ p < end
  BY <1>1, <1>2, <1>4
<1>6. ASSUME NEW d \in buffer.crlfs PROVE ~(b < d /\ d < end)
  <2>1. d \in Nat /\ d # b + 1
    BY <1>1
  <2>2. d >= p => end <= d
    BY <1>4
  <2> QED BY <1>5, <2>1, <2>2
<1>7. end < HeadersEnd
  <2>1. /\ HeadersEnd \in Nat
        /\ HeadersEnd = buffer.len + 1 \/ (HeadersEnd \in buffer.crs /\ HeadersEnd - 2 \in buffer.crlfs)
    BY HeadersEndIs
  <2>2. CASE HeadersEnd = buffer.len + 1
    BY <1>1, <1>4, <1>5, <2>2
  <2>3. CASE HeadersEnd \in buffer.crs /\ HeadersEnd - 2 \in buffer.crlfs
    <3>1. ~(HeadersEnd < p) /\ HeadersEnd # p
      BY <1>2, <2>3
    <3>2. b < HeadersEnd - 2
      BY <1>5, <2>1, <3>1
    <3>3. ~(HeadersEnd - 2 < end)
      BY <1>6, <2>3, <3>2
    <3> QED BY <1>5, <2>1, <3>3
  <2> QED BY <2>1, <2>2, <2>3
<1> QED BY <1>4, <1>5, <1>6, <1>7

\* It is the only line that ends from p on and up to the place behind its CRLF.
LEMMA OnlyNextLine ==
    ASSUME buffer \in Texts, NEW b \in buffer.crlfs, NEW end \in buffer.crlfs, b + 2 < end,
           \A d \in buffer.crlfs : ~(b < d /\ d < end),
           NEW l \in HeaderLines, l[2] < end + 2, ~(l[2] < b + 2)
    PROVE  l = <<b + 2, end - 1>> /\ Length(l) < HEADER_SIZE
<1>1. /\ buffer.crlfs \in SUBSET Nat
      /\ \A c \in buffer.crlfs : c + 1 \notin buffer.crlfs
  BY CrlfFacts
<1>2. PICK a, c \in buffer.crlfs :
        /\ l = <<a + 2, c - 1>>
        /\ a + 2 < c
        /\ \A d \in buffer.crlfs : ~(a < d /\ d < c)
        /\ Length(l) < HEADER_SIZE
  BY HeaderLineIs, Zenon
<1>3. a \in Nat /\ b \in Nat /\ c \in Nat /\ end \in Nat
  BY <1>1
<1>4. l[2] = c - 1
  BY <1>2
<1>5. c < end + 3 /\ c > b + 2
  BY <1>3, <1>4
<1>6. c >= end
  <2>1. ~(b < c /\ c < end)
    OBVIOUS
  <2> QED BY <1>3, <1>5, <2>1
<1>7. c # end + 1
  BY <1>1
<1>8. c # end + 2
  <2>1. ~(a < end /\ end < c)
    BY <1>2
  <2> QED BY <1>2, <1>3, <2>1
<1>9. c = end
  BY <1>3, <1>5, <1>6, <1>7, <1>8
<1>10. a = b
  <2>1. ~(a < b /\ b < c) /\ ~(b < a /\ a < end)
    BY <1>2
  <2> QED BY <1>2, <1>3, <1>5, <1>9, <2>1
<1> QED BY <1>2, <1>9, <1>10

LEMMA ToSetOfAppend ==
    ASSUME NEW S, NEW s \in Seq(S), NEW e \in S
    PROVE  ToSet(Append(s, e)) = ToSet(s) \cup {e}
<1>1. /\ DOMAIN Append(s, e) = 1 .. Len(s) + 1 /\ DOMAIN s = 1 .. Len(s)
      /\ Append(s, e)[Len(s) + 1] = e /\ Len(s) + 1 \in 1 .. Len(s) + 1
      /\ \A k \in DOMAIN s : k \in DOMAIN Append(s, e) /\ Append(s, e)[k] = s[k]
  OBVIOUS
<1>2. \A h \in ToSet(Append(s, e)) : h \in ToSet(s) \/ h = e
  BY ToSetAppend
<1>3. \A h \in ToSet(s) : h \in ToSet(Append(s, e))
  BY <1>1, Zenon DEF ToSet
<1>4. e \in ToSet(Append(s, e))
  BY <1>1, Zenon DEF ToSet
<1> QED BY <1>2, <1>3, <1>4

\* One turn of the loop over the lines keeps the invariant.
LEMMA HeaderStep ==
    ASSUME TypeInv, LinesInv, ParseHeader
    PROVE  LinesInv'
<1> DEFINE end == Min(NextCrlf)
           line == <<p, end - 1>>
<1>1. /\ pc = "headers" /\ pc' = pc /\ buffer' = buffer /\ MoreHeaders
      /\ p' = end + 2
      /\ headers' = IF Length(line) < HEADER_SIZE THEN Append(headers, line) ELSE headers
  BY DEF ParseHeader
<1>2. /\ buffer \in Texts /\ p \in Nat \ {0} /\ headers \in Seq(Nat \X Nat)
  BY DEF TypeInv, ParserType
<1>3. /\ buffer.crlfs # {}
      /\ \A c \in buffer.crs : c < p => c - 2 \notin buffer.crlfs
      /\ ToSet(headers) = {l \in HeaderLines : l[2] < p}
      /\ \A m, n \in DOMAIN headers : m < n => headers[m][2] < headers[n][1]
  BY <1>1 DEF LinesInv
<1>4. PICK b \in buffer.crlfs : p = b + 2
  BY <1>1 DEF LinesInv
<1> HIDE DEF end
<1>5. /\ end \in buffer.crlfs /\ p < end
      /\ \A d \in buffer.crlfs : ~(b < d /\ d < end)
      /\ end < HeadersEnd
  BY <1>1, <1>2, <1>3, <1>4, NextLine DEF end
<1>6. /\ \A c \in buffer.crlfs : c \in Nat /\ c + 1 \notin buffer.crlfs
      /\ end \in Nat /\ b \in Nat
  BY <1>2, <1>5, CrlfFacts
<1>7. \A c \in buffer'.crs : c < p' => c - 2 \notin buffer'.crlfs
  <2> SUFFICES ASSUME NEW c \in buffer.crs, c < end + 2, c - 2 \in buffer.crlfs PROVE FALSE
    BY <1>1
  <2>1. /\ c \in Nat /\ HeadersEnd \in Nat /\ HeadersEnd <= c
        /\ end + 1 \notin buffer.crs
    BY <1>2, <1>5, CrlfFacts, HeadersEndIs
  <2>2. c # end + 1
    BY <2>1
  <2> QED BY <1>5, <1>6, <2>1, <2>2
<1>8. HeaderLines' = HeaderLines
  BY <1>1 DEF HeaderLines, Lines, Begins, HeadersEnd
<1>9. line \in Nat \X Nat
  BY <1>2, <1>5, <1>6
<1>10. line = <<b + 2, end - 1>> /\ line[1] = p /\ line[2] = end - 1
  BY <1>4
<1>11. Length(line) < HEADER_SIZE => line \in HeaderLines
  <2> SUFFICES ASSUME Length(<<b + 2, end - 1>>) < HEADER_SIZE
               PROVE  <<b + 2, end - 1>> \in HeaderLines
    BY <1>10
  <2>1. b < end
    BY <1>4, <1>5, <1>6
  <2> QED BY <1>2, <1>5, <2>1, LineBetween
<1>12. ASSUME NEW l \in HeaderLines, l[2] < end + 2, ~(l[2] < p)
       PROVE  l = line /\ Length(line) < HEADER_SIZE
  <2>1. b + 2 < end /\ ~(l[2] < b + 2)
    BY <1>4, <1>5, <1>12
  <2>2. l = <<b + 2, end - 1>> /\ Length(l) < HEADER_SIZE
    BY <1>2, <1>5, <1>12, <2>1, OnlyNextLine
  <2> QED BY <1>10, <2>2
<1>13. ASSUME NEW l \in HeaderLines, l[2] < p PROVE l[2] < end + 2
  <2>1. PICK c \in buffer.crlfs : l[2] = c - 1
    <3>1. \E a, c \in buffer.crlfs : l = <<a + 2, c - 1>>
      BY <1>2, HeaderLineIs, Zenon
    <3> QED BY <3>1
  <2> QED BY <1>2, <1>5, <1>6, <1>13, <2>1
<1> HIDE DEF line
<1>14. CASE Length(line) < HEADER_SIZE
  <2>1. headers' = Append(headers, line)
    BY <1>1, <1>14
  <2>2. ToSet(headers') = ToSet(headers) \cup {line}
    BY <1>2, <1>9, <2>1, ToSetOfAppend
  <2>3. line[2] < end + 2
    BY <1>6, <1>10
  <2>4. \A l : l \in ToSet(headers') <=> l \in HeaderLines /\ l[2] < end + 2
    <3>1. \A l : l \in ToSet(headers') <=> l \in ToSet(headers) \/ l = line
      BY <2>2, Zenon
    <3>2. \A l : l \in ToSet(headers) <=> l \in HeaderLines /\ l[2] < p
      BY <1>3, Zenon
    <3> QED BY <1>11, <1>12, <1>13, <1>14, <2>3, <3>1, <3>2, Zenon
  <2>5. ToSet(headers') = {l \in HeaderLines' : l[2] < p'}
    BY <1>1, <1>8, <2>4
  <2>6. ASSUME NEW m \in DOMAIN headers', NEW n \in DOMAIN headers', m < n
        PROVE  headers'[m][2] < headers'[n][1]
    <3>1. /\ DOMAIN headers' = 1 .. Len(headers) + 1 /\ DOMAIN headers = 1 .. Len(headers)
          /\ headers'[Len(headers) + 1] = line /\ Len(headers) \in Nat
          /\ \A k \in DOMAIN headers : headers'[k] = headers[k]
      BY <1>2, <1>9, <2>1
    <3>2. m \in DOMAIN headers
      BY <2>6, <3>1
    <3>3. CASE n \in DOMAIN headers
      BY <1>3, <2>6, <3>1, <3>2, <3>3
    <3>4. CASE n = Len(headers) + 1
      <4>1. headers[m] \in ToSet(headers)
        BY <3>2 DEF ToSet
      <4>2. headers[m][2] < p
        BY <1>3, <4>1
      <4> QED BY <1>10, <3>1, <3>2, <3>4, <4>2
    <3> QED BY <3>1, <3>3, <3>4
  <2> QED BY <1>1, <1>3, <1>5, <1>7, <2>5, <2>6 DEF LinesInv
<1>15. CASE ~(Length(line) < HEADER_SIZE)
  <2>1. headers' = headers
    BY <1>1, <1>15
  <2>2. \A l : l \in ToSet(headers') <=> l \in HeaderLines /\ l[2] < end + 2
    BY <1>3, <1>12, <1>13, <1>15, <2>1
  <2>3. ToSet(headers') = {l \in HeaderLines' : l[2] < p'}
    BY <1>1, <1>8, <2>2
  <2> QED BY <1>1, <1>3, <1>5, <1>7, <2>1, <2>3 DEF LinesInv
<1> QED BY <1>14, <1>15

\* The first line behind the request line: no header line ends in front of it.
LEMMA FirstHeader ==
    ASSUME TypeInv, ParsePath
    PROVE  LinesInv'
<1>1. /\ buffer' = buffer /\ headers' = <<>>
      /\ buffer.crlfs = {} => pc' = "auth"
      /\ buffer.crlfs # {} => pc' = "headers" /\ p' = Min(buffer.crlfs) + 2
  BY DEF ParsePath, FirstLine
<1>2. buffer \in Texts
  BY DEF TypeInv
<1>3. CASE buffer.crlfs = {}
  BY <1>1, <1>3 DEF LinesInv
<1>4. CASE buffer.crlfs # {}
  <2> DEFINE b == Min(buffer.crlfs)
  <2>1. /\ buffer.crlfs \in SUBSET Nat
        /\ \A c \in buffer.crlfs : c + 1 \notin buffer.crlfs
    BY <1>2, CrlfFacts
  <2>2. b \in buffer.crlfs /\ b \in Nat /\ \A c \in buffer.crlfs : b <= c /\ c \in Nat
    BY <1>4, <2>1, MinOfNats
  <2>3. p' = b + 2
    BY <1>1, <1>4
  <2> HIDE DEF b
  <2>4. ASSUME NEW c \in buffer.crs, c < p' PROVE c - 2 \notin buffer.crlfs
    <3>1. c \in Nat
      BY <1>2, CrlfFacts
    <3>2. ~(b <= c - 2)
      BY <2>2, <2>3, <2>4, <3>1
    <3> QED BY <2>2, <3>2
  <2>5. ASSUME NEW l \in HeaderLines PROVE ~(l[2] < p')
    <3>1. PICK a, c \in buffer.crlfs : l = <<a + 2, c - 1>> /\ a + 2 < c
      BY <1>2, HeaderLineIs, Zenon
    <3>2. l[2] = c - 1 /\ a \in Nat /\ c \in Nat /\ b <= a
      BY <2>2, <3>1
    <3> QED BY <2>2, <2>3, <3>1, <3>2
  <2>6. HeaderLines' = HeaderLines
    BY <1>1 DEF HeaderLines, Lines, Begins, HeadersEnd
  <2>7. ToSet(headers') = {} /\ DOMAIN headers' = {}
    BY <1>1 DEF ToSet
  <2>8. ToSet(headers') = {l \in HeaderLines' : l[2] < p'}
    BY <2>5, <2>6, <2>7
  <2>9. \A m, n \in DOMAIN headers' : m < n => headers'[m][2] < headers'[n][1]
    BY <2>7
  <2> QED BY <1>1, <1>4, <2>2, <2>3, <2>4, <2>8, <2>9 DEF LinesInv
<1> QED BY <1>3, <1>4

ParsedInv == TypeInv /\ WordsInv /\ LinesInv /\ ResponseInv

LEMMA ParsedInit == Init => ParsedInv
BY TypeInit DEF Init, ParsedInv, WordsInv, LinesInv, ResponseInv

\* Nothing a worker has parsed changes until it makes its next request.
LEMMA LinesKept ==
    ASSUME LinesInv, UNCHANGED <<buffer, p, headers>>,
           pc' \in {"headers", "auth", "compress"} =>
               /\ pc \in {"headers", "auth", "compress"}
               /\ pc' = "headers" <=> pc = "headers"
    PROVE  LinesInv'
<1>1. HeaderLines' = HeaderLines
  BY DEF HeaderLines, Lines, Begins, HeadersEnd
<1>2. MoreHeaders' = MoreHeaders
  BY DEF MoreHeaders, NextCrlf
<1> QED BY <1>1, <1>2 DEF LinesInv

LEMMA WordsKept ==
    ASSUME WordsInv, UNCHANGED <<buffer, method, path>>,
           pc \in {"headers", "auth", "compress"}, pc' \in {"make", "headers", "auth", "compress"}
    PROVE  WordsInv'
BY DEF WordsInv, CopyWord, Behind

LEMMA ParsedNext == ParsedInv /\ [Next]_vars => ParsedInv'
<1> SUFFICES ASSUME ParsedInv, [Next]_vars PROVE ParsedInv'
  OBVIOUS
<1>0. TypeInv /\ TypeInv' /\ WordsInv /\ LinesInv /\ ResponseInv
  BY TypeNext DEF ParsedInv
<1>p. ASSUME WordsInv', LinesInv', ResponseInv' PROVE ParsedInv'
  BY <1>0, <1>p DEF ParsedInv
<1>1. ASSUME NEW t \in Texts, MakeRequestText(t) PROVE ParsedInv'
  <2>1. pc' = "method" /\ p' = 1
    BY <1>1 DEF MakeRequestText
  <2> QED BY <1>p, <2>1 DEF WordsInv, LinesInv, ResponseInv
<1>2. CASE ParseMethod
  <2>1. pc = "method" /\ pc' = "path" /\ buffer' = buffer /\ p = 1
    BY <1>0, <1>2 DEF ParseMethod, WordsInv
  <2>2. method' = CopyWord(1, METHOD_SIZE) /\ p' = Behind(method')
    BY <1>2, <2>1 DEF ParseMethod
  <2>3. WordsInv'
    BY <2>1, <2>2 DEF WordsInv, CopyWord, Behind
  <2> QED BY <1>p, <2>1, <2>3 DEF LinesInv, ResponseInv
<1>3. CASE ParsePath
  <2>1. /\ pc = "path" /\ pc' \in {"headers", "auth"} /\ buffer' = buffer
        /\ method' = method /\ path' = CopyWord(p, PATH_SIZE)
    BY <1>3 DEF ParsePath
  <2>2. method = CopyWord(1, METHOD_SIZE) /\ p = Behind(method)
    BY <1>0, <2>1 DEF WordsInv
  <2>3. WordsInv'
    BY <2>1, <2>2 DEF WordsInv, CopyWord, Behind
  <2> QED BY <1>0, <1>3, <1>p, <2>1, <2>3, FirstHeader DEF ResponseInv
<1>4. CASE ParseHeader
  <2>1. pc = "headers" /\ pc' = "headers" /\ UNCHANGED <<buffer, method, path>>
    BY <1>4 DEF ParseHeader
  <2> QED BY <1>0, <1>4, <1>p, <2>1, HeaderStep, WordsKept DEF ResponseInv
<1>5. CASE ParseEnds
  <2>1. /\ pc = "headers" /\ pc' = "auth" /\ ~MoreHeaders
        /\ UNCHANGED <<buffer, p, method, path, headers>>
    BY <1>5 DEF ParseEnds, parsed
  <2>2. LinesInv'
    <3>1. HeaderLines' = HeaderLines
      BY <2>1 DEF HeaderLines, Lines, Begins, HeadersEnd
    <3>2. MoreHeaders' = MoreHeaders
      BY <2>1 DEF MoreHeaders, NextCrlf
    <3> QED BY <1>0, <2>1, <3>1, <3>2 DEF LinesInv
  <2> QED BY <1>0, <1>p, <2>1, <2>2, WordsKept DEF ResponseInv
<1>6. CASE Unauthorized
  <2>1. pc = "auth" /\ pc' = "make" /\ UNCHANGED <<buffer, p, method, path, headers>>
    BY <1>6 DEF Unauthorized, ServerLog, parsed
  <2> QED BY <1>0, <1>p, <2>1, WordsKept, LinesKept DEF ResponseInv
<1>7. ASSUME NEW digits \in Digits, Respond(digits) PROVE ParsedInv'
  <2>1. /\ pc = "auth" /\ pc' = "compress" /\ Authorized
        /\ UNCHANGED <<buffer, p, method, path, headers>>
        /\ inlen' = 8 + Length(path) + 5 + digits + 4
    BY <1>7 DEF Respond, parsed
  <2>2. Authorized' /\ Length(path)' = Length(path)
    BY <2>1 DEF Authorized, Length
  <2>3. ResponseInv'
    BY <2>1, <2>2 DEF ResponseInv
  <2> QED BY <1>0, <1>p, <2>1, <2>3, WordsKept, LinesKept
<1>8. CASE CompressWord
  <2>1. pc = "compress" /\ UNCHANGED <<buffer, p, method, path, headers, inlen, pc>>
    BY <1>8 DEF CompressWord, parsed
  <2>2. ResponseInv'
    BY <1>0, <2>1 DEF ResponseInv, Authorized, Length
  <2> QED BY <1>0, <1>p, <2>1, <2>2, WordsKept, LinesKept
<1>9. CASE CompressEnds
  <2>1. pc = "compress" /\ pc' = "make" /\ UNCHANGED <<buffer, p, method, path, headers>>
    BY <1>9 DEF CompressEnds, ServerLog, parsed
  <2> QED BY <1>0, <1>p, <2>1, WordsKept, LinesKept DEF ResponseInv
<1>10. CASE UNCHANGED vars
  <2>1. UNCHANGED <<buffer, p, method, path, headers, inlen, pc>>
    BY <1>10 DEF vars, parsed, compress
  <2>2. WordsInv'
    BY <1>0, <2>1 DEF WordsInv, CopyWord, Behind
  <2>3. ResponseInv'
    BY <1>0, <2>1 DEF ResponseInv, Authorized, Length
  <2> QED BY <1>0, <1>p, <2>1, <2>2, <2>3, LinesKept
<1> QED BY <1>1, <1>2, <1>3, <1>4, <1>5, <1>6, <1>7, <1>8, <1>9, <1>10, StepCases

LEMMA ParsedAlways == Spec => []ParsedInv
BY ParsedInit, ParsedNext, PTL DEF Spec

-----------------------------------------------------------------------------
(* What a parsed request is *)

\* The first word ends in front of the first space, the second in front of the next.
LEMMA WordIs ==
    ASSUME buffer \in Texts, NEW from \in Nat \ {0}, NEW size \in Nat \ {0},
           NEW space \in buffer.spaces, from <= space, space - from < size,
           \A s \in buffer.spaces : s >= from => space <= s
    PROVE  CopyWord(from, size) = <<from, space - 1>>
<1> DEFINE S == {from + size - 2, buffer.len}
                \cup {s - 1 : s \in {r \in buffer.spaces : r >= from}}
<1>1. /\ buffer.len \in Nat /\ space <= buffer.len
      /\ buffer.spaces \subseteq Nat \ {0}
  <2>1. buffer.len \in Nat /\ buffer.spaces \subseteq 1 .. buffer.len
    BY ProcessingAssumption, Zenon
  <2> QED BY <2>1
<1>2. S \in SUBSET Nat
  BY <1>1
<1>3. space - 1 \in S
  BY <1>1
<1>4. \A y \in S : space - 1 <= y
  BY <1>1
<1>5. CopyWord(from, size) = <<from, Min(S)>>
  BY DEF CopyWord
<1> HIDE DEF S
<1>6. Min(S) = space - 1
  BY <1>2, <1>3, <1>4, MinIs
<1> QED BY <1>5, <1>6

LEMMA WordsImply ==
    ASSUME TypeInv, WordsInv, pc \in {"auth", "compress"},
           NEW space, space = Min(buffer.spaces),
           NEW next, next = Min(buffer.spaces \ {space}),
           Cardinality(buffer.spaces) > 1, space <= METHOD_SIZE, next - space <= PATH_SIZE
    PROVE  /\ method = <<1, space - 1>> /\ path = <<space + 1, next - 1>>
           /\ space \in Nat /\ next \in Nat
<1>1. buffer \in Texts
  BY DEF TypeInv
<1>2. buffer.spaces \in SUBSET Nat /\ 0 \notin buffer.spaces
  BY <1>1, TextType
<1>3. buffer.spaces # {} /\ buffer.spaces # {space}
  <2>1. Cardinality({}) = 0
    BY FS_EmptySet
  <2>2. Cardinality({space}) = 1
    BY FS_Singleton, Zenon
  <2> QED BY <2>1, <2>2
<1>4. space \in buffer.spaces /\ \A s \in buffer.spaces : space <= s
  BY <1>2, <1>3, MinOfNats
<1>5. next \in buffer.spaces \ {space} /\ \A s \in buffer.spaces \ {space} : next <= s
  <2>1. buffer.spaces \ {space} \in SUBSET Nat /\ buffer.spaces \ {space} # {}
    BY <1>2, <1>3, <1>4
  <2> QED BY <2>1, MinOfNats
<1>6. /\ space \in Nat \ {0} /\ next \in Nat /\ space < next
      /\ \A s \in buffer.spaces : s \in Nat /\ s >= 1
  BY <1>2, <1>4, <1>5
<1>7. METHOD_SIZE \in Nat \ {0} /\ PATH_SIZE \in Nat \ {0}
  BY ProcessingAssumption
<1>8. method = <<1, space - 1>>
  <2>1. CopyWord(1, METHOD_SIZE) = <<1, space - 1>>
    <3>1. space - 1 < METHOD_SIZE
      BY <1>6, <1>7
    <3> QED BY <1>1, <1>4, <1>6, <1>7, <3>1, WordIs
  <2> QED BY <2>1 DEF WordsInv
<1>9. Behind(method) = space + 1
  BY <1>4, <1>6, <1>8 DEF Behind
<1>10. path = <<space + 1, next - 1>>
  <2>1. /\ space + 1 \in Nat \ {0} /\ space + 1 <= next
        /\ next - (space + 1) < PATH_SIZE
    BY <1>6, <1>7
  <2>2. ASSUME NEW s \in buffer.spaces, s >= space + 1 PROVE next <= s
    <3>1. s # space
      BY <1>6, <2>2
    <3> QED BY <1>5, <3>1
  <2>3. CopyWord(space + 1, PATH_SIZE) = <<space + 1, next - 1>>
    BY <1>1, <1>5, <1>7, <2>1, <2>2, WordIs
  <2> QED BY <1>9, <2>3 DEF WordsInv
<1> QED BY <1>6, <1>8, <1>10

\* The elements of a sequence without repetition.
LEMMA ToSetCount ==
    ASSUME NEW S, NEW s \in Seq(S), \A m, n \in DOMAIN s : m < n => s[m] # s[n]
    PROVE  IsFiniteSet(ToSet(s)) /\ Cardinality(ToSet(s)) = Len(s)
<1>1. Len(s) \in Nat /\ DOMAIN s = 1 .. Len(s)
  OBVIOUS
<1>2. IsFiniteSet(DOMAIN s) /\ Cardinality(DOMAIN s) = Len(s)
  BY <1>1, FS_Interval
<1>3. s \in [DOMAIN s -> ToSet(s)]
  BY DEF ToSet
<1>4. \A m, n \in DOMAIN s : s[m] = s[n] => m = n
  BY <1>1
<1>5. \A e \in ToSet(s) : \E n \in DOMAIN s : s[n] = e
  BY DEF ToSet
<1>6. s \in Bijection(DOMAIN s, ToSet(s))
  BY <1>3, <1>4, <1>5, Zenon DEF Bijection, Injection, Surjection, IsInjective
<1> QED BY <1>2, <1>6, FS_Bijection DEF ExistsBijection

\* The parser's end: all header lines are in front of it, or no room is left;
\* those behind it begin there or later.
LEMMA LinesAtEnd ==
    ASSUME TypeInv, LinesInv, pc \in {"auth", "compress"}, buffer.crlfs # {}
    PROVE  /\ ToSet(headers) = {l \in HeaderLines : l[2] < p}
           /\ \A m, n \in DOMAIN headers : m < n => headers[m][2] < headers[n][1]
           /\ (\A l \in HeaderLines : l[2] < p) \/ Len(headers) = MAX_HEADERS
           /\ \A l \in HeaderLines : ~(l[2] < p) => p <= l[1]
<1>1. /\ buffer \in Texts /\ p \in Nat /\ headers \in Seq(Nat \X Nat) /\ Len(headers) <= MAX_HEADERS
  BY DEF TypeInv, ParserType
<1>2. /\ ToSet(headers) = {l \in HeaderLines : l[2] < p}
      /\ \A m, n \in DOMAIN headers : m < n => headers[m][2] < headers[n][1]
      /\ ~MoreHeaders
  BY DEF LinesInv
<1>3. PICK b \in buffer.crlfs : p = b + 2
  BY DEF LinesInv
<1>4. \A c \in buffer.crlfs : c \in Nat
  BY <1>1, CrlfFacts
<1>5. ASSUME NEW l \in HeaderLines
      PROVE  /\ l[2] < p \/ Len(headers) = MAX_HEADERS
             /\ ~(l[2] < p) => p <= l[1]
  <2>1. PICK a, c \in buffer.crlfs :
          /\ l = <<a + 2, c - 1>>
          /\ a + 2 < c /\ c < HeadersEnd
          /\ \A d \in buffer.crlfs : ~(a < d /\ d < c)
    BY <1>1, HeaderLineIs, Zenon
  <2>2. l[1] = a + 2 /\ l[2] = c - 1 /\ a \in Nat /\ c \in Nat /\ b \in Nat
    BY <1>4, <2>1
  <2>3. ~(l[2] < p) => p <= l[1]
    <3>1. ~(a < b /\ b < c)
      BY <2>1
    <3> QED BY <1>3, <2>2, <3>1
  <2>4. ASSUME ~(Len(headers) = MAX_HEADERS) PROVE l[2] < p
    <3>1. Len(headers) < MAX_HEADERS
      BY <1>1, <2>4, ProcessingAssumption
    <3>2. NextCrlf = {} \/ p \in buffer.crs
      BY <1>2, <3>1 DEF MoreHeaders
    <3>3. CASE NextCrlf = {}
      <4>1. ~(c >= p)
        BY <3>3 DEF NextCrlf
      <4> QED BY <1>1, <2>2, <4>1
    <3>4. CASE p \in buffer.crs
      <4>1. p - 2 \in buffer.crlfs
        BY <1>3, <2>2
      <4>2. HeadersEnd <= p /\ HeadersEnd \in Nat
        BY <1>1, <3>4, <4>1, HeadersEndIs
      <4> QED BY <1>1, <2>1, <2>2, <4>2
    <3> QED BY <3>2, <3>3, <3>4
  <2> QED BY <2>3, <2>4
<1> QED BY <1>2, <1>5

LEMMA LinesImply ==
    ASSUME TypeInv, LinesInv, pc \in {"auth", "compress"}
    PROVE  /\ ToSet(headers) \subseteq HeaderLines
           /\ Len(headers) = Min({MAX_HEADERS, Cardinality(HeaderLines)})
           /\ \A m, n \in DOMAIN headers : m < n => headers[m][2] < headers[n][1]
           /\ \A l \in HeaderLines \ ToSet(headers), h \in ToSet(headers) : h[2] < l[1]
<1>1. /\ buffer \in Texts /\ p \in Nat /\ headers \in Seq(Nat \X Nat)
      /\ Len(headers) <= MAX_HEADERS /\ MAX_HEADERS \in Nat
  BY ProcessingAssumption DEF TypeInv, ParserType
<1>2. IsFiniteSet(HeaderLines) /\ Cardinality(HeaderLines) \in Nat
  BY <1>1, HeaderLinesFinite, FS_CardinalityType
<1>3. {MAX_HEADERS, Cardinality(HeaderLines)} \in SUBSET Nat
  BY <1>1, <1>2
<1>4. CASE buffer.crlfs = {}
  <2>1. headers = <<>> /\ ToSet(headers) = {} /\ DOMAIN headers = {} /\ Len(headers) = 0
    BY <1>4 DEF LinesInv, ToSet
  <2>2. HeaderLines = {}
    BY <1>4 DEF HeaderLines, Lines
  <2>3. Cardinality(HeaderLines) = 0
    BY <2>2, FS_EmptySet
  <2>4. /\ Cardinality(HeaderLines) \in {MAX_HEADERS, Cardinality(HeaderLines)}
        /\ \A y \in {MAX_HEADERS, Cardinality(HeaderLines)} : Cardinality(HeaderLines) <= y
    BY <1>1, <2>3
  <2>5. Min({MAX_HEADERS, Cardinality(HeaderLines)}) = Cardinality(HeaderLines)
    BY <1>3, <2>4, MinIs
  <2> QED BY <2>1, <2>2, <2>3, <2>5
<1>5. CASE buffer.crlfs # {}
  <2>1. /\ ToSet(headers) = {l \in HeaderLines : l[2] < p}
        /\ \A m, n \in DOMAIN headers : m < n => headers[m][2] < headers[n][1]
        /\ (\A l \in HeaderLines : l[2] < p) \/ Len(headers) = MAX_HEADERS
        /\ \A l \in HeaderLines : ~(l[2] < p) => p <= l[1]
    BY <1>5, LinesAtEnd
  <2>2. \A l \in HeaderLines : l \in Nat \X Nat /\ l[1] <= l[2]
    <3> SUFFICES ASSUME NEW l \in HeaderLines PROVE l \in Nat \X Nat /\ l[1] <= l[2]
      OBVIOUS
    <3>1. PICK a, c \in buffer.crlfs : l = <<a + 2, c - 1>> /\ a + 2 < c
      BY <1>1, HeaderLineIs, Zenon
    <3>2. a \in Nat /\ c \in Nat
      BY <1>1, CrlfFacts
    <3> QED BY <3>1, <3>2
  <2>3. \A n \in DOMAIN headers : headers[n] \in HeaderLines
    BY <2>1 DEF ToSet
  <2>4. ASSUME NEW m \in DOMAIN headers, NEW n \in DOMAIN headers, m < n
        PROVE  headers[m] # headers[n]
    <3>1. headers[m] \in Nat \X Nat /\ headers[m][1] <= headers[m][2]
      BY <2>2, <2>3
    <3>2. headers[m][2] < headers[n][1]
      BY <2>1, <2>4
    <3> QED BY <3>1, <3>2
  <2>5. IsFiniteSet(ToSet(headers)) /\ Cardinality(ToSet(headers)) = Len(headers)
    BY <1>1, <2>4, ToSetCount
  <2>6. ToSet(headers) \subseteq HeaderLines
    BY <2>1
  <2>7. Len(headers) <= Cardinality(HeaderLines)
    BY <1>2, <2>5, <2>6, FS_Subset
  <2>8. Len(headers) \in {MAX_HEADERS, Cardinality(HeaderLines)}
    <3>1. CASE \A l \in HeaderLines : l[2] < p
      <4>1. ToSet(headers) = HeaderLines
        BY <2>1, <3>1
      <4> QED BY <2>5, <4>1
    <3>2. CASE Len(headers) = MAX_HEADERS
      BY <3>2
    <3> QED BY <2>1, <3>1, <3>2
  <2>9. \A y \in {MAX_HEADERS, Cardinality(HeaderLines)} : Len(headers) <= y
    BY <1>1, <2>7
  <2>10. Len(headers) = Min({MAX_HEADERS, Cardinality(HeaderLines)})
    BY <1>3, <2>8, <2>9, MinIs
  <2>11. ASSUME NEW l \in HeaderLines \ ToSet(headers), NEW h \in ToSet(headers)
         PROVE  h[2] < l[1]
    <3>1. h[2] < p /\ p <= l[1]
      BY <2>1
    <3>2. h[2] \in Nat /\ l[1] \in Nat
      BY <2>2, <2>6
    <3> QED BY <1>1, <3>1, <3>2
  <2> QED BY <2>1, <2>6, <2>10, <2>11
<1> QED BY <1>4, <1>5

\* For every text, with CRs wherever they may be: method and path that fit are
\* kept whole, and the headers are the first MAX_HEADERS lines that may be headers.
THEOREM KeepsWhatIsWritten == Spec => []ParsedAsWritten
<1>1. ParsedInv => ParsedAsWritten
  <2> SUFFICES ASSUME ParsedInv, Parsed PROVE ParsedAsWritten
    BY DEF ParsedAsWritten
  <2>1. TypeInv /\ WordsInv /\ LinesInv /\ pc \in {"auth", "compress"}
    BY DEF ParsedInv, Parsed
  <2> DEFINE space == Min(buffer.spaces)
             next == Min(buffer.spaces \ {space})
  <2>2. /\ Cardinality(buffer.spaces) > 1
        /\ space <= METHOD_SIZE
        /\ next - space <= PATH_SIZE
        => method = <<1, space - 1>> /\ path = <<space + 1, next - 1>>
    BY <2>1, WordsImply
  <2> HIDE DEF space, next
  <2>3. /\ ToSet(headers) \subseteq HeaderLines
        /\ Len(headers) = Min({MAX_HEADERS, Cardinality(HeaderLines)})
        /\ \A m, n \in DOMAIN headers : m < n => headers[m][2] < headers[n][1]
        /\ \A l \in HeaderLines \ ToSet(headers), h \in ToSet(headers) : h[2] < l[1]
    BY <2>1, LinesImply
  <2> QED BY <2>2, <2>3, Zenon DEF ParsedAsWritten, space, next
<1> QED BY <1>1, ParsedAlways, PTL

-----------------------------------------------------------------------------
(* The texts the server makes for itself *)

\* The client's line is the second at most that may be a header: it is kept.
LEMMA MadeIsAuthorized ==
    ASSUME TypeInv, LinesInv, pc = "auth", buffer \in MadeTexts
    PROVE  Authorized
<1>1. IsMade(buffer) /\ MAX_HEADERS > 1 /\ MAX_HEADERS \in Nat
  BY MadeAssumption, ProcessingAssumption
<1>2. PICK line, client, end \in buffer.crlfs :
        /\ \A c \in buffer.crlfs : c \in {line, client} \/ c >= end
        /\ line + 2 < client /\ client + 2 \in buffer.xclients
        /\ client + 9 < end /\ end - client - 2 < HEADER_SIZE
  BY <1>1 DEF IsMade
<1>3. /\ buffer \in Texts /\ headers \in Seq(Nat \X Nat) /\ p \in Nat
  BY DEF TypeInv, ParserType
<1>4. /\ \A c \in buffer.crlfs : c \in Nat /\ c < buffer.len
      /\ line \in Nat /\ client \in Nat /\ end \in Nat /\ buffer.len \in Nat
  BY <1>2, <1>3, CrlfFacts
<1>5. /\ ToSet(headers) = {l \in HeaderLines : l[2] < p}
      /\ \A m, n \in DOMAIN headers : m < n => headers[m][2] < headers[n][1]
      /\ (\A l \in HeaderLines : l[2] < p) \/ Len(headers) = MAX_HEADERS
      /\ \A l \in HeaderLines : ~(l[2] < p) => p <= l[1]
  BY <1>2, LinesAtEnd
<1> DEFINE x == <<client + 2, end - 1>>
<1>6. x \in HeaderLines
  <2>1. \A d \in buffer.crlfs : ~(client < d /\ d < end)
    BY <1>2, <1>4
  <2>3. end < HeadersEnd
    <3>1. \A c \in buffer.crs : c - 2 \in buffer.crlfs => end < c
      <4>1. buffer.crs = buffer.crlfs
        BY <1>1 DEF IsMade
      <4> QED BY <1>2, <1>4, <4>1
    <3> QED BY <1>2, <1>3, <1>4, <3>1, HeadersEndIs
  <2>4. Length(<<client + 2, end - 1>>) < HEADER_SIZE
    BY <1>2, <1>4, ProcessingAssumption DEF Length
  <2>5. client < end
    BY <1>2, <1>4
  <2> QED BY <1>2, <1>3, <2>1, <2>3, <2>4, <2>5, LineBetween
\* A header line in front of it is the one behind the request line.
<1>7. ASSUME NEW l \in HeaderLines, l[2] < client + 2
      PROVE  l = <<line + 2, client - 1>>
  <2>1. PICK a, c \in buffer.crlfs : l = <<a + 2, c - 1>> /\ a + 2 < c
    BY <1>3, HeaderLineIs, Zenon
  <2>2. l[2] = c - 1
    BY <2>1
  <2>3. c < client + 3 /\ a \in Nat /\ c \in Nat /\ a < c
    BY <1>4, <1>7, <2>1, <2>2
  <2>4. c < end /\ a < end
    BY <1>2, <1>4, <2>3
  <2>5. c \in {line, client} /\ a \in {line, client}
    BY <1>2, <1>4, <2>3, <2>4
  <2>6. a = line /\ c = client
    BY <1>2, <1>4, <2>3, <2>5
  <2> QED BY <2>1, <2>6
<1>8. x \in ToSet(headers)
  <2> SUFFICES ASSUME x \notin ToSet(headers) PROVE FALSE
    OBVIOUS
  <2>1. ~(x[2] < p)
    BY <1>5, <1>6
  <2>2. Len(headers) > 1 /\ p <= client + 2
    BY <1>1, <1>5, <1>6, <2>1
  <2>3. 1 \in DOMAIN headers /\ 2 \in DOMAIN headers
    BY <1>3, <2>2
  <2>4. /\ headers[1] \in ToSet(headers) /\ headers[2] \in ToSet(headers)
        /\ headers[1][2] < headers[2][1]
    BY <1>5, <2>3 DEF ToSet
  <2>5. /\ headers[1] \in HeaderLines /\ headers[1][2] < p
        /\ headers[2] \in HeaderLines /\ headers[2][2] < p
    BY <1>5, <2>4
  <2>6. /\ headers[1][2] \in Nat /\ headers[2][2] \in Nat
    BY <1>3, <2>3
  <2>7. headers[1][2] < client + 2 /\ headers[2][2] < client + 2
    <3>1. p \in Nat /\ client \in Nat
      BY <1>3, <1>4
    <3>2. headers[1][2] < p /\ headers[2][2] < p /\ p <= client + 2
      BY <2>2, <2>5
    <3> QED BY <2>6, <3>1, <3>2
  <2>8. headers[1] = <<line + 2, client - 1>> /\ headers[2] = <<line + 2, client - 1>>
    BY <1>7, <2>5, <2>7
  <2>9. client - 1 < line + 2
    BY <2>4, <2>8
  <2> QED BY <1>2, <1>4, <2>9
<1>9. x[1] <= client + 2 /\ (client + 2) + 7 <= x[2]
  BY <1>2, <1>4
<1> QED BY <1>2, <1>8, <1>9, Zenon DEF Authorized

LEMMA MadeResponseFits ==
    ASSUME TypeInv, WordsInv, ResponseInv, pc = "compress", buffer \in MadeTexts
    PROVE  inlen < RESP_SIZE
<1> DEFINE space == Min(buffer.spaces)
           next == Min(buffer.spaces \ {space})
<1>1. /\ Cardinality(buffer.spaces) > 1
      /\ space <= METHOD_SIZE /\ next - space <= PATH_SIZE
      /\ \A digits \in Digits : 8 + (next - space - 1) + 5 + digits + 4 < RESP_SIZE
  BY MadeAssumption DEF IsMade
<1>2. path = <<space + 1, next - 1>> /\ space \in Nat /\ next \in Nat
  <2> HIDE DEF space, next
  <2>1. space = Min(buffer.spaces) /\ next = Min(buffer.spaces \ {space})
    BY DEF space, next
  <2> QED BY <1>1, <2>1, WordsImply
<1>3. PICK digits \in Digits : inlen = 8 + Length(path) + 5 + digits + 4
  BY DEF ResponseInv
<1> HIDE DEF space, next
<1>4. path \in Nat \X Nat /\ digits \in Nat
  BY ProcessingAssumption DEF TypeInv, ParserType
<1>5. Length(path) = next - space - 1
  BY <1>2 DEF Length
<1> QED BY <1>1, <1>2, <1>3, <1>4, <1>5

\* No request the server makes for itself is refused, and every response to one
\* fits resp, whatever the lengths of the words as long as they fit.
THEOREM MadeRequestsAreServed == Spec => []MadeRequestsPass
<1>1. ParsedInv => MadeRequestsPass
  BY MadeIsAuthorized, MadeResponseFits DEF ParsedInv, MadeRequestsPass
<1> QED BY <1>1, ParsedAlways, PTL
=============================================================================
