-------------------------- MODULE HttpRequestProofs --------------------------
(***************************************************************************)
(* Proofs about HttpRequest, for any number of requests, cut in any way:   *)
(* the types and the order of the indices of inbuffer, that only what has  *)
(* been read whole is answered, and that each request has one answer.      *)
(***************************************************************************)
EXTENDS HttpRequest, SequenceTheorems, FiniteSetTheorems, WellFoundedInduction,
        TLAPS

------------------------------------------------------------------------------
(* Numbers and sequences.                                                  *)

\* A set of numbers that is not empty has a least one.
LEMMA LeastOf ==
  ASSUME NEW T \in SUBSET Nat, T # {}
  PROVE  \E p \in T : \A q \in T : p <= q
<1> DEFINE R == OpToRel(<, Nat)
<1>1. IsWellFoundedOn(R, Nat)
    BY NatLessThanWellFounded
<1>2. \A y, x \in Nat : y < x => <<y, x>> \in R
    BY DEF OpToRel
<1> HIDE DEF R
<1>3. PICK x \in T : \A y \in T : ~(<<y, x>> \in R)
    BY <1>1, WFMin
<1>4. \A y \in T : ~(y < x)
    BY <1>2, <1>3
<1> QED
    BY <1>3, <1>4

\* A part of a sequence.
LEMMA PartOf ==
  ASSUME NEW S, NEW s \in Seq(S), NEW m \in Nat \ {0}, NEW n \in Nat,
         n <= Len(s)
  PROVE  /\ SubSeq(s, m, n) \in Seq(S)
         /\ Len(SubSeq(s, m, n)) = IF m <= n THEN n - m + 1 ELSE 0
         /\ \A i \in 1 .. n - m + 1 : SubSeq(s, m, n)[i] = s[m + i - 1]
<1>1. \A i \in m .. n : s[i] \in S
    BY ElementOfSeq, LenProperties
<1>2. m \in Int /\ n \in Int
    OBVIOUS
<1>3. SubSeq(s, m, n) \in Seq(S)
    BY <1>1, <1>2, SubSeqProperties
<1>4. Len(SubSeq(s, m, n)) = IF m <= n THEN n - m + 1 ELSE 0
    BY <1>1, <1>2, SubSeqProperties
<1>5. \A i \in 1 .. n - m + 1 : SubSeq(s, m, n)[i] = s[m + i - 1]
    BY <1>1, <1>2, SubSeqProperties
<1> QED
    BY <1>3, <1>4, <1>5

\* A function on 1 .. n is a sequence.
LEMMA FunctionSeq ==
  ASSUME NEW S, NEW n \in Nat, NEW f \in [1 .. n -> S]
  PROVE  f \in Seq(S) /\ Len(f) = n
<1>1. f \in Seq(S)
    BY IsASeq
<1>2. DOMAIN f = 1 .. Len(f) /\ Len(f) \in Nat
    BY <1>1, LenProperties
<1>3. Len(f) = n
    BY <1>2
<1> QED
    BY <1>1, <1>3

------------------------------------------------------------------------------
(* Lines.                                                                  *)

\* The types of what the parser works on, and its indices.
IndexInv ==
  /\ TypeOK
  /\ readIndex \in Nat /\ checkIndex \in Nat /\ writeIndex \in Nat
  /\ ~moved => \A p \in writeIndex + 1 .. Len(data) :
                 data[p].kind \notin {"crlf", "lf"}

\* findLine() finds the first end of line behind readIndex_, and before
\* writeIndex_ unless init() has left something behind it.
LEMMA LineFound ==
  ASSUME IndexInv, LineEnds # {}
  PROVE  /\ LineEnd \in LineEnds /\ \A q \in LineEnds : LineEnd <= q
         /\ LineEnd \in Nat /\ LineEnd > readIndex /\ LineEnd <= Len(data)
         /\ ~moved => LineEnd <= writeIndex
<1>1. /\ Len(data) \in Nat /\ readIndex \in Nat /\ writeIndex \in Nat
      /\ LineEnds \in SUBSET Nat
    BY LenProperties DEF IndexInv, TypeOK, LineEnds
<1>2. \E p \in LineEnds : \A q \in LineEnds : p <= q
    BY <1>1, LeastOf
<1>3. LineEnd \in LineEnds /\ \A q \in LineEnds : LineEnd <= q
    BY <1>2 DEF LineEnd
<1>4. /\ LineEnd \in readIndex + 1 .. Len(data)
      /\ data[LineEnd].kind \in {"crlf", "lf"}
    BY <1>3 DEF LineEnds
<1>5. LineEnd \in Nat /\ LineEnd > readIndex /\ LineEnd <= Len(data)
    BY <1>1, <1>4
<1>6. ASSUME ~moved
      PROVE  LineEnd <= writeIndex
  <2>1. LineEnd \notin writeIndex + 1 .. Len(data)
      BY <1>4, <1>6 DEF IndexInv
  <2> QED
      BY <1>1, <1>5, <2>1
<1> QED
    BY <1>3, <1>5, <1>6

\* What parse_line() leaves.
LEMMA AfterLine ==
  ASSUME IndexInv, LineEnds # {}
  PROVE  /\ DataAfterLine \in Seq(Cells) /\ Len(DataAfterLine) = Len(data)
         /\ \A p \in 1 .. Len(data) :
              DataAfterLine[p] = IF p = LineEnd THEN Nul ELSE data[p]
<1>1. Nul \in Cells
    BY ConstantsOK DEF Nul, Cells, Kinds
<1>2. data \in [1 .. Len(data) -> Cells] /\ Len(data) \in Nat
    BY LenProperties DEF IndexInv, TypeOK
<1>3. DataAfterLine \in [1 .. Len(data) -> Cells]
    BY <1>1, <1>2 DEF DataAfterLine
<1>4. DataAfterLine \in Seq(Cells) /\ Len(DataAfterLine) = Len(data)
    BY <1>2, <1>3, FunctionSeq
<1>5. \A p \in 1 .. Len(data) :
        DataAfterLine[p] = IF p = LineEnd THEN Nul ELSE data[p]
    BY <1>2 DEF DataAfterLine
<1> QED
    BY <1>4, <1>5

\* The text of a line is a sequence of cells, before the end of the line.
LEMMA TextTypes ==
  ASSUME IndexInv, LineEnds # {}
  PROVE  /\ Text \in Seq(Cells)
         /\ Text # <<>> => Text[1] = DataAfterLine[checkIndex + 1]
         /\ Text = <<>> <=> DataAfterLine[checkIndex + 1].kind = "nul"
         /\ checkIndex + 1 \in 1 .. Len(data) /\ checkIndex + 1 <= LineEnd
<1> DEFINE start == checkIndex + 1
           T == {p \in start .. LineEnd : DataAfterLine[p].kind = "nul"}
           First(p) == /\ DataAfterLine[p].kind = "nul"
                       /\ \A q \in start .. p - 1 : DataAfterLine[q].kind # "nul"
           nul == CHOOSE p \in start .. LineEnd : First(p)
<1>1. /\ LineEnd \in Nat /\ checkIndex \in Nat /\ Len(data) \in Nat
      /\ checkIndex < LineEnd /\ LineEnd <= Len(data)
  <2>1. checkIndex <= readIndex /\ checkIndex \in Nat /\ readIndex \in Nat
      BY DEF IndexInv, TypeOK
  <2>2. Len(data) \in Nat
      BY LenProperties DEF IndexInv, TypeOK
  <2> QED
      BY <2>1, <2>2, LineFound
<1>2. /\ start \in Nat \ {0}
      /\ LineEnd \in start .. LineEnd /\ LineEnd \in 1 .. Len(data)
    BY <1>1
<1>3. DataAfterLine[LineEnd].kind = "nul"
    BY <1>2, AfterLine DEF Nul
<1>4. LineEnd \in T /\ T \in SUBSET Nat
    BY <1>1, <1>2, <1>3
<1>5. PICK p \in T : \A q \in T : p <= q
    BY <1>4, LeastOf
<1>6. First(p) /\ p \in start .. LineEnd
  <2>1. p \in start .. LineEnd /\ DataAfterLine[p].kind = "nul"
      BY <1>5
  <2>2. ASSUME NEW q \in start .. p - 1, DataAfterLine[q].kind = "nul"
        PROVE  FALSE
    <3>1. q \in start .. LineEnd /\ q < p
        BY <1>1, <2>1
    <3> QED
        BY <1>5, <2>2, <3>1
  <2> QED
      BY <2>1, <2>2
<1>7. nul \in start .. LineEnd /\ First(nul)
  <2> HIDE DEF First
  <2> QED
      BY <1>6
<1>8. Text = SubSeq(data, start, nul - 1)
    BY DEF Text
<1> HIDE DEF nul
<1>9. nul \in Nat /\ start <= nul /\ nul <= LineEnd /\ nul - 1 \in Nat
      /\ nul - 1 <= Len(data)
    BY <1>1, <1>2, <1>7
<1>10. data \in Seq(Cells)
    BY DEF IndexInv, TypeOK
<1> HIDE DEF start
<1>11. /\ Text \in Seq(Cells)
       /\ Len(Text) = IF start <= nul - 1 THEN (nul - 1) - start + 1 ELSE 0
       /\ \A i \in 1 .. (nul - 1) - start + 1 : Text[i] = data[start + i - 1]
    BY <1>2, <1>8, <1>9, <1>10, PartOf
<1>12. CASE nul = start
  <2>1. Len(Text) = 0
      BY <1>2, <1>11, <1>12
  <2>2. Text = <<>>
      BY <1>11, <2>1, EmptySeq
  <2>3. DataAfterLine[start].kind = "nul"
      BY <1>7, <1>12
  <2> QED
      BY <1>2, <1>9, <1>11, <2>2, <2>3 DEF start
<1>13. CASE nul # start
  <2>1. start <= nul - 1 /\ start < LineEnd
      BY <1>1, <1>2, <1>9, <1>13
  <2>2. Len(Text) # 0 /\ 1 \in 1 .. (nul - 1) - start + 1 /\ start + 1 - 1 = start
      BY <1>2, <1>9, <1>11, <2>1
  <2>3. Text # <<>>
      BY <2>2, EmptySeq
  <2>4. Text[1] = data[start]
      BY <1>11, <2>2
  <2>5. start \in 1 .. Len(data) /\ start # LineEnd
      BY <1>1, <1>2, <2>1
  <2>6. start \in start .. nul - 1
      BY <1>2, <1>9, <2>1
  <2>7. DataAfterLine[start].kind # "nul"
      BY <1>7, <2>6
  <2>8. DataAfterLine[start] = data[start]
      BY <2>5, AfterLine
  <2>9. Text[1] = DataAfterLine[start]
      BY <2>4, <2>8
  <2>10. Text \in Seq(Cells)
      BY <1>11
  <2>11. start <= LineEnd
      BY <1>1, <1>2, <2>1
  <2> HIDE DEF Text
  <2>12. checkIndex + 1 = start
      BY DEF start
  <2> QED
      BY <2>3, <2>5, <2>7, <2>9, <2>10, <2>12, <2>11
<1> QED
    BY <1>12, <1>13

------------------------------------------------------------------------------
(* Types.                                                                  *)

\* At the start there is nothing.
LEMMA InitIndex == Init => IndexInv
<1> SUFFICES ASSUME Init
             PROVE  IndexInv
    OBVIOUS
<1>1. Len(<<>>) = 0 /\ \A S : <<>> \in Seq(S)
    BY EmptySeq
<1>2. /\ stream = <<>> /\ ends = <<>> /\ data = <<>> /\ answers = <<>>
      /\ Len(stream) = 0 /\ Len(data) = 0
    BY <1>1 DEF Init
<1>3. /\ stream \in Seq(Cells) /\ ends \in Seq(1 .. Len(stream))
      /\ data \in Seq(Cells)
      /\ answers \in Seq([req : 0 .. MaxRequests, code : Codes,
                          linger : BOOLEAN, got : Nat])
    BY <1>1, <1>2
<1>4. got \in 0 .. Len(stream) /\ current \in 0 .. MaxRequests
    BY <1>2, ConstantsOK DEF Init
<1>5. TypeOK
  <2>1. /\ checkIndex <= readIndex /\ writeIndex <= Len(data)
        /\ readIndex <= writeIndex /\ moved = FALSE
        /\ pc = "idle" /\ contentLength = 0 /\ linger = FALSE
      BY <1>2 DEF Init
  <2>2. /\ checkstate = "REQUESTLINE" /\ lineStatus = "LINE_OK"
        /\ ret = "OPEN_REQUEST" /\ state = "kConnected"
        /\ whole = TRUE /\ single = TRUE
      BY DEF Init
  <2> QED
      BY <1>3, <1>4, <2>1, <2>2 DEF TypeOK
<1>6. \A p \in writeIndex + 1 .. Len(data) : FALSE
    BY <1>2 DEF Init
<1> QED
    BY <1>5, <1>6 DEF Init, IndexInv

\* What sending a request adds.
LEMMA Sent ==
  ASSUME IndexInv, NEW request \in Requests, Send(request)
  PROVE  /\ Len(stream) \in Nat /\ Len(ends) \in Nat
         /\ request \in Seq(Kinds \ {"nul"}) /\ Len(request) \in Nat \ {0}
         /\ stream' \in Seq(Cells)
         /\ Len(stream') = Len(stream) + Len(request)
         /\ \A p \in 1 .. Len(stream) : stream'[p] = stream[p]
         /\ \A i \in 1 .. Len(request) :
              stream'[Len(stream) + i] =
                [kind |-> request[i], req |-> Len(ends) + 1]
         /\ Len(ends') = Len(ends) + 1
         /\ \A n \in 1 .. Len(ends) : ends'[n] = ends[n]
         /\ ends'[Len(ends) + 1] = Len(stream')
<1> DEFINE n == Len(ends) + 1
           cells == [i \in DOMAIN request |-> [kind |-> request[i], req |-> n]]
<1>1. /\ stream \in Seq(Cells) /\ ends \in Seq(1 .. Len(stream))
      /\ Len(stream) \in Nat /\ Len(ends) \in Nat
    BY LenProperties DEF IndexInv, TypeOK
<1>2. request \in Seq(Kinds \ {"nul"}) /\ request # <<>>
    BY ConstantsOK
<1>3. /\ Len(request) \in Nat \ {0} /\ DOMAIN request = 1 .. Len(request)
      /\ \A i \in 1 .. Len(request) : request[i] \in Kinds
    BY <1>2, EmptySeq, LenProperties, ElementOfSeq
<1>4. n \in 0 .. MaxRequests
    BY <1>1, ConstantsOK DEF Send
<1>5. cells \in [1 .. Len(request) -> Cells]
    BY <1>3, <1>4 DEF Cells
<1>6. cells \in Seq(Cells) /\ Len(cells) = Len(request)
  <2> HIDE DEF cells
  <2> QED
      BY <1>3, <1>5, FunctionSeq
<1>7. stream' = stream \o cells /\ ends' = Append(ends, Len(stream'))
    BY DEF Send
<1>8. \A i \in 1 .. Len(request) :
        cells[i] = [kind |-> request[i], req |-> n]
    BY <1>3
<1> HIDE DEF cells, n
<1>9. /\ stream \o cells \in Seq(Cells)
      /\ Len(stream \o cells) = Len(stream) + Len(cells)
      /\ \A p \in 1 .. Len(stream) + Len(cells) :
           (stream \o cells)[p] = IF p <= Len(stream) THEN stream[p]
                                  ELSE cells[p - Len(stream)]
    BY <1>1, <1>6, ConcatProperties
<1>10. /\ stream' \in Seq(Cells)
       /\ Len(stream') = Len(stream) + Len(request)
       /\ \A p \in 1 .. Len(stream) + Len(request) :
            stream'[p] = IF p <= Len(stream) THEN stream[p]
                         ELSE cells[p - Len(stream)]
    BY <1>6, <1>7, <1>9
<1>11. \A p \in 1 .. Len(stream) : stream'[p] = stream[p]
    BY <1>1, <1>3, <1>10
<1>12. ASSUME NEW i \in 1 .. Len(request)
       PROVE  stream'[Len(stream) + i] = [kind |-> request[i], req |-> n]
  <2>1. /\ Len(stream) + i \in 1 .. Len(stream) + Len(request)
        /\ ~(Len(stream) + i <= Len(stream))
        /\ (Len(stream) + i) - Len(stream) = i
      BY <1>1, <1>3
  <2> QED
      BY <1>8, <1>10, <2>1
<1>13. Len(stream') \in 1 .. Len(stream')
    BY <1>1, <1>3, <1>10
<1>14. /\ Len(ends') = Len(ends) + 1
       /\ \A i \in 1 .. Len(ends) : ends'[i] = ends[i]
       /\ ends'[Len(ends) + 1] = Len(stream')
  <2>1. ends \in Seq(Nat) /\ Len(stream') \in Nat
    <3>1. \A i \in 1 .. Len(ends) : ends[i] \in 1 .. Len(stream)
        BY <1>1, ElementOfSeq
    <3>2. ends \in [1 .. Len(ends) -> Nat]
        BY <1>1, <3>1, LenProperties
    <3> QED
        BY <1>1, <1>13, <3>2, FunctionSeq
  <2> QED
      BY <1>1, <1>7, <2>1, AppendProperties
<1> QED
    BY <1>1, <1>2, <1>3, <1>10, <1>11, <1>12, <1>14 DEF n

\* What the client sends.
LEMMA SendTypes ==
  ASSUME IndexInv, NEW request \in Requests, Send(request)
  PROVE  IndexInv'
<1>1. /\ Len(stream) \in Nat /\ Len(ends) \in Nat /\ Len(request) \in Nat \ {0}
      /\ stream' \in Seq(Cells) /\ Len(stream') = Len(stream) + Len(request)
      /\ Len(ends') = Len(ends) + 1
      /\ \A n \in 1 .. Len(ends) : ends'[n] = ends[n]
      /\ ends'[Len(ends) + 1] = Len(stream')
    BY Sent
<1>2. UNCHANGED <<readVars, bufVars, pc, parseVars, ret, connVars, moved>>
    BY DEF Send
<1>3. got' \in 0 .. Len(stream')
    BY <1>1, <1>2 DEF readVars, IndexInv, TypeOK
<1>4. ends' \in Seq(1 .. Len(stream'))
  <2>1. \A n \in 1 .. Len(ends) : ends[n] \in 1 .. Len(stream)
      BY ElementOfSeq DEF IndexInv, TypeOK
  <2>2. \A n \in 1 .. Len(ends') : ends'[n] \in 1 .. Len(stream')
      BY <1>1, <2>1
  <2>3. ends' \in Seq(Nat)
    <3>1. ends \in Seq(Nat)
      <4>1. ends \in [1 .. Len(ends) -> Nat]
          BY <1>1, <2>1, LenProperties DEF IndexInv, TypeOK
      <4> QED
          BY <1>1, <4>1, FunctionSeq
    <3>2. ends' = Append(ends, Len(stream')) /\ Len(stream') \in Nat
        BY <1>1 DEF Send
    <3> QED
        BY <3>1, <3>2, AppendProperties
  <2>4. ends' \in [1 .. Len(ends') -> 1 .. Len(stream')]
      BY <2>2, <2>3, LenProperties
  <2>5. Len(ends') \in Nat
      BY <1>1
  <2> QED
      BY <2>4, <2>5, FunctionSeq
<1>5. TypeOK'
    BY <1>1, <1>2, <1>3, <1>4
    DEF IndexInv, TypeOK, readVars, bufVars, parseVars, connVars
<1> QED
    BY <1>2, <1>5 DEF IndexInv, bufVars

\* handleRead(): the cells read go behind those in inbuffer, over what was
\* there before.
LEMMA ReadData ==
  ASSUME IndexInv, NEW k \in 1 .. Len(stream), HandleRead(k)
  PROVE  /\ got' = got + k /\ got' \in 0 .. Len(stream) /\ got \in Nat
         /\ k \in Nat \ {0}
         /\ writeIndex' = writeIndex + k
         /\ data' \in Seq(Cells) /\ writeIndex' <= Len(data')
         /\ \A p \in 1 .. writeIndex : data'[p] = data[p]
         /\ \A p \in writeIndex + 1 .. writeIndex + k :
              data'[p] = stream[got + (p - writeIndex)]
         /\ \A p \in writeIndex + k + 1 .. Len(data') :
              p \in 1 .. Len(data) /\ data'[p] = data[p]
<1> DEFINE w == writeIndex
           n == Len(data)
           a == SubSeq(data, 1, w)
           b == SubSeq(stream, got + 1, got + k)
           c == SubSeq(data, w + k + 1, n)
<1>1. /\ got' = got + k /\ got + k <= Len(stream) /\ writeIndex' = w + k
      /\ data' = (a \o b) \o c
    BY DEF HandleRead
<1>2. /\ got \in Nat /\ Len(stream) \in Nat /\ k \in Nat \ {0} /\ w \in Nat
      /\ n \in Nat /\ w <= n /\ data \in Seq(Cells) /\ stream \in Seq(Cells)
      /\ got + k \in Nat /\ got + 1 \in Nat \ {0} /\ 1 \in Nat \ {0}
      /\ w + k + 1 \in Nat \ {0} /\ n <= n
  <2>1. /\ Len(stream) \in Nat /\ n \in Nat /\ got \in 0 .. Len(stream)
        /\ w \in Nat /\ w <= n
      BY LenProperties DEF IndexInv, TypeOK
  <2>2. data \in Seq(Cells) /\ stream \in Seq(Cells)
      BY DEF IndexInv, TypeOK
  <2> QED
      BY <2>1, <2>2
<1>3. /\ a \in Seq(Cells) /\ Len(a) = w
      /\ \A p \in 1 .. w : a[p] = data[p]
  <2>1. /\ a \in Seq(Cells)
        /\ Len(a) = IF 1 <= w THEN w - 1 + 1 ELSE 0
        /\ \A p \in 1 .. w - 1 + 1 : a[p] = data[1 + p - 1]
      BY <1>2, PartOf
  <2>2. Len(a) = w
      BY <1>2, <2>1
  <2>3. ASSUME NEW p \in 1 .. w
        PROVE  a[p] = data[p]
    <3>1. p \in 1 .. w - 1 + 1 /\ 1 + p - 1 = p
        BY <1>2
    <3> QED
        BY <2>1, <3>1
  <2> QED
      BY <2>1, <2>2, <2>3
<1>4. /\ b \in Seq(Cells) /\ Len(b) = k
      /\ \A p \in 1 .. k : b[p] = stream[got + p]
  <2>1. /\ b \in Seq(Cells)
        /\ Len(b) = IF got + 1 <= got + k THEN got + k - (got + 1) + 1 ELSE 0
        /\ \A p \in 1 .. got + k - (got + 1) + 1 :
             b[p] = stream[(got + 1) + p - 1]
      BY <1>1, <1>2, PartOf
  <2>2. Len(b) = k
      BY <1>2, <2>1
  <2>3. ASSUME NEW p \in 1 .. k
        PROVE  b[p] = stream[got + p]
    <3>1. p \in 1 .. got + k - (got + 1) + 1 /\ (got + 1) + p - 1 = got + p
        BY <1>2
    <3> QED
        BY <2>1, <3>1
  <2> QED
      BY <2>1, <2>2, <2>3
<1>5. /\ c \in Seq(Cells) /\ Len(c) = IF w + k + 1 <= n THEN n - (w + k) ELSE 0
      /\ \A p \in 1 .. n - (w + k) : c[p] = data[w + k + p]
  <2>1. /\ c \in Seq(Cells)
        /\ Len(c) = IF w + k + 1 <= n THEN n - (w + k + 1) + 1 ELSE 0
        /\ \A p \in 1 .. n - (w + k + 1) + 1 : c[p] = data[(w + k + 1) + p - 1]
    <3> DEFINE m == w + k + 1
    <3>1. m \in Nat \ {0} /\ n \in Nat /\ n <= Len(data) /\ data \in Seq(Cells)
        BY <1>2
    <3>2. c = SubSeq(data, m, n)
        OBVIOUS
    <3> HIDE DEF m, n, c
    <3>3. /\ c \in Seq(Cells)
          /\ Len(c) = IF m <= n THEN n - m + 1 ELSE 0
          /\ \A p \in 1 .. n - m + 1 : c[p] = data[m + p - 1]
        BY <3>1, <3>2, PartOf
    <3> QED
        BY <3>3 DEF m
  <2>2. n - (w + k + 1) + 1 = n - (w + k)
      BY <1>2
  <2>3. ASSUME NEW p \in 1 .. n - (w + k)
        PROVE  c[p] = data[w + k + p]
    <3>1. p \in 1 .. n - (w + k + 1) + 1 /\ (w + k + 1) + p - 1 = w + k + p
        BY <1>2
    <3> QED
        BY <2>1, <3>1
  <2> QED
      BY <2>1, <2>2, <2>3
<1> HIDE DEF a, b, c, n
<1>6. /\ a \o b \in Seq(Cells) /\ Len(a \o b) = w + k
      /\ \A p \in 1 .. w + k :
           (a \o b)[p] = IF p <= w THEN a[p] ELSE b[p - w]
    BY <1>3, <1>4, ConcatProperties
<1>7. /\ data' \in Seq(Cells) /\ Len(data') = w + k + Len(c)
      /\ \A p \in 1 .. w + k + Len(c) :
           data'[p] = IF p <= w + k THEN (a \o b)[p] ELSE c[p - (w + k)]
  <2> DEFINE ab == a \o b
             m == w + k
  <2>1. ab \in Seq(Cells) /\ Len(ab) = m /\ data' = ab \o c /\ c \in Seq(Cells)
      BY <1>1, <1>5, <1>6
  <2> HIDE DEF ab, m
  <2>2. /\ data' \in Seq(Cells) /\ Len(data') = m + Len(c)
        /\ \A p \in 1 .. m + Len(c) :
             data'[p] = IF p <= m THEN ab[p] ELSE c[p - m]
      BY <2>1, ConcatProperties
  <2> QED
      BY <2>2 DEF ab, m
<1>8. Len(c) \in Nat /\ w + k <= Len(data') /\ w + k \in Nat
    BY <1>2, <1>5, <1>7
<1>9. ASSUME NEW p \in 1 .. w
      PROVE  data'[p] = data[p]
  <2>1. p \in 1 .. w + k /\ p \in 1 .. w + k + Len(c) /\ p <= w + k /\ p <= w
      BY <1>2, <1>8
  <2> QED
      BY <1>3, <1>6, <1>7, <2>1
<1>10. ASSUME NEW p \in w + 1 .. w + k
       PROVE  data'[p] = stream[got + (p - w)]
  <2>1. /\ p \in 1 .. w + k /\ p \in 1 .. w + k + Len(c) /\ p <= w + k
        /\ ~(p <= w) /\ p - w \in 1 .. k
      BY <1>2, <1>8
  <2> QED
      BY <1>4, <1>6, <1>7, <2>1
<1>11. ASSUME NEW p \in w + k + 1 .. Len(data')
       PROVE  p \in 1 .. n /\ data'[p] = data[p]
  <2>1. p \in 1 .. w + k + Len(c) /\ ~(p <= w + k) /\ p - (w + k) \in 1 .. Len(c)
      BY <1>2, <1>7, <1>8
  <2>2. Len(c) = n - (w + k) /\ p <= n /\ p \in 1 .. n
        /\ w + k + (p - (w + k)) = p
      BY <1>2, <1>5, <2>1
  <2>3. c[p - (w + k)] = data[w + k + (p - (w + k))]
      BY <1>5, <2>1, <2>2
  <2> QED
      BY <1>7, <2>1, <2>2, <2>3
<1>12. \A p \in 1 .. writeIndex : data'[p] = data[p]
    BY <1>9
<1>13. \A p \in writeIndex + 1 .. writeIndex + k :
         data'[p] = stream[got + (p - writeIndex)]
    BY <1>10
<1>14. \A p \in writeIndex + k + 1 .. Len(data') :
         p \in 1 .. Len(data) /\ data'[p] = data[p]
    BY <1>11 DEF n
<1>15. got' \in 0 .. Len(stream) /\ writeIndex' <= Len(data')
    BY <1>1, <1>2, <1>8
<1> QED
    BY <1>1, <1>2, <1>7, <1>12, <1>13, <1>14, <1>15

\* handleRead(), all of it.
LEMMA ReadTypes ==
  ASSUME IndexInv, NEW k \in 1 .. Len(stream), HandleRead(k)
  PROVE  IndexInv'
<1>1. /\ writeIndex \in Nat /\ readIndex \in Nat /\ checkIndex \in Nat
      /\ checkIndex <= readIndex /\ (moved \/ readIndex <= writeIndex)
      /\ UNCHANGED <<readIndex, checkIndex, moved>>
      /\ writeIndex' = writeIndex + k /\ k \in Nat \ {0}
    BY ReadData DEF IndexInv, TypeOK, HandleRead
<1>2. /\ readIndex' \in Nat /\ checkIndex' \in Nat /\ writeIndex' \in Nat
      /\ checkIndex' <= readIndex' /\ (moved' \/ readIndex' <= writeIndex')
    BY <1>1
<1>3. /\ got' \in 0 .. Len(stream') /\ data' \in Seq(Cells)
      /\ writeIndex' <= Len(data') /\ UNCHANGED clientVars
    BY ReadData DEF HandleRead, clientVars
<1>4. ASSUME ~moved', NEW p \in writeIndex' + 1 .. Len(data')
      PROVE  data'[p].kind \notin {"crlf", "lf"}
  <2>1. Len(data) \in Nat /\ Len(data') \in Nat
      BY <1>3, LenProperties DEF IndexInv, TypeOK
  <2>2. p \in 1 .. Len(data) /\ data'[p] = data[p]
      BY <1>1, ReadData
  <2>3. p \in writeIndex + 1 .. Len(data)
      BY <1>1, <2>1, <2>2
  <2> QED
      BY <1>1, <1>4, <2>2, <2>3 DEF IndexInv
<1>5. /\ pc' = "parse" /\ checkstate' = "REQUESTLINE" /\ lineStatus' = "LINE_OK"
      /\ contentLength' = 0 /\ linger' = FALSE
      /\ UNCHANGED <<ret, connVars>>
    BY DEF HandleRead
<1>6. current' \in 0 .. MaxRequests
    BY ConstantsOK DEF HandleRead
<1>7. whole' \in BOOLEAN /\ single' \in BOOLEAN
  <2>1. /\ whole' = (whole /\ \E n \in DOMAIN ends : got' = ends[n])
        /\ single' = (single /\ whole' /\
              Cardinality({n \in DOMAIN ends : ends[n] \in got + 1 .. got'}) = 1)
      BY DEF HandleRead
  <2> QED
      BY <2>1, Zenon
<1>8. TypeOK'
  <2>1. /\ ret' = ret /\ state' = state /\ answers' = answers
        /\ stream' = stream /\ ends' = ends /\ moved' = moved
      BY <1>1, <1>3, <1>5 DEF clientVars, connVars
  <2>2. /\ pc' \in {"idle", "parse", "respond", "undefined"}
        /\ pc' = "undefined" => moved'
        /\ checkstate' \in {"REQUESTLINE", "HEADER", "CONTENT"}
        /\ lineStatus' \in {"LINE_OK", "LINE_INCOMPLETE"}
        /\ contentLength' \in {0, BodyLen} /\ linger' \in BOOLEAN
      BY <1>5
  <2> QED
      BY <1>2, <1>3, <1>6, <1>7, <2>1, <2>2 DEF IndexInv, TypeOK
<1> QED
    BY <1>2, <1>4, <1>8 DEF IndexInv

\* The buffer after parse_line() has found a line.
LEMMA LineBuffer ==
  ASSUME IndexInv, LineEnds # {}, data' = DataAfterLine, readIndex' = LineEnd,
         UNCHANGED <<writeIndex, moved>>
  PROVE  /\ data' \in Seq(Cells) /\ Len(data') = Len(data)
         /\ readIndex' \in Nat /\ writeIndex' \in Nat /\ checkIndex <= readIndex'
         /\ writeIndex' <= Len(data') /\ (moved' \/ readIndex' <= writeIndex')
         /\ ~moved' => \A p \in writeIndex' + 1 .. Len(data') :
                         data'[p].kind \notin {"crlf", "lf"}
<1>1. /\ LineEnd \in Nat /\ LineEnd > readIndex
      /\ ~moved => LineEnd <= writeIndex
    BY LineFound
<1>2. /\ data' \in Seq(Cells) /\ Len(data') = Len(data)
      /\ \A p \in 1 .. Len(data) :
           data'[p] = IF p = LineEnd THEN Nul ELSE data[p]
    BY AfterLine
<1>3. /\ writeIndex \in Nat /\ writeIndex <= Len(data) /\ Len(data) \in Nat
      /\ readIndex \in Nat /\ checkIndex \in Nat /\ checkIndex <= readIndex
    BY LenProperties DEF IndexInv, TypeOK
<1>4. ASSUME ~moved', NEW p \in writeIndex' + 1 .. Len(data')
      PROVE  data'[p].kind \notin {"crlf", "lf"}
  <2>1. p \in 1 .. Len(data) /\ p \in writeIndex + 1 .. Len(data) /\ p # LineEnd
      BY <1>1, <1>2, <1>3, <1>4
  <2>2. data'[p] = data[p]
      BY <1>2, <2>1
  <2> QED
      BY <1>4, <2>1, <2>2 DEF IndexInv
<1>5. /\ readIndex' \in Nat /\ writeIndex' \in Nat /\ checkIndex <= readIndex'
      /\ writeIndex' <= Len(data') /\ (moved' \/ readIndex' <= writeIndex')
    BY <1>1, <1>2, <1>3
<1> QED
    BY <1>2, <1>4, <1>5

\* One line of parse_main(), whatever it is taken for.
LEMMA LineTypes ==
  ASSUME IndexInv, TakeLine,
         pc' \in {"parse", "respond"},
         checkstate' \in {"REQUESTLINE", "HEADER", "CONTENT"},
         contentLength' \in {0, BodyLen}, linger' \in BOOLEAN,
         current' \in 0 .. MaxRequests, ret' \in Codes \cup {"OPEN_REQUEST"}
  PROVE  IndexInv'
<1>1. /\ LineEnds # {} /\ data' = DataAfterLine /\ readIndex' = LineEnd
      /\ checkIndex' = readIndex'
      /\ UNCHANGED <<clientVars, readVars, writeIndex, lineStatus, connVars, moved>>
    BY DEF TakeLine, LineOk, CheckFinish
<1>2. /\ data' \in Seq(Cells)
      /\ readIndex' \in Nat /\ writeIndex' \in Nat /\ checkIndex <= readIndex'
      /\ writeIndex' <= Len(data') /\ (moved' \/ readIndex' <= writeIndex')
      /\ ~moved' => \A p \in writeIndex' + 1 .. Len(data') :
                      data'[p].kind \notin {"crlf", "lf"}
    BY <1>1, LineBuffer
<1>3. checkIndex' \in Nat /\ checkIndex' <= readIndex'
    BY <1>1, <1>2
<1>4. /\ stream' = stream /\ ends' = ends /\ got' = got /\ whole' = whole
      /\ single' = single /\ lineStatus' = lineStatus /\ state' = state
      /\ answers' = answers /\ moved' = moved
    BY <1>1 DEF clientVars, readVars, connVars
<1>5. TypeOK'
    BY <1>2, <1>3, <1>4 DEF IndexInv, TypeOK
<1> QED
    BY <1>2, <1>3, <1>5 DEF IndexInv

\* parse_request_line(): the line is from some request.
LEMMA RequestLineTypes == IndexInv /\ ParseRequestLine => IndexInv'
<1> SUFFICES ASSUME IndexInv, ParseRequestLine
             PROVE  IndexInv'
    OBVIOUS
<1>1. TakeLine /\ LineEnds # {} /\ UNCHANGED <<contentLength, linger>>
    BY DEF ParseRequestLine, TakeLine, LineOk
<1>2. current' \in 0 .. MaxRequests
  <2>1. current' = IF Text = <<>> THEN 0 ELSE Text[1].req
      BY DEF ParseRequestLine
  <2>2. Text \in Seq(Cells)
      BY <1>1, TextTypes
  <2> HIDE DEF Text
  <2>3. ASSUME Text # <<>>
        PROVE  Text[1].req \in 0 .. MaxRequests
    <3>1. 1 \in 1 .. Len(Text)
      <4>1. Len(Text) \in Nat /\ Len(Text) # 0
          BY <2>2, <2>3, EmptySeq, LenProperties
      <4> QED
          BY <4>1
    <3>2. Text[1] \in Cells
        BY <2>2, <3>1, ElementOfSeq
    <3> QED
        BY <3>2 DEF Cells
  <2>4. 0 \in 0 .. MaxRequests
      BY ConstantsOK
  <2> QED
      BY <2>1, <2>3, <2>4
<1>3. /\ \/ /\ checkstate' = "HEADER"
            /\ UNCHANGED <<pc, ret>>
         \/ /\ ret' = "MALFORMED"
            /\ pc' = "respond"
            /\ UNCHANGED checkstate
      /\ pc = "parse"
    BY DEF ParseRequestLine, TakeLine
<1>4. /\ pc' \in {"parse", "respond"}
      /\ checkstate' \in {"REQUESTLINE", "HEADER", "CONTENT"}
      /\ contentLength' \in {0, BodyLen} /\ linger' \in BOOLEAN
      /\ ret' \in Codes \cup {"OPEN_REQUEST"}
    BY <1>1, <1>3 DEF IndexInv, TypeOK, Codes
<1> QED
    BY <1>1, <1>2, <1>4, LineTypes

\* parse_headers().
LEMMA HeaderTypes == IndexInv /\ ParseHeader => IndexInv'
<1> SUFFICES ASSUME IndexInv, ParseHeader
             PROVE  IndexInv'
    OBVIOUS
<1>1. /\ TakeLine /\ pc = "parse" /\ UNCHANGED <<pc, checkstate, current, ret>>
      /\ contentLength' \in {contentLength, BodyLen}
    BY DEF ParseHeader, TakeLine
<1>2. linger' \in BOOLEAN
  <2>1. linger' = (linger \/ (TextIs("keep") /\ Len(Text) = 1))
      BY DEF ParseHeader
  <2> HIDE DEF Text, TextIs
  <2> QED
      BY <2>1, Zenon
<1>3. /\ pc' \in {"parse", "respond"}
      /\ checkstate' \in {"REQUESTLINE", "HEADER", "CONTENT"}
      /\ contentLength' \in {0, BodyLen} /\ current' \in 0 .. MaxRequests
      /\ ret' \in Codes \cup {"OPEN_REQUEST"}
    BY <1>1 DEF IndexInv, TypeOK
<1> QED
    BY <1>1, <1>2, <1>3, LineTypes

\* The end of the headers.
LEMMA EndOfHeaderTypes == IndexInv /\ ParseEndOfHeader => IndexInv'
<1> SUFFICES ASSUME IndexInv, ParseEndOfHeader
             PROVE  IndexInv'
    OBVIOUS
<1>1. /\ TakeLine /\ pc = "parse" /\ UNCHANGED <<contentLength, linger, current>>
      /\ \/ DoRequest /\ UNCHANGED checkstate
         \/ checkstate' = "CONTENT" /\ UNCHANGED <<pc, ret>>
    BY DEF ParseEndOfHeader, TakeLine
<1>2. /\ pc' \in {"parse", "respond"}
      /\ checkstate' \in {"REQUESTLINE", "HEADER", "CONTENT"}
      /\ contentLength' \in {0, BodyLen} /\ linger' \in BOOLEAN
      /\ current' \in 0 .. MaxRequests /\ ret' \in Codes \cup {"OPEN_REQUEST"}
    BY <1>1 DEF IndexInv, TypeOK, DoRequest, Codes
<1> QED
    BY <1>1, <1>2, LineTypes

\* parse_request_content(), and the line parse_line() may find in a body that
\* is incomplete.  The NUL behind the body ends no line.
LEMMA ContentTypes == IndexInv /\ ParseContent => IndexInv'
<1> SUFFICES ASSUME IndexInv, ParseContent
             PROVE  IndexInv'
    OBVIOUS
<1> DEFINE lined == lineStatus # "LINE_OK"
           buf == IF lined THEN DataAfterLine ELSE data
           after == checkIndex + contentLength + 1
           read == IF lined THEN LineEnd ELSE readIndex
<1>1. /\ lined => LineEnds # {}
      /\ readIndex' = read
      /\ UNCHANGED <<clientVars, readVars, writeIndex, checkstate, contentLength,
                     linger, current, connVars, moved>>
    BY DEF ParseContent, LineOk
<1>2. \/ /\ data' = IF after <= Len(buf) THEN [buf EXCEPT ![after] = Nul] ELSE buf
         /\ checkIndex' = readIndex'
         /\ DoRequest
         /\ UNCHANGED lineStatus
      \/ /\ data' = buf
         /\ lineStatus' = "LINE_INCOMPLETE"
         /\ UNCHANGED <<checkIndex, pc, ret>>
    BY DEF ParseContent
<1>3. /\ writeIndex \in Nat /\ readIndex \in Nat /\ checkIndex \in Nat
      /\ Len(data) \in Nat /\ data \in Seq(Cells) /\ writeIndex <= Len(data)
      /\ checkIndex <= readIndex /\ (moved \/ readIndex <= writeIndex)
      /\ contentLength \in Nat
    BY LenProperties, ConstantsOK DEF IndexInv, TypeOK
<1>4. /\ buf \in Seq(Cells) /\ Len(buf) = Len(data) /\ read \in Nat
      /\ checkIndex <= read /\ (moved \/ read <= writeIndex)
  <2>1. CASE lined
    <3>1. /\ LineEnd \in Nat /\ LineEnd > readIndex
          /\ ~moved => LineEnd <= writeIndex
        BY <1>1, <2>1, LineFound
    <3>2. DataAfterLine \in Seq(Cells) /\ Len(DataAfterLine) = Len(data)
        BY <1>1, <2>1, AfterLine
    <3>3. buf = DataAfterLine /\ read = LineEnd
        BY <2>1
    <3> HIDE DEF buf, read, lined
    <3> QED
        BY <1>3, <3>1, <3>2, <3>3
  <2>2. CASE ~lined
      BY <1>3, <2>2
  <2> QED
      BY <2>1, <2>2
<1>5. ASSUME ~moved, NEW p \in writeIndex + 1 .. Len(data)
      PROVE  buf[p].kind \notin {"crlf", "lf"}
  <2>1. data[p].kind \notin {"crlf", "lf"}
      BY <1>5 DEF IndexInv
  <2>2. CASE lined
    <3>1. p \in 1 .. Len(data)
        BY <1>3
    <3>2. buf[p] = IF p = LineEnd THEN Nul ELSE data[p]
        BY <1>1, <2>2, <3>1, AfterLine
    <3> HIDE DEF buf
    <3> QED
        BY <2>1, <3>2 DEF Nul
  <2>3. CASE ~lined
      BY <2>1, <2>3
  <2> QED
      BY <2>2, <2>3
<1> HIDE DEF buf, read
<1>6. after \in Nat \ {0}
    BY <1>3
<1> HIDE DEF after
<1>7. /\ data' \in Seq(Cells) /\ Len(data') = Len(data)
      /\ \A p \in 1 .. Len(data) : data'[p] = buf[p] \/ data'[p] = Nul
  <2>1. CASE data' = buf
      BY <1>4, <2>1
  <2>2. CASE after <= Len(buf) /\ data' = [buf EXCEPT ![after] = Nul]
    <3>1. Nul \in Cells
        BY ConstantsOK DEF Nul, Cells, Kinds
    <3>2. buf \in [1 .. Len(data) -> Cells]
        BY <1>4, LenProperties
    <3>3. data' \in [1 .. Len(data) -> Cells]
        BY <2>2, <3>1, <3>2
    <3>4. data' \in Seq(Cells) /\ Len(data') = Len(data)
        BY <1>3, <3>3, FunctionSeq
    <3>5. \A p \in 1 .. Len(data) : data'[p] = buf[p] \/ data'[p] = Nul
        BY <2>2, <3>2
    <3> QED
        BY <3>4, <3>5
  <2> QED
      BY <1>2, <2>1, <2>2
<1>8. /\ writeIndex' = writeIndex /\ moved' = moved /\ readIndex' = read
      /\ checkIndex' \in {checkIndex, read}
    BY <1>1, <1>2
<1>9. ASSUME ~moved', NEW p \in writeIndex' + 1 .. Len(data')
      PROVE  data'[p].kind \notin {"crlf", "lf"}
  <2>1. p \in 1 .. Len(data) /\ p \in writeIndex + 1 .. Len(data)
      BY <1>3, <1>7, <1>8
  <2>2. buf[p].kind \notin {"crlf", "lf"}
      BY <1>5, <1>8, <1>9, <2>1
  <2>3. data'[p] = buf[p] \/ data'[p] = Nul
      BY <1>7, <2>1
  <2> QED
      BY <2>2, <2>3 DEF Nul
<1>10. /\ readIndex' \in Nat /\ checkIndex' \in Nat /\ writeIndex' \in Nat
       /\ checkIndex' <= readIndex' /\ writeIndex' <= Len(data')
       /\ moved' \/ readIndex' <= writeIndex'
    BY <1>3, <1>4, <1>7, <1>8
<1>11. /\ stream' = stream /\ ends' = ends /\ got' = got /\ whole' = whole
       /\ single' = single /\ checkstate' = checkstate /\ state' = state
       /\ contentLength' = contentLength /\ linger' = linger
       /\ current' = current /\ answers' = answers /\ moved' = moved
    BY <1>1 DEF clientVars, readVars, connVars
<1>12. /\ lineStatus' \in {"LINE_OK", "LINE_INCOMPLETE"}
       /\ ret' \in Codes \cup {"OPEN_REQUEST"}
       /\ pc' = pc \/ pc' = "respond"
  <2>1. \/ DoRequest /\ UNCHANGED lineStatus
        \/ lineStatus' = "LINE_INCOMPLETE" /\ UNCHANGED <<pc, ret>>
      BY <1>2
  <2> QED
      BY <2>1 DEF IndexInv, TypeOK, DoRequest, Codes
<1>13. TypeOK'
    BY <1>7, <1>10, <1>11, <1>12 DEF IndexInv, TypeOK
<1> QED
    BY <1>9, <1>10, <1>13 DEF IndexInv

\* No line.
LEMMA NoLineTypes == IndexInv /\ ParseNoLine => IndexInv'
<1> SUFFICES ASSUME IndexInv, ParseNoLine
             PROVE  IndexInv'
    OBVIOUS
<1>1. /\ ret' = "OPEN_REQUEST" /\ pc' = "respond"
      /\ UNCHANGED <<clientVars, readVars, bufVars, parseVars, connVars, moved>>
    BY DEF ParseNoLine
<1> QED
    BY <1>1 DEF IndexInv, TypeOK, clientVars, readVars, bufVars, parseVars, connVars

------------------------------------------------------------------------------
(* Answers.                                                                *)

Answer == [req : 0 .. MaxRequests, code : Codes, linger : BOOLEAN, got : Nat]

\* What do_response() sends.
LEMMA RespondedTypes ==
  ASSUME IndexInv
  PROVE  Responded \in Seq(Answer)
<1>1. answers \in Seq(Answer)
    BY DEF IndexInv, TypeOK, Answer
<1>2. CASE state = "kConnected" /\ ret # "OPEN_REQUEST"
  <2> DEFINE a == [req |-> current, code |-> ret, linger |-> linger, got |-> got]
  <2>1. Len(stream) \in Nat /\ got \in 0 .. Len(stream)
      BY LenProperties DEF IndexInv, TypeOK
  <2>2. got \in Nat
      BY <2>1
  <2>3. a \in Answer
      BY <1>2, <2>2 DEF IndexInv, TypeOK, Answer
  <2>4. Responded = Append(answers, a)
      BY <1>2 DEF Responded
  <2> HIDE DEF a
  <2> QED
      BY <1>1, <2>3, <2>4, AppendProperties
<1>3. CASE ~(state = "kConnected" /\ ret # "OPEN_REQUEST")
  <2>1. Responded = answers
      BY <1>3 DEF Responded
  <2> QED
      BY <1>1, <2>1
<1> QED
    BY <1>2, <1>3

\* An answer without keep-alive.
LEMMA ShutdownTypes == IndexInv /\ RespondAndShutdown => IndexInv'
<1> SUFFICES ASSUME IndexInv, RespondAndShutdown
             PROVE  IndexInv'
    OBVIOUS
<1>1. /\ answers' = Responded /\ state' = "kDisconnecting" /\ pc' = "idle"
      /\ UNCHANGED <<clientVars, readVars, bufVars, parseVars, ret, moved>>
    BY DEF RespondAndShutdown
<1>2. answers' \in Seq([req : 0 .. MaxRequests, code : Codes, linger : BOOLEAN,
                        got : Nat])
    BY <1>1, RespondedTypes DEF Answer
<1> QED
    BY <1>1, <1>2 DEF IndexInv, TypeOK, clientVars, readVars, bufVars, parseVars

\* init() of inbuffer.
LEMMA InitBufferTypes ==
  ASSUME IndexInv, InitBuffer
  PROVE  /\ data' \in Seq(Cells) /\ moved' \in BOOLEAN
         /\ readIndex' = 0 /\ checkIndex' = 0
         /\ writeIndex' \in Nat /\ writeIndex' <= Len(data')
         /\ moved => moved'
         /\ ~(readIndex <= writeIndex) => moved'
         /\ ~moved' => \A p \in writeIndex' + 1 .. Len(data') :
                         data'[p].kind \notin {"crlf", "lf"}
<1> DEFINE unread == writeIndex - readIndex
           f == [i \in DOMAIN data |->
                   IF i <= unread THEN data[readIndex + i]
                   ELSE IF unread = 0 /\ i <= writeIndex THEN Nul
                   ELSE data[i]]
<1>1. /\ writeIndex \in Nat /\ readIndex \in Nat /\ writeIndex <= Len(data)
      /\ Len(data) \in Nat /\ data \in Seq(Cells) /\ DOMAIN data = 1 .. Len(data)
      /\ \A i \in 1 .. Len(data) : data[i] \in Cells
      /\ unread \in Int /\ moved \in BOOLEAN
  <2>1. data \in Seq(Cells) /\ moved \in BOOLEAN /\ writeIndex <= Len(data)
      BY DEF IndexInv, TypeOK
  <2> QED
      BY <2>1, LenProperties, ElementOfSeq DEF IndexInv
<1>2. /\ readIndex' = 0 /\ checkIndex' = 0
      /\ moved' = (moved \/ unread # 0)
      /\ IF unread < 0 THEN UNCHANGED <<data, writeIndex>>
         ELSE /\ writeIndex' = unread
              /\ data' = IF unread = 0 /\ writeIndex = Len(data) THEN <<>> ELSE f
    BY DEF InitBuffer, CheckAfterInit
<1>3. CASE unread < 0
  <2>1. data' = data /\ writeIndex' = writeIndex /\ unread # 0
    <3> HIDE DEF f
    <3>1. UNCHANGED <<data, writeIndex>> /\ unread # 0
      <4>1. unread # 0
          BY <1>1, <1>3
      <4> HIDE DEF unread
      <4> QED
          BY <1>2, <1>3, <4>1
    <3> QED
        BY <3>1
  <2>2. moved' = TRUE
      BY <1>1, <1>2, <2>1
  <2>3. ~moved' => \A p \in writeIndex' + 1 .. Len(data') :
                    data'[p].kind \notin {"crlf", "lf"}
      BY <2>2
  <2>4. /\ readIndex' = 0 /\ checkIndex' = 0
      BY <1>2
  <2> QED
      BY <1>1, <2>1, <2>2, <2>3, <2>4
<1>4. CASE ~(unread < 0)
  <2>1. /\ unread \in Nat /\ writeIndex' = unread /\ unread <= Len(data)
        /\ readIndex <= writeIndex /\ readIndex + unread = writeIndex
    <3>1. writeIndex' = unread
      <4> HIDE DEF unread, f
      <4> QED
          BY <1>2, <1>4
    <3>2. unread \in Nat /\ readIndex <= writeIndex /\ unread <= Len(data)
        BY <1>1, <1>4
    <3> QED
        BY <1>1, <3>1, <3>2
  <2>2. f \in Seq(Cells) /\ Len(f) = Len(data)
    <3>1. ASSUME NEW i \in 1 .. Len(data)
          PROVE  f[i] \in Cells
      <4>1. Nul \in Cells
          BY ConstantsOK DEF Nul, Cells, Kinds
      <4>2. ASSUME i <= unread
            PROVE  data[readIndex + i] \in Cells
        <5>1. readIndex + i \in 1 .. Len(data)
            BY <1>1, <2>1, <4>2
        <5> QED
            BY <1>1, <5>1
      <4>3. data[i] \in Cells
          BY <1>1
      <4> HIDE DEF unread
      <4>4. f[i] = IF i <= unread THEN data[readIndex + i]
                   ELSE IF unread = 0 /\ i <= writeIndex THEN Nul
                   ELSE data[i]
          BY <1>1
      <4> HIDE DEF f
      <4> QED
          BY <4>1, <4>2, <4>3, <4>4
    <3>2. f \in [1 .. Len(data) -> Cells]
        BY <1>1, <3>1
    <3> HIDE DEF f
    <3> QED
        BY <1>1, <3>2, FunctionSeq
  <2>3. CASE unread = 0 /\ writeIndex = Len(data)
    <3>1. data' = <<>>
        BY <1>2, <1>4, <2>3
    <3>2. data' \in Seq(Cells) /\ Len(data') = 0
        BY <3>1, EmptySeq
    <3>3. writeIndex' = 0 /\ moved' = moved
        BY <1>1, <1>2, <2>1, <2>3
    <3>4. \A p \in writeIndex' + 1 .. Len(data') : FALSE
        BY <3>2, <3>3
    <3>5. readIndex' = 0 /\ checkIndex' = 0
        BY <1>2
    <3>6. moved' \in BOOLEAN /\ (moved => moved')
        BY <1>1, <3>3
    <3> QED
        BY <2>1, <3>2, <3>3, <3>4, <3>5, <3>6
  <2>4. CASE ~(unread = 0 /\ writeIndex = Len(data))
    <3>1. data' = f
        BY <1>2, <1>4, <2>4
    <3>2. data' \in Seq(Cells) /\ Len(data') = Len(data)
        BY <2>2, <3>1
    <3>3. ASSUME ~moved', NEW p \in writeIndex' + 1 .. Len(data')
          PROVE  data'[p].kind \notin {"crlf", "lf"}
      <4>1. ~moved /\ unread = 0
          BY <1>1, <1>2, <3>3
      <4>2. p \in 1 .. Len(data) /\ ~(p <= unread)
          BY <1>1, <2>1, <3>2, <4>1
      <4>3. data'[p] = IF p <= writeIndex THEN Nul ELSE data[p]
          BY <1>1, <3>1, <4>1, <4>2
      <4>4. CASE p <= writeIndex
          BY <4>3, <4>4 DEF Nul
      <4>5. CASE ~(p <= writeIndex)
        <5>1. p \in writeIndex + 1 .. Len(data)
            BY <1>1, <4>2, <4>5
        <5>2. data[p].kind \notin {"crlf", "lf"}
            BY <4>1, <5>1 DEF IndexInv
        <5> QED
            BY <4>3, <4>5, <5>2
      <4> QED
          BY <4>4, <4>5
    <3>4. writeIndex' \in Nat /\ writeIndex' <= Len(data')
        BY <2>1, <3>2
    <3>5. moved' \in BOOLEAN /\ (moved => moved')
        BY <1>1, <1>2
    <3> QED
        BY <1>2, <2>1, <3>2, <3>3, <3>4, <3>5
  <2> QED
      BY <2>3, <2>4
<1> QED
    BY <1>3, <1>4

\* An answer with keep-alive, and init().
LEMMA KeepTypes == IndexInv /\ RespondAndKeep => IndexInv'
<1> SUFFICES ASSUME IndexInv, RespondAndKeep
             PROVE  IndexInv'
    OBVIOUS
<1>1. /\ answers' = Responded /\ InitBuffer
      /\ pc' = IF readIndex <= writeIndex THEN "idle" ELSE "undefined"
      /\ UNCHANGED <<clientVars, readVars, parseVars, ret, state>>
    BY DEF RespondAndKeep
<1>2. answers' \in Seq([req : 0 .. MaxRequests, code : Codes, linger : BOOLEAN,
                        got : Nat])
    BY <1>1, RespondedTypes DEF Answer
<1>3. /\ data' \in Seq(Cells) /\ moved' \in BOOLEAN
      /\ readIndex' = 0 /\ checkIndex' = 0
      /\ writeIndex' \in Nat /\ writeIndex' <= Len(data')
      /\ ~(readIndex <= writeIndex) => moved'
      /\ ~moved' => \A p \in writeIndex' + 1 .. Len(data') :
                      data'[p].kind \notin {"crlf", "lf"}
    BY <1>1, InitBufferTypes
<1>4. /\ readIndex' \in Nat /\ checkIndex' \in Nat /\ checkIndex' <= readIndex'
      /\ readIndex' <= writeIndex'
    BY <1>3
<1>5. /\ pc' \in {"idle", "parse", "respond", "undefined"}
      /\ pc' = "undefined" => moved'
    BY <1>1, <1>3
<1>6. TypeOK'
    BY <1>1, <1>2, <1>3, <1>4, <1>5
    DEF IndexInv, TypeOK, clientVars, readVars, parseVars
<1> QED
    BY <1>3, <1>4, <1>6 DEF IndexInv

------------------------------------------------------------------------------
(* Every step.                                                             *)

\* The strengthened invariant is kept.
LEMMA IndexStep == IndexInv /\ [Next]_vars => IndexInv'
<1> SUFFICES ASSUME IndexInv, [Next]_vars
             PROVE  IndexInv'
    OBVIOUS
<1>1. ASSUME NEW request \in Requests, Send(request)
      PROVE  IndexInv'
    BY <1>1, SendTypes
<1>2. ASSUME NEW k \in 1 .. Len(stream), HandleRead(k)
      PROVE  IndexInv'
    BY <1>2, ReadTypes
<1>3. CASE ParseRequestLine
    BY <1>3, RequestLineTypes
<1>4. CASE ParseHeader
    BY <1>4, HeaderTypes
<1>5. CASE ParseEndOfHeader
    BY <1>5, EndOfHeaderTypes
<1>6. CASE ParseContent
    BY <1>6, ContentTypes
<1>7. CASE ParseNoLine
    BY <1>7, NoLineTypes
<1>8. CASE RespondAndShutdown
    BY <1>8, ShutdownTypes
<1>9. CASE RespondAndKeep
    BY <1>9, KeepTypes
<1>10. CASE UNCHANGED vars
    BY <1>10
    DEF IndexInv, TypeOK, vars, clientVars, readVars, bufVars, parseVars, connVars
<1> QED
    BY <1>1, <1>2, <1>3, <1>4, <1>5, <1>6, <1>7, <1>8, <1>9, <1>10
    DEF Next, ParseMain

\* The types, and the indices of inbuffer are in order up to the first time
\* that init() has found unread bytes.
THEOREM TypeCorrect == Spec => []TypeOK
<1>1. IndexInv => TypeOK
    BY DEF IndexInv
<1> QED
    BY <1>1, InitIndex, IndexStep, PTL DEF Spec

------------------------------------------------------------------------------
(* Complete requests.                                                      *)

\* Where request n begins in stream.
Start(n) == IF n = 1 THEN 0 ELSE ends[n - 1]

\* An empty line, and a line with the Content-Length, by their last and first
\* cells.
EmptyLine(e) == stream[e - 1].kind = "crlf" /\ stream[e].kind = "crlf"
LenLine(i) == stream[i - 1].kind = "crlf" /\ stream[i].kind = "len"

\* RequestsFramed, of what has been sent.
Framing ==
  /\ Len(stream) = Start(Len(ends) + 1)
  /\ \A p \in 1 .. Len(stream) :
       /\ stream[p].kind # "nul"
       /\ stream[p].kind = "get" =>
            stream[p].req \in 1 .. Len(ends) /\ p = Start(stream[p].req) + 1
  /\ \A n \in 1 .. Len(ends) : \A e \in Start(n) + 2 .. ends[n] :
       EmptyLine(e) =>
         /\ ends[n] <= e + BodyLen
         /\ (\A i \in Start(n) + 2 .. e : ~LenLine(i)) => ends[n] <= e

\* Where the first byte of inbuffer was in stream.
Base == got - writeIndex

\* parse_main() is among the headers of a request that begins where inbuffer
\* does, and has seen the Content-Length if there was one.
InHeader ==
  /\ current \in 1 .. Len(ends) /\ Base = Start(current)
  /\ readIndex > 0 /\ stream[Base + readIndex].kind = "crlf"
  /\ contentLength = BodyLen \/ \A i \in 2 .. readIndex : ~LenLine(Base + i)

\* What is parsed, until init() has found unread bytes or the connection is
\* shut down: inbuffer is empty between two reads, what the parser looks at
\* next is what was sent, and what it is about to answer has been read.
Parsed ==
  /\ writeIndex <= got
  /\ pc = "idle" => writeIndex = 0 /\ readIndex = 0 /\ checkIndex = 0
  /\ pc = "parse" /\ checkstate # "CONTENT" =>
       /\ checkIndex = readIndex
       /\ \A j \in readIndex + 1 .. writeIndex : data[j] = stream[Base + j]
  /\ pc = "parse" /\ checkstate = "REQUESTLINE" => readIndex = 0
  /\ pc = "parse" /\ checkstate = "HEADER" => InHeader
  /\ pc = "parse" /\ checkstate = "CONTENT" =>
       /\ current \in 1 .. Len(ends)
       /\ ends[current] <= Base + checkIndex + contentLength
  /\ pc = "respond" /\ ret \notin {"OPEN_REQUEST", "MALFORMED"} =>
       current \in 1 .. Len(ends) /\ ends[current] <= got

\* NotBeforeComplete, of requests that were sent.
Complete ==
  \A i \in 1 .. Len(answers) : answers[i].code # "MALFORMED" =>
    /\ answers[i].req \in 1 .. Len(ends)
    /\ answers[i].got >= ends[answers[i].req]

\* Where a request begins is a number.
LEMMA StartTypes ==
  ASSUME IndexInv
  PROVE  \A n \in 1 .. Len(ends) : Start(n) \in Nat
<1>1. Len(ends) \in Nat /\ \A n \in 1 .. Len(ends) : ends[n] \in 1 .. Len(stream)
    BY ElementOfSeq, LenProperties DEF IndexInv, TypeOK
<1>2. ASSUME NEW n \in 1 .. Len(ends)
      PROVE  Start(n) \in Nat
  <2>1. n # 1 => n - 1 \in 1 .. Len(ends)
      BY <1>1
  <2> QED
      BY <1>1, <2>1 DEF Start
<1> QED
    BY <1>2

\* The indices into stream that stand for cells of inbuffer.
LEMMA BaseTypes ==
  ASSUME IndexInv, Parsed
  PROVE  /\ Base \in Nat /\ got \in Nat /\ writeIndex \in Nat /\ readIndex \in Nat
         /\ Base + writeIndex = got /\ got <= Len(stream) /\ Len(stream) \in Nat
<1>1. got \in 0 .. Len(stream) /\ Len(stream) \in Nat
    BY LenProperties DEF IndexInv, TypeOK
<1>2. writeIndex \in Nat /\ readIndex \in Nat /\ writeIndex <= got
    BY DEF IndexInv, Parsed
<1> QED
    BY <1>1, <1>2 DEF Base

\* A line that parse_line() finds is a line of what was sent, and the text the
\* parser looks at is its text.
LEMMA LineCells ==
  ASSUME IndexInv, Framing, ~moved, Parsed, pc = "parse", checkstate # "CONTENT",
         LineOk
  PROVE  /\ LineEnd \in Nat /\ readIndex < LineEnd /\ LineEnd <= writeIndex
         /\ stream[Base + LineEnd].kind = "crlf"
         /\ \A j \in readIndex + 1 .. LineEnd - 1 :
              stream[Base + j].kind \notin {"crlf", "lf"}
         /\ Text = <<>> => LineEnd = readIndex + 1
         /\ Text # <<>> => Text[1] = stream[Base + (readIndex + 1)]
<1>1. /\ LineEnds # {} /\ data[LineEnd].kind = "crlf"
    BY DEF LineOk
<1>2. /\ LineEnd \in LineEnds /\ \A q \in LineEnds : LineEnd <= q
      /\ LineEnd \in Nat /\ readIndex < LineEnd /\ LineEnd <= Len(data)
      /\ LineEnd <= writeIndex
    BY <1>1, LineFound
<1>3. /\ Base \in Nat /\ writeIndex \in Nat /\ readIndex \in Nat /\ got \in Nat
      /\ Base + writeIndex = got /\ got <= Len(stream) /\ Len(stream) \in Nat
    BY BaseTypes
<1>4. /\ checkIndex = readIndex
      /\ \A j \in readIndex + 1 .. writeIndex : data[j] = stream[Base + j]
    BY DEF Parsed
<1>5. Len(data) \in Nat /\ writeIndex <= Len(data)
    BY LenProperties DEF IndexInv, TypeOK
<1> HIDE DEF Base
<1>6. LineEnd \in readIndex + 1 .. writeIndex
    BY <1>2, <1>3
<1>7. stream[Base + LineEnd].kind = "crlf"
    BY <1>1, <1>4, <1>6
<1>8. ASSUME NEW j \in readIndex + 1 .. LineEnd - 1
      PROVE  stream[Base + j].kind \notin {"crlf", "lf"}
  <2>1. /\ j \in readIndex + 1 .. writeIndex /\ j \in readIndex + 1 .. Len(data)
        /\ ~(LineEnd <= j)
      BY <1>2, <1>3, <1>5
  <2>2. j \notin LineEnds
      BY <1>2, <2>1
  <2>3. data[j].kind \notin {"crlf", "lf"}
      BY <2>1, <2>2 DEF LineEnds
  <2> QED
      BY <1>4, <2>1, <2>3
<1> DEFINE first == readIndex + 1
<1>9. /\ first \in readIndex + 1 .. writeIndex /\ first \in 1 .. Len(data)
      /\ Base + first \in 1 .. Len(stream) /\ checkIndex + 1 = first
    BY <1>2, <1>3, <1>4, <1>5
<1>10. /\ data[first] = stream[Base + first] /\ data[first].kind # "nul"
    BY <1>4, <1>9 DEF Framing
<1>11. /\ Text # <<>> => Text[1] = DataAfterLine[first]
       /\ Text = <<>> <=> DataAfterLine[first].kind = "nul"
    BY <1>1, <1>9, TextTypes
<1>12. DataAfterLine[first] = IF first = LineEnd THEN Nul ELSE data[first]
    BY <1>1, <1>9, AfterLine
<1> HIDE DEF first, Text
<1>13. Text = <<>> <=> first = LineEnd
    BY <1>10, <1>11, <1>12 DEF Nul
<1>14. Text # <<>> => Text[1] = stream[Base + first]
    BY <1>10, <1>11, <1>12, <1>13
<1> QED
    BY <1>2, <1>7, <1>8, <1>13, <1>14 DEF first

\* Framing says nothing of what has been read.
LEMMA FramingKept == Framing /\ UNCHANGED clientVars => Framing'
    BY DEF Framing, Start, EmptyLine, LenLine, clientVars

\* A request that is framed keeps the stream framed.
LEMMA FramingSend ==
  ASSUME IndexInv, Framing, NEW request \in Requests, Send(request)
  PROVE  Framing'
<1> SUFFICES ASSUME NEW L, NEW m, NEW k,
                    L = Len(stream), m = Len(ends), k = Len(request)
             PROVE  Framing'
    OBVIOUS
<1>1. /\ L \in Nat /\ m \in Nat /\ k \in Nat \ {0}
      /\ request \in Seq(Kinds \ {"nul"})
      /\ Len(stream') = L + k /\ Len(ends') = m + 1 /\ ends'[m + 1] = L + k
      /\ \A p \in 1 .. L : stream'[p] = stream[p]
      /\ \A i \in 1 .. k : stream'[L + i] = [kind |-> request[i], req |-> m + 1]
      /\ \A n \in 1 .. m : ends'[n] = ends[n]
    BY Sent
<1>2. \A n \in 1 .. m : ends[n] \in 1 .. L
    BY ElementOfSeq DEF IndexInv, TypeOK
<1>3. /\ \A i \in 1 .. k : request[i] # "nul" /\ (request[i] = "get" => i = 1)
      /\ \A e \in 2 .. k : request[e - 1] = "crlf" /\ request[e] = "crlf" =>
           \/ k = e
           \/ /\ k <= e + BodyLen
              /\ \E i \in 2 .. e : request[i - 1] = "crlf" /\ request[i] = "len"
  <2>1. \A i \in 1 .. k : request[i] # "nul"
      BY <1>1, ElementOfSeq
  <2>2. DOMAIN request = 1 .. k
      BY <1>1, LenProperties
  <2>3. \A i \in 1 .. k : request[i] = "get" => i = 1
      BY <2>2, RequestsFramed
  <2>4. ASSUME NEW e \in 2 .. k, request[e - 1] = "crlf" /\ request[e] = "crlf"
        PROVE  \/ k = e
               \/ /\ k <= e + BodyLen
                  /\ \E i \in 2 .. e : request[i - 1] = "crlf" /\ request[i] = "len"
    <3>1. e \in DOMAIN request /\ e > 1
        BY <1>1, <2>2
    <3> QED
        BY <2>4, <3>1, RequestsFramed
  <2> QED
      BY <2>1, <2>3, <2>4
<1>4. L = Start(m + 1)
    BY DEF Framing
<1>5. \A n \in 1 .. m + 1 : Start(n)' = Start(n)
  <2> SUFFICES ASSUME NEW n \in 1 .. m + 1
               PROVE  Start(n)' = Start(n)
      OBVIOUS
  <2>1. Start(n) = IF n = 1 THEN 0 ELSE ends[n - 1]
      BY DEF Start
  <2>2. Start(n)' = IF n = 1 THEN 0 ELSE ends'[n - 1]
      BY DEF Start
  <2>3. n # 1 => n - 1 \in 1 .. m
      BY <1>1
  <2> QED
      BY <1>1, <2>1, <2>2, <2>3
<1>6. Len(stream') = Start(Len(ends) + 1)'
  <2>1. Start(Len(ends) + 1)' = ends'[m + 1]
    <3>1. (m + 1) + 1 # 1 /\ ((m + 1) + 1) - 1 = m + 1
        BY <1>1
    <3> QED
        BY <1>1, <3>1 DEF Start
  <2> QED
      BY <1>1, <2>1
<1>7. ASSUME NEW p \in 1 .. Len(stream')
      PROVE  /\ stream'[p].kind # "nul"
             /\ stream'[p].kind = "get" =>
                  /\ stream'[p].req \in 1 .. Len(ends')
                  /\ p = Start(stream[p].req)' + 1
  <2>1. CASE p <= L
    <3>1. p \in 1 .. L /\ stream'[p] = stream[p]
        BY <1>1, <2>1
    <3>2. /\ stream[p].kind # "nul"
          /\ stream[p].kind = "get" =>
               stream[p].req \in 1 .. m /\ p = Start(stream[p].req) + 1
        BY <3>1 DEF Framing
    <3>3. \A n \in 1 .. m : n \in 1 .. m + 1
        BY <1>1
    <3>4. ASSUME stream[p].kind = "get"
          PROVE  Start(stream[p].req)' = Start(stream[p].req)
        BY <1>5, <3>1, <3>2, <3>3, <3>4 DEF Start
    <3> QED
        BY <1>1, <3>1, <3>2, <3>3, <3>4
  <2>2. CASE ~(p <= L)
    <3> DEFINE i == p - L
    <3>1. i \in 1 .. k /\ L + i = p
        BY <1>1, <2>2
    <3> HIDE DEF i
    <3>2. stream'[L + i] = [kind |-> request[i], req |-> m + 1]
        BY <1>1, <3>1
    <3>3. stream'[p].kind = request[i] /\ stream'[p].req = m + 1
        BY <3>1, <3>2
    <3>4. m + 1 \in 1 .. Len(ends') /\ m + 1 \in 1 .. m + 1
        BY <1>1
    <3>5. request[i] = "get" => p = L + 1
        BY <1>3, <3>1
    <3> QED
        BY <1>3, <1>4, <1>5, <3>1, <3>3, <3>4, <3>5
  <2> QED
      BY <2>1, <2>2
<1>8. ASSUME NEW n \in 1 .. m, NEW e \in Start(n) + 2 .. ends[n],
             EmptyLine(e)'
      PROVE  /\ ends[n] <= e + BodyLen
             /\ (\A i \in Start(n) + 2 .. e : ~LenLine(i)') => ends[n] <= e
  <2>1. Start(n) \in Nat /\ ends[n] \in 1 .. L
    <3>1. n # 1 => n - 1 \in 1 .. m
        BY <1>1
    <3> QED
        BY <1>1, <1>2, <3>1 DEF Start
  <2>2. \A i \in Start(n) + 2 .. e : i \in 1 .. L /\ i - 1 \in 1 .. L
      BY <1>1, <2>1
  <2>3. \A i \in Start(n) + 2 .. e : LenLine(i)' <=> LenLine(i)
      BY <1>1, <2>2 DEF LenLine
  <2>4. e \in Start(n) + 2 .. e
      BY <2>1
  <2>5. EmptyLine(e)
      BY <1>1, <1>8, <2>2, <2>4 DEF EmptyLine
  <2> QED
      BY <2>3, <2>5 DEF Framing
<1>9. ASSUME NEW e \in L + 2 .. L + k, EmptyLine(e)'
      PROVE  /\ L + k <= e + BodyLen
             /\ (\A i \in L + 2 .. e : ~LenLine(i)') => L + k <= e
  <2> DEFINE d == e - L
  <2>1. d \in 2 .. k /\ d - 1 \in 1 .. k /\ d \in 1 .. k
        /\ L + d = e /\ L + (d - 1) = e - 1
      BY <1>1
  <2> HIDE DEF d
  <2>2. request[d - 1] = "crlf" /\ request[d] = "crlf"
    <3>1. stream'[e - 1].kind = "crlf" /\ stream'[e].kind = "crlf"
        BY <1>9 DEF EmptyLine
    <3>2. stream'[e] = [kind |-> request[d], req |-> m + 1]
        BY <1>1, <2>1
    <3>3. stream'[e - 1] = [kind |-> request[d - 1], req |-> m + 1]
        BY <1>1, <2>1
    <3> QED
        BY <3>1, <3>2, <3>3
  <2>3. CASE k = d
    <3>1. L + k <= e /\ L + k <= e + BodyLen
        BY <1>1, <2>1, <2>3, ConstantsOK
    <3> QED
        BY <3>1
  <2>4. CASE /\ k <= d + BodyLen
             /\ \E i \in 2 .. d : request[i - 1] = "crlf" /\ request[i] = "len"
    <3>1. L + k <= e + BodyLen
        BY <1>1, <2>1, <2>4, ConstantsOK
    <3>2. PICK i \in 2 .. d : request[i - 1] = "crlf" /\ request[i] = "len"
        BY <2>4
    <3>3. /\ L + i \in L + 2 .. e /\ i \in 1 .. k /\ i - 1 \in 1 .. k
          /\ L + (i - 1) = (L + i) - 1
        BY <1>1, <2>1
    <3>4. stream'[L + i].kind = "len" /\ stream'[(L + i) - 1].kind = "crlf"
      <4>1. stream'[L + i] = [kind |-> request[i], req |-> m + 1]
          BY <1>1, <3>3
      <4>2. stream'[L + (i - 1)] = [kind |-> request[i - 1], req |-> m + 1]
          BY <1>1, <3>3
      <4>3. stream'[L + i].kind = "len"
          BY <3>2, <4>1
      <4>4. stream'[L + (i - 1)].kind = "crlf"
          BY <3>2, <4>2
      <4> QED
          BY <3>3, <4>3, <4>4
    <3>5. LenLine(L + i)'
        BY <3>4 DEF LenLine
    <3> QED
        BY <3>1, <3>3, <3>5
  <2> QED
      BY <1>3, <2>1, <2>2, <2>3, <2>4
<1>10. ASSUME NEW n \in 1 .. Len(ends'), NEW e \in Start(n)' + 2 .. ends'[n],
              EmptyLine(e)'
       PROVE  /\ ends'[n] <= e + BodyLen
              /\ (\A i \in Start(n)' + 2 .. e : ~LenLine(i)') => ends'[n] <= e
  <2>1. n \in 1 .. m + 1 /\ Start(n)' = Start(n)
      BY <1>1, <1>5
  <2>2. CASE n = m + 1
    <3>1. Start(n)' = L /\ ends'[n] = L + k
        BY <1>1, <1>4, <2>1, <2>2
    <3> QED
        BY <1>9, <1>10, <3>1
  <2>3. CASE n # m + 1
    <3>1. n \in 1 .. m
        BY <1>1, <2>1, <2>3
    <3>2. ends'[n] = ends[n]
        BY <1>1, <3>1
    <3> QED
        BY <1>8, <1>10, <2>1, <3>1, <3>2
  <2> QED
      BY <2>2, <2>3
<1> QED
    BY <1>6, <1>7, <1>10 DEF Framing

\* What the client sends meanwhile is behind all that.
LEMMA ParsedSend ==
  ASSUME IndexInv, ~moved, Parsed, NEW request \in Requests, Send(request)
  PROVE  Parsed'
<1>1. /\ UNCHANGED <<readVars, bufVars, pc, parseVars, ret>>
      /\ got' = got /\ data' = data /\ writeIndex' = writeIndex
      /\ readIndex' = readIndex /\ checkIndex' = checkIndex /\ pc' = pc
      /\ checkstate' = checkstate /\ contentLength' = contentLength
      /\ current' = current /\ ret' = ret /\ Base' = Base
    BY DEF Send, readVars, bufVars, parseVars, Base
<1>2. /\ Len(stream) \in Nat /\ Len(ends) \in Nat /\ Len(ends') = Len(ends) + 1
      /\ \A p \in 1 .. Len(stream) : stream'[p] = stream[p]
      /\ \A n \in 1 .. Len(ends) : ends'[n] = ends[n]
    BY Sent
<1>3. /\ Base \in Nat /\ got \in Nat /\ writeIndex \in Nat /\ readIndex \in Nat
      /\ Base + writeIndex = got /\ got <= Len(stream)
    BY BaseTypes
<1> HIDE DEF Base
<1>4. \A j \in 1 .. writeIndex : Base + j \in 1 .. Len(stream)
    BY <1>2, <1>3
<1>5. ASSUME pc = "parse", checkstate # "CONTENT",
             NEW j \in readIndex + 1 .. writeIndex
      PROVE  data[j] = stream'[Base + j]
  <2>1. j \in 1 .. writeIndex
      BY <1>3
  <2> QED
      BY <1>2, <1>4, <1>5, <2>1 DEF Parsed
<1>6. ASSUME NEW n \in 1 .. Len(ends)
      PROVE  n \in 1 .. Len(ends') /\ ends'[n] = ends[n]
  <2>1. n \in 1 .. Len(ends')
      BY <1>2
  <2> QED
      BY <1>2, <2>1
<1>7. ASSUME pc = "parse", checkstate = "HEADER"
      PROVE  InHeader'
  <2>1. /\ current \in 1 .. Len(ends) /\ Base = Start(current) /\ readIndex > 0
        /\ stream[Base + readIndex].kind = "crlf"
        /\ contentLength = BodyLen \/ \A i \in 2 .. readIndex : ~LenLine(Base + i)
      BY <1>7 DEF Parsed, InHeader
  <2>2. readIndex <= writeIndex
      BY DEF IndexInv, TypeOK
  <2>3. Start(current)' = Start(current)
    <3>1. current # 1 => current - 1 \in 1 .. Len(ends)
        BY <1>2, <2>1
    <3> QED
        BY <1>1, <1>2, <3>1 DEF Start
  <2>4. stream'[Base + readIndex] = stream[Base + readIndex]
    <3>1. readIndex \in 1 .. writeIndex
        BY <1>3, <2>1, <2>2
    <3> QED
        BY <1>2, <1>4, <3>1
  <2>5. ASSUME NEW i \in 2 .. readIndex
        PROVE  LenLine(Base + i)' <=> LenLine(Base + i)
    <3>1. /\ i \in 1 .. writeIndex /\ i - 1 \in 1 .. writeIndex
          /\ Base + (i - 1) = (Base + i) - 1
        BY <1>3, <2>2
    <3>2. /\ stream'[Base + i] = stream[Base + i]
          /\ stream'[Base + (i - 1)] = stream[Base + (i - 1)]
        BY <1>2, <1>4, <3>1
    <3>3. stream'[(Base + i) - 1] = stream[(Base + i) - 1]
        BY <3>1, <3>2
    <3> QED
        BY <1>1, <3>2, <3>3 DEF LenLine
  <2>6. contentLength' = BodyLen \/ \A i \in 2 .. readIndex' : ~LenLine(Base + i)'
      BY <1>1, <2>1, <2>5
  <2>7. current' \in 1 .. Len(ends') /\ Base' = Start(current)' /\ readIndex' > 0
      BY <1>1, <1>6, <2>1, <2>3
  <2>8. stream'[Base' + readIndex'].kind = "crlf"
      BY <1>1, <2>1, <2>4
  <2> QED
      BY <2>6, <2>7, <2>8 DEF InHeader
<1>8. ASSUME pc = "parse", checkstate = "CONTENT"
      PROVE  /\ current' \in 1 .. Len(ends')
             /\ ends'[current'] <= Base' + checkIndex' + contentLength'
  <2>1. /\ current \in 1 .. Len(ends)
        /\ ends[current] <= Base + checkIndex + contentLength
      BY <1>8 DEF Parsed
  <2>2. current \in 1 .. Len(ends') /\ ends'[current] = ends[current]
      BY <1>6, <2>1
  <2> QED
      BY <1>1, <2>1, <2>2
<1>9. ASSUME pc = "respond", ret \notin {"OPEN_REQUEST", "MALFORMED"}
      PROVE  current' \in 1 .. Len(ends') /\ ends'[current'] <= got'
  <2>1. current \in 1 .. Len(ends) /\ ends[current] <= got
      BY <1>9 DEF Parsed
  <2>2. current \in 1 .. Len(ends') /\ ends'[current] = ends[current]
      BY <1>6, <2>1
  <2> QED
      BY <1>1, <2>1, <2>2
<1>10. /\ writeIndex <= got
       /\ pc = "idle" => writeIndex = 0 /\ readIndex = 0 /\ checkIndex = 0
       /\ pc = "parse" /\ checkstate # "CONTENT" => checkIndex = readIndex
       /\ pc = "parse" /\ checkstate = "REQUESTLINE" => readIndex = 0
    BY DEF Parsed
<1> QED
    BY <1>1, <1>5, <1>7, <1>8, <1>9, <1>10 DEF Parsed

\* A read finds inbuffer empty.
LEMMA ParsedRead ==
  ASSUME IndexInv, Parsed, NEW k \in 1 .. Len(stream), HandleRead(k)
  PROVE  Parsed'
<1>1. /\ pc = "idle" /\ pc' = "parse" /\ checkstate' = "REQUESTLINE"
      /\ readIndex' = readIndex /\ checkIndex' = checkIndex
      /\ stream' = stream
    BY DEF HandleRead, clientVars
<1>2. writeIndex = 0 /\ readIndex = 0 /\ checkIndex = 0
    BY <1>1 DEF Parsed
<1>3. /\ got' = got + k /\ got \in Nat /\ k \in Nat \ {0}
      /\ writeIndex' = writeIndex + k
      /\ \A p \in writeIndex + 1 .. writeIndex + k :
           data'[p] = stream[got + (p - writeIndex)]
    BY ReadData
<1>4. writeIndex' = k /\ Base' = got /\ writeIndex' <= got'
    BY <1>2, <1>3 DEF Base
<1>5. ASSUME NEW j \in readIndex' + 1 .. writeIndex'
      PROVE  data'[j] = stream'[Base' + j]
  <2>1. j \in writeIndex + 1 .. writeIndex + k /\ j - writeIndex = j
      BY <1>1, <1>2, <1>3, <1>4
  <2> QED
      BY <1>1, <1>3, <1>4, <2>1
<1> QED
    BY <1>1, <1>2, <1>4, <1>5 DEF Parsed

\* What no line of the parser touches.
LEMMA LineKeeps ==
  ASSUME IndexInv, Framing, ~moved, Parsed, checkstate # "CONTENT", TakeLine
  PROVE  /\ stream' = stream /\ ends' = ends /\ got' = got
         /\ writeIndex' = writeIndex /\ Base' = Base
         /\ readIndex' = LineEnd /\ checkIndex' = readIndex' /\ writeIndex' <= got'
         /\ \A j \in readIndex' + 1 .. writeIndex' :
              data'[j] = stream'[Base' + j]
<1>1. /\ LineOk /\ LineEnds # {} /\ pc = "parse"
      /\ data' = DataAfterLine /\ readIndex' = LineEnd /\ checkIndex' = LineEnd
      /\ stream' = stream /\ ends' = ends /\ got' = got
      /\ writeIndex' = writeIndex
    BY DEF TakeLine, LineOk, CheckFinish, clientVars, readVars
<1>2. Base' = Base /\ writeIndex' <= got'
    BY <1>1 DEF Base, Parsed
<1>3. /\ LineEnd \in Nat /\ readIndex < LineEnd /\ LineEnd <= writeIndex
    BY <1>1, LineCells
<1>4. /\ writeIndex \in Nat /\ readIndex \in Nat /\ Len(data) \in Nat
      /\ writeIndex <= Len(data)
    BY LenProperties DEF IndexInv, TypeOK
<1>5. ASSUME NEW j \in readIndex' + 1 .. writeIndex'
      PROVE  data'[j] = stream'[Base' + j]
  <2>1. /\ j \in readIndex + 1 .. writeIndex /\ j \in 1 .. Len(data)
        /\ j # LineEnd
      BY <1>1, <1>3, <1>4
  <2>2. data'[j] = data[j]
      BY <1>1, <2>1, AfterLine
  <2>3. data[j] = stream[Base + j]
      BY <1>1, <2>1 DEF Parsed
  <2> QED
      BY <1>1, <1>2, <2>2, <2>3
<1> QED
    BY <1>1, <1>2, <1>5

\* The text of a line begins with the Content-Length, or none of its cells is
\* the start of one.
LEMMA NoOtherLen ==
  ASSUME IndexInv, Framing, ~moved, Parsed, pc = "parse", checkstate # "CONTENT",
         LineOk, NEW i \in readIndex + 2 .. LineEnd
  PROVE  ~LenLine(Base + i)
<1>1. LineEnd \in Nat /\ readIndex \in Nat /\ Base \in Nat
    BY LineCells, BaseTypes
<1> HIDE DEF Base
<1>2. i - 1 \in readIndex + 1 .. LineEnd - 1 /\ Base + (i - 1) = (Base + i) - 1
    BY <1>1
<1>3. stream[Base + (i - 1)].kind # "crlf"
    BY <1>2, LineCells
<1> QED
    BY <1>2, <1>3 DEF LenLine

\* A request line, at the start of inbuffer: a request begins there.
LEMMA ParsedRequestLine ==
  ASSUME IndexInv, Framing, ~moved, Parsed, ParseRequestLine
  PROVE  Parsed'
<1>1. /\ TakeLine /\ LineOk /\ pc = "parse" /\ checkstate = "REQUESTLINE"
      /\ checkstate # "CONTENT"
    BY DEF ParseRequestLine, TakeLine
<1>2. /\ stream' = stream /\ ends' = ends /\ got' = got
      /\ writeIndex' = writeIndex /\ Base' = Base
      /\ readIndex' = LineEnd /\ checkIndex' = readIndex' /\ writeIndex' <= got'
      /\ \A j \in readIndex' + 1 .. writeIndex' :
           data'[j] = stream'[Base' + j]
    BY <1>1, LineKeeps
<1>3. CASE TextIs("get")
  <2>1. /\ checkstate' = "HEADER" /\ pc' = pc /\ Text # <<>>
        /\ Text[1].kind = "get" /\ current' = Text[1].req
      BY <1>3 DEF ParseRequestLine, TextIs
  <2>2. /\ LineEnd \in Nat /\ 0 < LineEnd /\ LineEnd <= writeIndex /\ readIndex = 0
        /\ stream[Base + LineEnd].kind = "crlf"
        /\ Text # <<>> => Text[1] = stream[Base + (0 + 1)]
      BY <1>1, LineCells DEF Parsed
  <2> HIDE DEF Text
  <2>3. /\ Base \in Nat /\ writeIndex \in Nat /\ Base + writeIndex = got
        /\ got <= Len(stream) /\ Len(stream) \in Nat /\ got \in Nat
      BY BaseTypes
  <2> HIDE DEF Base
  <2>4. Base + 1 \in 1 .. Len(stream)
      BY <2>2, <2>3
  <2>5. /\ stream[Base + 1].kind = "get" /\ current' = stream[Base + 1].req
      BY <2>1, <2>2
  <2>6. current' \in 1 .. Len(ends) /\ Base + 1 = Start(current') + 1
      BY <2>4, <2>5 DEF Framing
  <2>7. Start(current)' = Start(current')
      BY <1>2 DEF Start
  <2>8. Base = Start(current')
    <3>1. Start(current') \in Int
        BY <2>6, StartTypes
    <3> QED
        BY <2>3, <2>6, <3>1
  <2>9. \A i \in 2 .. LineEnd : ~LenLine(Base + i)
    <3>1. readIndex + 2 = 2
        BY <2>2
    <3> QED
        BY <1>1, <3>1, NoOtherLen
  <2>10. \A i \in 2 .. readIndex' : ~LenLine(Base + i)'
      BY <1>2, <2>9 DEF LenLine
  <2>11. InHeader'
      BY <1>2, <2>2, <2>6, <2>7, <2>8, <2>10 DEF InHeader
  <2> QED
      BY <1>1, <1>2, <2>1, <2>11 DEF Parsed
<1>4. CASE ~TextIs("get")
  <2>1. pc' = "respond" /\ ret' = "MALFORMED"
      BY <1>4 DEF ParseRequestLine
  <2> QED
      BY <1>2, <2>1 DEF Parsed
<1> QED
    BY <1>3, <1>4

\* A header: its text, if it begins with the Content-Length, is seen.
LEMMA ParsedHeader ==
  ASSUME IndexInv, Framing, ~moved, Parsed, ParseHeader
  PROVE  Parsed'
<1>1. /\ TakeLine /\ LineOk /\ pc = "parse" /\ checkstate = "HEADER"
      /\ checkstate # "CONTENT" /\ Text # <<>> /\ current' = current
      /\ pc' = pc /\ checkstate' = checkstate
      /\ contentLength' = IF TextIs("len") THEN BodyLen ELSE contentLength
    BY DEF ParseHeader, TakeLine
<1>2. /\ stream' = stream /\ ends' = ends /\ got' = got
      /\ writeIndex' = writeIndex /\ Base' = Base
      /\ readIndex' = LineEnd /\ checkIndex' = readIndex' /\ writeIndex' <= got'
      /\ \A j \in readIndex' + 1 .. writeIndex' :
           data'[j] = stream'[Base' + j]
    BY <1>1, LineKeeps
<1>3. /\ LineEnd \in Nat /\ readIndex < LineEnd /\ LineEnd <= writeIndex
      /\ stream[Base + LineEnd].kind = "crlf"
      /\ Text # <<>> => Text[1] = stream[Base + (readIndex + 1)]
    BY <1>1, LineCells
<1>4. InHeader
    BY <1>1 DEF Parsed
<1>5. /\ Base \in Nat /\ readIndex \in Nat
    BY BaseTypes
<1>6. TextIs("len") <=> stream[Base + (readIndex + 1)].kind = "len"
    BY <1>1, <1>3 DEF TextIs
<1> HIDE DEF Base, Text, TextIs
<1>7. contentLength' = BodyLen \/ \A i \in 2 .. readIndex' : ~LenLine(Base + i)'
  <2> SUFFICES ASSUME contentLength' # BodyLen, NEW i \in 2 .. readIndex'
               PROVE  ~LenLine(Base + i)'
      OBVIOUS
  <2>1. ~TextIs("len") /\ contentLength # BodyLen
      BY <1>1
  <2>2. CASE i \in 2 .. readIndex
      BY <1>2, <1>4, <2>1, <2>2 DEF InHeader, LenLine
  <2>3. CASE i = readIndex + 1
      BY <1>2, <1>6, <2>1, <2>3 DEF LenLine
  <2>4. CASE i \in readIndex + 2 .. LineEnd
    <3>1. ~LenLine(Base + i)
        BY <1>1, <2>4, NoOtherLen
    <3> QED
        BY <1>2, <3>1 DEF LenLine
  <2> QED
      BY <1>2, <1>3, <1>5, <2>2, <2>3, <2>4
<1>8. InHeader'
  <2>1. Start(current)' = Start(current)
      BY <1>1, <1>2 DEF Start
  <2>2. readIndex' > 0
      BY <1>2, <1>3, <1>5
  <2> QED
      BY <1>1, <1>2, <1>3, <1>4, <1>7, <2>1, <2>2 DEF InHeader
<1> QED
    BY <1>1, <1>2, <1>8 DEF Parsed

\* The empty line: what is left of the request is its body.
LEMMA RestIsBody ==
  ASSUME IndexInv, Framing, ~moved, Parsed, pc = "parse", checkstate = "HEADER",
         LineOk, Text = <<>>
  PROVE  /\ current \in 1 .. Len(ends)
         /\ ends[current] <= Base + LineEnd + contentLength
<1>1. checkstate # "CONTENT"
    OBVIOUS
<1>2. /\ LineEnd = readIndex + 1 /\ LineEnd <= writeIndex
      /\ stream[Base + LineEnd].kind = "crlf"
    BY <1>1, LineCells
<1>3. /\ current \in 1 .. Len(ends) /\ Base = Start(current) /\ readIndex > 0
      /\ stream[Base + readIndex].kind = "crlf"
      /\ contentLength = BodyLen \/ \A i \in 2 .. readIndex : ~LenLine(Base + i)
    BY DEF Parsed, InHeader
<1>4. /\ Base \in Nat /\ readIndex \in Nat /\ contentLength \in {0, BodyLen}
      /\ BodyLen \in Nat /\ ends[current] \in Nat
  <2>1. ends[current] \in 1 .. Len(stream)
      BY <1>3, ElementOfSeq DEF IndexInv, TypeOK
  <2>2. contentLength \in {0, BodyLen}
      BY DEF IndexInv, TypeOK
  <2> QED
      BY <2>1, <2>2, BaseTypes, ConstantsOK
<1> HIDE DEF Base, Text
<1> DEFINE e == Base + LineEnd
<1>5. e \in Nat /\ e - 1 = Base + readIndex /\ e = Base + readIndex + 1
    BY <1>2, <1>4
<1>6. EmptyLine(e)
    BY <1>2, <1>3, <1>5 DEF EmptyLine
<1> HIDE DEF e
<1>7. CASE ends[current] <= e
    BY <1>3, <1>4, <1>5, <1>7 DEF e
<1>8. CASE ~(ends[current] <= e)
  <2>1. e \in Start(current) + 2 .. ends[current]
      BY <1>3, <1>4, <1>5, <1>8
  <2>2. /\ ends[current] <= e + BodyLen
        /\ (\A i \in Start(current) + 2 .. e : ~LenLine(i)) => ends[current] <= e
      BY <1>3, <1>6, <2>1 DEF Framing
  <2>3. contentLength = BodyLen
    <3> SUFFICES ASSUME contentLength # BodyLen
                 PROVE  ends[current] <= e
        BY <1>8
    <3>1. ASSUME NEW i \in Start(current) + 2 .. e
          PROVE  ~LenLine(i)
      <4>1. CASE i = e
          BY <1>2, <4>1 DEF LenLine, e
      <4>2. CASE i # e
        <5>1. i \in Base + 2 .. Base + readIndex + 1 /\ i # Base + readIndex + 1
            BY <1>3, <1>5, <4>2
        <5>2. i - Base \in 2 .. readIndex /\ Base + (i - Base) = i
            BY <1>4, <5>1
        <5>3. ~LenLine(Base + (i - Base))
            BY <1>3, <5>2
        <5> QED
            BY <5>2, <5>3
      <4> QED
          BY <4>1, <4>2
    <3> QED
        BY <2>2, <3>1
  <2> QED
      BY <1>3, <2>2, <2>3 DEF e
<1> QED
    BY <1>7, <1>8

\* The end of the headers.
LEMMA ParsedEndOfHeader ==
  ASSUME IndexInv, Framing, ~moved, Parsed, ParseEndOfHeader
  PROVE  Parsed'
<1>1. /\ TakeLine /\ LineOk /\ pc = "parse" /\ checkstate = "HEADER"
      /\ checkstate # "CONTENT" /\ Text = <<>> /\ current' = current
      /\ contentLength' = contentLength
    BY DEF ParseEndOfHeader, TakeLine
<1>2. /\ stream' = stream /\ ends' = ends /\ got' = got
      /\ writeIndex' = writeIndex /\ Base' = Base
      /\ readIndex' = LineEnd /\ checkIndex' = readIndex' /\ writeIndex' <= got'
    BY <1>1, LineKeeps
<1>3. /\ current \in 1 .. Len(ends)
      /\ ends[current] <= Base + LineEnd + contentLength
    BY <1>1, RestIsBody
<1>4. CASE contentLength = 0
  <2>1. pc' = "respond"
      BY <1>4 DEF ParseEndOfHeader, DoRequest
  <2>2. ends[current] <= got
    <3>1. LineEnd \in Nat /\ LineEnd <= writeIndex
        BY <1>1, LineCells
    <3>2. /\ Base \in Nat /\ writeIndex \in Nat /\ Base + writeIndex = got
          /\ ends[current] \in Nat
      <4>1. ends[current] \in 1 .. Len(stream)
          BY <1>3, ElementOfSeq DEF IndexInv, TypeOK
      <4> QED
          BY <4>1, BaseTypes
    <3> HIDE DEF Base
    <3> QED
        BY <1>3, <1>4, <3>1, <3>2
  <2> QED
      BY <1>1, <1>2, <1>3, <2>1, <2>2 DEF Parsed
<1>5. CASE contentLength # 0
  <2>1. pc' = pc /\ checkstate' = "CONTENT"
      BY <1>5 DEF ParseEndOfHeader
  <2> QED
      BY <1>1, <1>2, <1>3, <2>1 DEF Parsed
<1> QED
    BY <1>4, <1>5

\* The body.
LEMMA ParsedContent ==
  ASSUME IndexInv, Parsed, ParseContent
  PROVE  Parsed'
<1>1. /\ pc = "parse" /\ checkstate = "CONTENT" /\ checkstate' = checkstate
      /\ stream' = stream /\ ends' = ends /\ got' = got /\ current' = current
      /\ writeIndex' = writeIndex /\ contentLength' = contentLength
    BY DEF ParseContent, clientVars, readVars
<1>2. Base' = Base /\ writeIndex' <= got'
    BY <1>1 DEF Base, Parsed
<1>3. /\ current \in 1 .. Len(ends)
      /\ ends[current] <= Base + checkIndex + contentLength
    BY <1>1 DEF Parsed
<1>4. CASE BodyRead
  <2>1. pc' = "respond"
      BY <1>4 DEF ParseContent, DoRequest
  <2>2. ends[current] <= got
    <3>1. writeIndex >= checkIndex + contentLength
        BY <1>4 DEF BodyRead
    <3>2. /\ Base \in Nat /\ writeIndex \in Nat /\ Base + writeIndex = got
          /\ ends[current] \in Nat /\ checkIndex \in Nat /\ contentLength \in Nat
      <4>1. /\ ends[current] \in 1 .. Len(stream) /\ checkIndex \in Nat
            /\ contentLength \in {0, BodyLen}
          BY <1>3, ElementOfSeq DEF IndexInv, TypeOK
      <4> QED
          BY <4>1, BaseTypes, ConstantsOK
    <3> HIDE DEF Base
    <3> QED
        BY <1>3, <3>1, <3>2
  <2> QED
      BY <1>1, <1>2, <1>3, <2>1, <2>2 DEF Parsed
<1>5. CASE ~BodyRead
  <2>1. pc' = pc /\ checkIndex' = checkIndex
      BY <1>5 DEF ParseContent
  <2> QED
      BY <1>1, <1>2, <1>3, <2>1 DEF Parsed
<1> QED
    BY <1>4, <1>5

\* No line.
LEMMA ParsedNoLine ==
  ASSUME Parsed, ParseNoLine
  PROVE  Parsed'
<1>1. /\ pc' = "respond" /\ ret' = "OPEN_REQUEST"
      /\ writeIndex' = writeIndex /\ got' = got
    BY DEF ParseNoLine, bufVars, readVars
<1> QED
    BY <1>1 DEF Parsed

\* init(), when nothing is unread, leaves inbuffer empty.
LEMMA ParsedKeep ==
  ASSUME IndexInv, Parsed, RespondAndKeep, ~moved'
  PROVE  Parsed'
<1>1. /\ pc' \in {"idle", "undefined"} /\ got' = got
      /\ readIndex' = 0 /\ checkIndex' = 0
      /\ moved' = (moved \/ writeIndex - readIndex # 0)
      /\ ~(writeIndex - readIndex < 0) => writeIndex' = writeIndex - readIndex
    BY DEF RespondAndKeep, InitBuffer, CheckAfterInit, readVars
<1>2. writeIndex - readIndex = 0 /\ writeIndex' = 0
  <2>1. writeIndex \in Nat /\ readIndex \in Nat
      BY DEF IndexInv
  <2>2. writeIndex - readIndex = 0
      BY <1>1
  <2>3. writeIndex' = writeIndex - readIndex
      BY <1>1, <2>2
  <2> QED
      BY <2>2, <2>3
<1>3. writeIndex' <= got'
    BY <1>1, <1>2, BaseTypes
<1> QED
    BY <1>1, <1>2, <1>3 DEF Parsed

\* The invariant, of the connection while it is open and after.
CompleteInv ==
  /\ IndexInv
  /\ Framing
  /\ ~moved => Complete /\ (state = "kConnected" => Parsed)

\* Steps that send no answer.
LEMMA CompleteKept ==
  ASSUME Complete, IndexInv, answers' = answers,
         \/ ends' = ends
         \/ \E request \in Requests : Send(request)
  PROVE  Complete'
<1>1. \A n \in 1 .. Len(ends) : n \in 1 .. Len(ends') /\ ends'[n] = ends[n]
  <2>1. CASE ends' = ends
      BY <2>1
  <2>2. ASSUME NEW request \in Requests, Send(request)
        PROVE  \A n \in 1 .. Len(ends) : n \in 1 .. Len(ends') /\ ends'[n] = ends[n]
    <3>1. /\ Len(ends) \in Nat /\ Len(ends') = Len(ends) + 1
          /\ \A n \in 1 .. Len(ends) : ends'[n] = ends[n]
        BY <2>2, Sent
    <3> QED
        BY <3>1
  <2> QED
      BY <2>1, <2>2
<1>2. ASSUME NEW i \in 1 .. Len(answers), answers[i].code # "MALFORMED"
      PROVE  /\ answers[i].req \in 1 .. Len(ends')
             /\ answers[i].got >= ends'[answers[i].req]
    BY <1>1, <1>2 DEF Complete
<1> QED
    BY <1>2 DEF Complete

\* An answer: all of its request has been read.
LEMMA CompleteResponse ==
  ASSUME Complete, IndexInv, state = "kConnected" => Parsed, pc = "respond",
         answers' = Responded, ends' = ends
  PROVE  Complete'
<1>1. CASE state = "kConnected" /\ ret # "OPEN_REQUEST"
  <2> DEFINE a == [req |-> current, code |-> ret, linger |-> linger, got |-> got]
  <2>1. answers' = Append(answers, a)
      BY <1>1 DEF Responded
  <2>2. ret # "MALFORMED" => current \in 1 .. Len(ends) /\ ends[current] <= got
      BY <1>1 DEF Parsed
  <2>3. answers \in Seq(Answer) /\ a \in Answer
    <3>1. Len(stream) \in Nat /\ got \in 0 .. Len(stream)
        BY LenProperties DEF IndexInv, TypeOK
    <3>2. got \in Nat
        BY <3>1
    <3> QED
        BY <1>1, <3>2 DEF IndexInv, TypeOK, Answer
  <2>4. /\ a.code = ret /\ a.req = current /\ a.got = got
      OBVIOUS
  <2> HIDE DEF a
  <2>5. /\ Len(answers') = Len(answers) + 1 /\ Len(answers) \in Nat
        /\ \A i \in 1 .. Len(answers) : answers'[i] = answers[i]
        /\ answers'[Len(answers) + 1] = a
      BY <2>1, <2>3, AppendProperties, LenProperties
  <2>6. ASSUME ret # "MALFORMED"
        PROVE  a.req \in 1 .. Len(ends) /\ a.got >= ends[a.req]
    <3>1. ends[current] \in 1 .. Len(stream) /\ got \in 0 .. Len(stream)
        BY <2>2, <2>6, ElementOfSeq DEF IndexInv, TypeOK
    <3>2. got >= ends[current]
        BY <2>2, <2>6, <3>1
    <3> QED
        BY <2>2, <2>4, <2>6, <3>2
  <2>7. ASSUME NEW i \in 1 .. Len(answers'), answers'[i].code # "MALFORMED"
        PROVE  /\ answers'[i].req \in 1 .. Len(ends)
               /\ answers'[i].got >= ends[answers'[i].req]
    <3>1. CASE i = Len(answers) + 1
        BY <2>4, <2>5, <2>6, <2>7, <3>1
    <3>2. CASE i # Len(answers) + 1
      <4>1. i \in 1 .. Len(answers)
          BY <2>5, <3>2
      <4> QED
          BY <2>5, <2>7, <4>1 DEF Complete
    <3> QED
        BY <3>1, <3>2
  <2> QED
      BY <2>7 DEF Complete
<1>2. CASE ~(state = "kConnected" /\ ret # "OPEN_REQUEST")
  <2>1. answers' = answers
      BY <1>2 DEF Responded
  <2> QED
      BY <2>1, CompleteKept
<1> QED
    BY <1>1, <1>2

\* At the start.
LEMMA InitComplete == Init => CompleteInv
<1> SUFFICES ASSUME Init
             PROVE  CompleteInv
    OBVIOUS
<1>1. /\ stream = <<>> /\ ends = <<>> /\ answers = <<>>
      /\ Len(stream) = 0 /\ Len(ends) = 0 /\ Len(answers) = 0
    BY EmptySeq DEF Init
<1>2. Framing
    BY <1>1 DEF Framing, Start
<1>3. Complete
    BY <1>1 DEF Complete
<1>4. Parsed
    BY DEF Init, Parsed
<1> QED
    BY <1>2, <1>3, <1>4, InitIndex DEF CompleteInv

\* Every step.
LEMMA NextComplete == CompleteInv /\ [Next]_vars => CompleteInv'
<1> SUFFICES ASSUME CompleteInv, [Next]_vars, IndexInv'
             PROVE  CompleteInv'
    BY IndexStep DEF CompleteInv
<1>1. IndexInv /\ Framing /\ (~moved => Complete /\ (state = "kConnected" => Parsed))
    BY DEF CompleteInv
<1>2. ASSUME NEW request \in Requests, Send(request)
      PROVE  CompleteInv'
  <2>1. moved' = moved /\ state' = state /\ answers' = answers
      BY <1>2 DEF Send, connVars
  <2> QED
      BY <1>1, <1>2, <2>1, FramingSend, ParsedSend, CompleteKept DEF CompleteInv
<1>3. ASSUME NEW k \in 1 .. Len(stream), HandleRead(k)
      PROVE  CompleteInv'
  <2>1. /\ moved' = moved /\ state' = state /\ answers' = answers
        /\ UNCHANGED clientVars /\ ends' = ends
      BY <1>3 DEF HandleRead, connVars, clientVars
  <2> QED
      BY <1>1, <1>3, <2>1, FramingKept, ParsedRead, CompleteKept DEF CompleteInv
<1>4. CASE ParseMain
  <2>1. /\ moved' = moved /\ state' = state /\ answers' = answers
        /\ UNCHANGED clientVars /\ ends' = ends
      BY <1>4
      DEF ParseMain, ParseRequestLine, ParseHeader, ParseEndOfHeader, ParseContent,
          ParseNoLine, TakeLine, connVars, clientVars
  <2>2. ~moved /\ Parsed => Parsed'
      BY <1>1, <1>4, ParsedRequestLine, ParsedHeader, ParsedEndOfHeader,
         ParsedContent, ParsedNoLine
      DEF ParseMain
  <2> QED
      BY <1>1, <2>1, <2>2, FramingKept, CompleteKept DEF CompleteInv
<1>5. CASE RespondAndShutdown
  <2>1. /\ moved' = moved /\ state' = "kDisconnecting" /\ pc = "respond"
        /\ answers' = Responded /\ UNCHANGED clientVars /\ ends' = ends
      BY <1>5 DEF RespondAndShutdown, clientVars
  <2> QED
      BY <1>1, <2>1, FramingKept, CompleteResponse DEF CompleteInv
<1>6. CASE RespondAndKeep
  <2>1. /\ state' = state /\ pc = "respond" /\ (moved => moved')
        /\ answers' = Responded /\ UNCHANGED clientVars /\ ends' = ends
      BY <1>6 DEF RespondAndKeep, InitBuffer, clientVars
  <2> QED
      BY <1>1, <1>6, <2>1, FramingKept, ParsedKeep, CompleteResponse
      DEF CompleteInv
<1>7. CASE UNCHANGED vars
  <2>1. /\ UNCHANGED clientVars /\ moved' = moved /\ state' = state
      BY <1>7 DEF vars, clientVars, connVars
  <2>2. Complete' <=> Complete
      BY <1>7 DEF vars, clientVars, connVars, Complete
  <2>3. Parsed' <=> Parsed
      BY <1>7
      DEF vars, clientVars, readVars, bufVars, parseVars, Parsed, InHeader, Base,
          Start, LenLine
  <2> QED
      BY <1>1, <2>1, <2>2, <2>3, FramingKept DEF CompleteInv
<1> QED
    BY <1>2, <1>3, <1>4, <1>5, <1>6, <1>7 DEF Next

\* No request is answered, other than as a bad one, before all of it has been
\* read, body included, however the stream is cut, up to the first time that
\* init() has found unread bytes: for any set of requests that end where their
\* headers say (RequestsFramed), well formed in other ways or not.
THEOREM NothingAnsweredEarly == Spec => []NotBeforeComplete
<1>1. CompleteInv => NotBeforeComplete
  <2> SUFFICES ASSUME CompleteInv, ~moved, NEW i \in DOMAIN answers,
                      answers[i].code # "MALFORMED"
               PROVE  answers[i].got >= ends[answers[i].req]
      BY DEF NotBeforeComplete
  <2>1. i \in 1 .. Len(answers)
    <3>1. answers \in Seq(Answer)
        BY DEF CompleteInv, IndexInv, TypeOK, Answer
    <3> QED
        BY <3>1, LenProperties
  <2> QED
      BY <2>1 DEF CompleteInv, Complete
<1> QED
    BY <1>1, InitComplete, NextComplete, PTL DEF Spec

------------------------------------------------------------------------------
(* One answer for each request.                                            *)

\* Request n is r.
IsRequest(n, r) ==
  /\ ends[n] = Start(n) + Len(r)
  /\ \A i \in 1 .. Len(r) :
       stream[Start(n) + i] = [kind |-> r[i], req |-> n]

\* What has been sent is one request after the other.
Sequenced ==
  /\ \A n \in 1 .. Len(ends) : \E r \in Requests : IsRequest(n, r)
  /\ \A m, n \in 1 .. Len(ends) : m < n => ends[m] < ends[n]
  /\ \A p \in 1 .. Len(stream) :
       /\ stream[p].req \in 1 .. Len(ends)
       /\ Start(stream[p].req) < p /\ p <= ends[stream[p].req]

\* What is unread in inbuffer is what was sent.
UnreadSent ==
  \A j \in readIndex + 1 .. writeIndex : data[j] = stream[Base + j]

\* The lines of request r before readIndex_ have been parsed, and more follow.
AtLine(r) ==
  /\ UnreadSent /\ checkIndex = readIndex /\ readIndex \in 0 .. Len(r)
  /\ \A i \in 1 .. readIndex : r[i] # "lf"
  /\ \A i \in 2 .. readIndex : ~(r[i - 1] = "crlf" /\ r[i] = "crlf")

\* What the headers before readIndex_ have said.
HeadersSeen(r) ==
  /\ readIndex > 0 /\ r[readIndex] = "crlf"
  /\ linger <=> \E i \in 1 .. readIndex : r[i] = "keep"
  /\ contentLength # 0 <=>
       \E i \in 2 .. readIndex : r[i - 1] = "crlf" /\ r[i] = "len"

\* parse_main() is in request n, which is r.
InRequest(n, r) ==
  /\ lineStatus = "LINE_OK" /\ Base = Start(n)
  /\ checkstate # "CONTENT" => AtLine(r)
  /\ checkstate = "REQUESTLINE" =>
       readIndex = 0 /\ linger = FALSE /\ contentLength = 0
  /\ checkstate # "REQUESTLINE" => current = n /\ r[1] = "get"
  /\ checkstate = "HEADER" => HeadersSeen(r)
  /\ checkstate = "CONTENT" =>
       BodyRead /\ linger = FALSE /\ \A i \in 1 .. Len(r) : r[i] # "keep"

\* What parse_main() has returned for request n, which is r.
Returned(n, r) ==
  /\ ret = "OPEN_REQUEST" =>
       linger = FALSE /\ \E i \in 1 .. Len(r) : r[i] = "lf"
  /\ ret # "OPEN_REQUEST" =>
       /\ current = n
       /\ ret = "MALFORMED" <=> r[1] = "junk"
       /\ linger <=> r[1] = "get" /\ \E i \in 1 .. Len(r) : r[i] = "keep"
  /\ linger => UnreadSent /\ Base + readIndex = ends[n]

\* Between two reads, with request n the next to answer.
Waits(n) ==
  /\ UnreadSent /\ readIndex = 0 /\ checkIndex = 0 /\ Base = Start(n)
  /\ single => got = Start(n)

\* In onMessage(), with request n read.
Works(n) ==
  /\ pc \in {"parse", "respond"} /\ n \in 1 .. Len(ends) /\ ends[n] <= got
  /\ single => got = ends[n]
  /\ \E r \in Requests :
       /\ IsRequest(n, r)
       /\ pc = "parse" => InRequest(n, r)
       /\ pc = "respond" => Returned(n, r)

\* An open connection has answered what is before request n, and what it has
\* read ends with a request.
Aligned(n) ==
  /\ writeIndex <= got
  /\ \E m \in n .. Len(ends) + 1 : got = Start(m)
  /\ pc = "idle" => Waits(n)
  /\ pc # "idle" => Works(n)

\* Answer i is that of request i.
AnswerOf(i) ==
  /\ i \in 1 .. Len(ends) /\ answers[i].req = i
  /\ answers[i].code = "MALFORMED" <=> Has(i, "junk")
  /\ answers[i].linger <=> Has(i, "keep") /\ ~Has(i, "junk")

\* The answers are those of the requests, one for each.
Answered ==
  \A i \in 1 .. Len(answers) :
    /\ AnswerOf(i)
    /\ answers[i].linger \/ (i = Len(answers) /\ state = "kDisconnecting")

\* What has ended the connection.
Ended ==
  state = "kDisconnecting" =>
    \/ Len(answers) > 0 /\ ~answers[Len(answers)].linger
    \/ Has(Len(answers) + 1, "lf")

\* The invariant, of a connection whose reads end at the end of a request, and
\* whose kept requests have no body.
OrderInv ==
  /\ IndexInv /\ Framing /\ Sequenced
  /\ whole /\ ~BodyKept =>
       /\ Answered /\ Ended
       /\ state = "kConnected" =>
            \E n \in Nat : n = Len(answers) + 1 /\ Aligned(n)

\* What a request is made of, by its length.
LEMMA RequestShape ==
  ASSUME NEW r \in Requests
  PROVE  /\ Len(r) \in Nat \ {0} /\ DOMAIN r = 1 .. Len(r)
         /\ \A i \in 1 .. Len(r) : r[i] \in Kinds \ {"nul"}
         /\ r[1] \in {"get", "junk"}
         /\ \A i \in 2 .. Len(r) : r[i] \notin {"get", "junk"}
         /\ \/ \E i \in 1 .. Len(r) : r[i] = "lf"
            \/ \E e \in 2 .. Len(r) : r[e - 1] = "crlf" /\ r[e] = "crlf"
         /\ \A i \in 1 .. Len(r) : r[i] = "keep" =>
              /\ i - 1 \in 1 .. Len(r) /\ r[i - 1] \in {"crlf", "lf"}
              /\ i + 1 \in 1 .. Len(r) /\ r[i + 1] = "crlf"
              /\ \A j \in i .. Len(r) : r[j] # "lf"
<1>1. r \in Seq(Kinds \ {"nul"}) /\ r # <<>>
    BY ConstantsOK
<1>2. /\ Len(r) \in Nat \ {0} /\ DOMAIN r = 1 .. Len(r)
      /\ \A i \in 1 .. Len(r) : r[i] \in Kinds \ {"nul"}
    BY <1>1, EmptySeq, LenProperties, ElementOfSeq
<1>3. \A i \in 1 .. Len(r) : i = 1 <=> r[i] \in {"get", "junk"}
    BY <1>2, RequestsWhole
<1>4. /\ r[1] \in {"get", "junk"}
      /\ \A i \in 2 .. Len(r) : r[i] \notin {"get", "junk"}
    BY <1>2, <1>3
<1>5. \/ \E i \in 1 .. Len(r) : r[i] = "lf"
      \/ \E e \in 2 .. Len(r) : r[e - 1] = "crlf" /\ r[e] = "crlf"
    BY <1>2, RequestsWhole
<1>6. ASSUME NEW i \in 1 .. Len(r), r[i] = "keep"
      PROVE  /\ i - 1 \in 1 .. Len(r) /\ r[i - 1] \in {"crlf", "lf"}
             /\ i + 1 \in 1 .. Len(r) /\ r[i + 1] = "crlf"
             /\ \A j \in i .. Len(r) : r[j] # "lf"
  <2>1. /\ i < Len(r) /\ r[i - 1] \in {"crlf", "lf"} /\ r[i + 1] = "crlf"
        /\ \A j \in i .. Len(r) : r[j] # "lf"
      BY <1>2, <1>6, RequestsWhole
  <2>2. i # 1
      BY <1>4, <1>6
  <2>3. i - 1 \in 1 .. Len(r) /\ i + 1 \in 1 .. Len(r)
      BY <1>2, <2>1, <2>2
  <2> QED
      BY <2>1, <2>3
<1> QED
    BY <1>2, <1>4, <1>5, <1>6

\* Where the requests begin and end in stream.
LEMMA EndTypes ==
  ASSUME IndexInv, Sequenced
  PROVE  /\ Len(ends) \in Nat /\ Len(stream) \in Nat /\ got \in Nat
         /\ \A n \in 1 .. Len(ends) : ends[n] \in Nat /\ ends[n] <= Len(stream)
         /\ \A n \in 1 .. Len(ends) + 1 : Start(n) \in Nat
         /\ \A n \in 1 .. Len(ends) : Start(n) < ends[n] /\ Start(n + 1) = ends[n]
<1>1. /\ Len(ends) \in Nat /\ Len(stream) \in Nat /\ got \in Nat
      /\ \A n \in 1 .. Len(ends) : ends[n] \in 1 .. Len(stream)
  <2>1. got \in 0 .. Len(stream) /\ Len(stream) \in Nat
      BY LenProperties DEF IndexInv, TypeOK
  <2>2. got \in Nat
      BY <2>1
  <2> QED
      BY <2>1, <2>2, ElementOfSeq, LenProperties DEF IndexInv, TypeOK
<1>2. ASSUME NEW n \in 1 .. Len(ends) + 1
      PROVE  Start(n) \in Nat
  <2>1. n # 1 => n - 1 \in 1 .. Len(ends)
      BY <1>1
  <2> QED
      BY <1>1, <2>1 DEF Start
<1>3. ASSUME NEW n \in 1 .. Len(ends)
      PROVE  Start(n) < ends[n] /\ Start(n + 1) = ends[n]
  <2>1. n # 1 => n - 1 \in 1 .. Len(ends) /\ n - 1 < n
      BY <1>1
  <2>2. n # 1 => ends[n - 1] < ends[n]
      BY <2>1 DEF Sequenced
  <2>3. n + 1 # 1 /\ (n + 1) - 1 = n
      BY <1>1
  <2> QED
      BY <1>1, <2>2, <2>3 DEF Start
<1> QED
    BY <1>1, <1>2, <1>3

\* The requests come one behind the other.
LEMMA StartsOrdered ==
  ASSUME IndexInv, Sequenced,
         NEW m \in 1 .. Len(ends), NEW n \in 1 .. Len(ends) + 1, m < n
  PROVE  ends[m] <= Start(n)
<1>1. /\ Len(ends) \in Nat /\ n - 1 \in 1 .. Len(ends) /\ Start(n) = ends[n - 1]
      /\ ends[m] \in Nat /\ ends[n - 1] \in Nat
      /\ m < n - 1 \/ m = n - 1
  <2>1. Len(ends) \in Nat /\ \A i \in 1 .. Len(ends) : ends[i] \in Nat
      BY EndTypes
  <2>2. n - 1 \in 1 .. Len(ends) /\ n # 1 /\ (m < n - 1 \/ m = n - 1)
      BY <2>1
  <2> QED
      BY <2>1, <2>2 DEF Start
<1>2. m < n - 1 => ends[m] < ends[n - 1]
    BY <1>1 DEF Sequenced
<1> QED
    BY <1>1, <1>2

\* The cells of a request that has been sent.
LEMMA RequestCells ==
  ASSUME IndexInv, Sequenced, NEW n \in 1 .. Len(ends), NEW r \in Requests,
         IsRequest(n, r), NEW kind
  PROVE  Has(n, kind) <=> \E i \in 1 .. Len(r) : r[i] = kind
<1>1. /\ Start(n) \in Nat /\ Len(r) \in Nat /\ ends[n] = Start(n) + Len(r)
      /\ ends[n] <= Len(stream) /\ Len(stream) \in Nat
      /\ DOMAIN stream = 1 .. Len(stream)
      /\ \A i \in 1 .. Len(r) : stream[Start(n) + i] = [kind |-> r[i], req |-> n]
  <2>1. Len(ends) \in Nat
      BY EndTypes
  <2>2. n \in 1 .. Len(ends) + 1
      BY <2>1
  <2>3. DOMAIN stream = 1 .. Len(stream)
      BY LenProperties DEF IndexInv, TypeOK
  <2> QED
      BY <2>2, <2>3, EndTypes, RequestShape DEF IsRequest
<1>2. ASSUME NEW i \in 1 .. Len(r), r[i] = kind
      PROVE  Has(n, kind)
  <2>1. Start(n) + i \in DOMAIN stream
      BY <1>1
  <2>2. stream[Start(n) + i] = [kind |-> kind, req |-> n]
      BY <1>1, <1>2
  <2> QED
      BY <2>1, <2>2 DEF Has
<1>3. ASSUME Has(n, kind)
      PROVE  \E i \in 1 .. Len(r) : r[i] = kind
  <2>1. PICK p \in DOMAIN stream : stream[p] = [kind |-> kind, req |-> n]
      BY <1>3 DEF Has
  <2>2. p \in 1 .. Len(stream) /\ stream[p].req = n
      BY <1>1, <2>1
  <2>3. Start(n) < p /\ p <= ends[n]
      BY <2>2 DEF Sequenced
  <2>4. p - Start(n) \in 1 .. Len(r) /\ Start(n) + (p - Start(n)) = p
      BY <1>1, <2>2, <2>3
  <2>5. stream[p] = [kind |-> r[p - Start(n)], req |-> n]
      BY <1>1, <2>4
  <2>6. stream[p].kind = r[p - Start(n)] /\ stream[p].kind = kind
      BY <2>1, <2>5
  <2> QED
      BY <2>4, <2>6
<1> QED
    BY <1>2, <1>3

\* The text of a line with no NUL in it.
LEMMA TextLength ==
  ASSUME IndexInv, LineEnds # {},
         \A p \in checkIndex + 1 .. LineEnd - 1 : data[p].kind # "nul"
  PROVE  Len(Text) = LineEnd - (checkIndex + 1)
<1> DEFINE start == checkIndex + 1
           First(p) == /\ DataAfterLine[p].kind = "nul"
                       /\ \A q \in start .. p - 1 : DataAfterLine[q].kind # "nul"
           nul == CHOOSE p \in start .. LineEnd : First(p)
<1>1. /\ LineEnd \in Nat /\ start \in Nat \ {0} /\ Len(data) \in Nat
      /\ start <= LineEnd /\ LineEnd <= Len(data)
  <2>1. checkIndex \in Nat /\ Len(data) \in Nat
      BY LenProperties DEF IndexInv, TypeOK
  <2> QED
      BY <2>1, LineFound, TextTypes
<1>2. DataAfterLine[LineEnd].kind = "nul"
  <2>1. LineEnd \in 1 .. Len(data)
      BY <1>1
  <2> QED
      BY <2>1, AfterLine DEF Nul
<1>3. ASSUME NEW q \in start .. LineEnd - 1
      PROVE  DataAfterLine[q].kind # "nul"
  <2>1. q \in 1 .. Len(data) /\ q # LineEnd
      BY <1>1
  <2>2. DataAfterLine[q] = data[q]
      BY <2>1, AfterLine
  <2> QED
      BY <2>2
<1>4. First(LineEnd) /\ LineEnd \in start .. LineEnd
    BY <1>1, <1>2, <1>3
<1>5. nul \in start .. LineEnd /\ First(nul)
  <2> HIDE DEF First
  <2> QED
      BY <1>4
<1>6. nul = LineEnd
  <2>1. DataAfterLine[nul].kind = "nul"
      BY <1>5
  <2>2. nul \notin start .. LineEnd - 1
      BY <1>3, <2>1
  <2> HIDE DEF nul
  <2> QED
      BY <1>1, <1>5, <2>2
<1>7. Text = SubSeq(data, start, nul - 1)
    BY DEF Text
<1> HIDE DEF nul, start
<1>8. /\ LineEnd - 1 \in Nat /\ LineEnd - 1 <= Len(data) /\ data \in Seq(Cells)
      /\ Text = SubSeq(data, start, LineEnd - 1)
    BY <1>1, <1>6, <1>7 DEF IndexInv, TypeOK
<1>9. Len(Text) = IF start <= LineEnd - 1 THEN (LineEnd - 1) - start + 1 ELSE 0
    BY <1>1, <1>8, PartOf
<1>10. Len(Text) = LineEnd - start
    BY <1>1, <1>9
<1> QED
    BY <1>10 DEF start

\* The first line of a request that is read and not yet parsed: what
\* parse_line() finds, and the text the parser looks at.
LEMMA LineOfRequest ==
  ASSUME IndexInv, Sequenced, NEW n \in 1 .. Len(ends), NEW r \in Requests,
         IsRequest(n, r), Base = Start(n), writeIndex <= got, ends[n] <= got,
         AtLine(r)
  PROVE  /\ LineEnds # {} /\ LineEnd \in readIndex + 1 .. Len(r)
         /\ LineEnd \in Nat /\ readIndex \in Nat
         /\ r[LineEnd] = data[LineEnd].kind /\ r[LineEnd] \in {"crlf", "lf"}
         /\ \A j \in readIndex + 1 .. LineEnd - 1 : r[j] \notin {"crlf", "lf"}
         /\ Text = <<>> <=> LineEnd = readIndex + 1
         /\ Text # <<>> => Text[1] = [kind |-> r[readIndex + 1], req |-> n]
         /\ Len(Text) = 1 <=> LineEnd = readIndex + 2
<1>1. /\ Base \in Nat /\ got \in Nat /\ writeIndex \in Nat /\ readIndex \in Nat
      /\ Base + writeIndex = got /\ writeIndex <= Len(data) /\ Len(data) \in Nat
  <2>1. got \in Nat /\ writeIndex \in Nat /\ readIndex \in Nat
      BY EndTypes DEF IndexInv
  <2>2. writeIndex <= Len(data) /\ Len(data) \in Nat
      BY LenProperties DEF IndexInv, TypeOK
  <2> QED
      BY <2>1, <2>2 DEF Base
<1>2. /\ Len(r) \in Nat \ {0} /\ ends[n] = Base + Len(r)
      /\ \A i \in 1 .. Len(r) : stream[Base + i] = [kind |-> r[i], req |-> n]
      /\ \A i \in 1 .. Len(r) : r[i] # "nul"
    BY RequestShape DEF IsRequest
<1>3. /\ checkIndex = readIndex /\ readIndex \in 0 .. Len(r)
      /\ \A j \in readIndex + 1 .. writeIndex : data[j] = stream[Base + j]
      /\ \A i \in 1 .. readIndex : r[i] # "lf"
      /\ \A i \in 2 .. readIndex : ~(r[i - 1] = "crlf" /\ r[i] = "crlf")
    BY DEF AtLine, UnreadSent
<1> HIDE DEF Base
<1>4. Len(r) <= writeIndex
    BY <1>1, <1>2
<1>5. ASSUME NEW j \in readIndex + 1 .. Len(r)
      PROVE  data[j] = [kind |-> r[j], req |-> n] /\ r[j] # "nul"
  <2>1. j \in readIndex + 1 .. writeIndex /\ j \in 1 .. Len(r)
      BY <1>1, <1>2, <1>4
  <2> QED
      BY <1>2, <1>3, <2>1
<1>6. PICK q \in readIndex + 1 .. Len(r) : r[q] \in {"crlf", "lf"}
  <2>1. ASSUME NEW i \in 1 .. Len(r), r[i] = "lf"
        PROVE  \E q \in readIndex + 1 .. Len(r) : r[q] \in {"crlf", "lf"}
    <3>1. i \notin 1 .. readIndex
        BY <1>3, <2>1
    <3>2. i \in readIndex + 1 .. Len(r)
        BY <1>1, <1>2, <3>1
    <3> QED
        BY <2>1, <3>2
  <2>2. ASSUME NEW e \in 2 .. Len(r), r[e - 1] = "crlf" /\ r[e] = "crlf"
        PROVE  \E q \in readIndex + 1 .. Len(r) : r[q] \in {"crlf", "lf"}
    <3>1. e \notin 2 .. readIndex
        BY <1>3, <2>2
    <3>2. e \in readIndex + 1 .. Len(r)
        BY <1>1, <1>2, <3>1
    <3> QED
        BY <2>2, <3>2
  <2> QED
      BY <2>1, <2>2, RequestShape
<1>7. q \in LineEnds
  <2>1. q \in readIndex + 1 .. Len(data)
      BY <1>1, <1>2, <1>4
  <2>2. data[q] = [kind |-> r[q], req |-> n]
      BY <1>5
  <2>3. data[q].kind = r[q]
      BY <2>2
  <2> QED
      BY <1>6, <2>1, <2>3 DEF LineEnds
<1>8. /\ LineEnds # {} /\ LineEnd \in LineEnds /\ \A p \in LineEnds : LineEnd <= p
      /\ LineEnd \in Nat /\ LineEnd > readIndex /\ LineEnd <= Len(data)
    BY <1>7, LineFound
<1>9. LineEnd \in readIndex + 1 .. Len(r)
  <2>1. LineEnd <= q
      BY <1>7, <1>8
  <2> QED
      BY <1>1, <1>2, <1>8, <2>1
<1>10. r[LineEnd] = data[LineEnd].kind /\ r[LineEnd] \in {"crlf", "lf"}
  <2>1. data[LineEnd].kind \in {"crlf", "lf"}
      BY <1>8 DEF LineEnds
  <2>2. data[LineEnd] = [kind |-> r[LineEnd], req |-> n]
      BY <1>5, <1>9
  <2> QED
      BY <2>1, <2>2
<1>11. ASSUME NEW j \in readIndex + 1 .. LineEnd - 1
       PROVE  /\ r[j] \notin {"crlf", "lf"} /\ data[j].kind # "nul"
              /\ j \in 1 .. Len(data) /\ j # LineEnd
  <2>1. /\ j \in readIndex + 1 .. Len(r) /\ j \in readIndex + 1 .. Len(data)
        /\ j \in 1 .. Len(data) /\ ~(LineEnd <= j) /\ j # LineEnd
      BY <1>1, <1>2, <1>8, <1>9
  <2>2. j \notin LineEnds
      BY <1>8, <2>1
  <2>3. data[j].kind \notin {"crlf", "lf"}
      BY <2>1, <2>2 DEF LineEnds
  <2>4. data[j] = [kind |-> r[j], req |-> n] /\ r[j] # "nul"
      BY <1>5, <2>1
  <2>5. data[j].kind = r[j]
      BY <2>4
  <2> QED
      BY <2>1, <2>3, <2>4, <2>5
<1>12. Len(Text) = LineEnd - (readIndex + 1)
  <2>1. \A p \in checkIndex + 1 .. LineEnd - 1 : data[p].kind # "nul"
      BY <1>3, <1>11
  <2> QED
      BY <1>3, <1>8, <2>1, TextLength
<1>13. /\ Text \in Seq(Cells)
       /\ Text # <<>> => Text[1] = DataAfterLine[readIndex + 1]
    BY <1>3, <1>8, TextTypes
<1> HIDE DEF Text
<1>14. Text = <<>> <=> LineEnd = readIndex + 1
  <2>1. Text = <<>> <=> Len(Text) = 0
      BY <1>13, EmptySeq
  <2> QED
      BY <1>1, <1>8, <1>12, <2>1
<1>15. ASSUME Text # <<>>
       PROVE  Text[1] = [kind |-> r[readIndex + 1], req |-> n]
  <2>1. readIndex + 1 \in readIndex + 1 .. LineEnd - 1
      BY <1>1, <1>8, <1>14, <1>15
  <2>2. /\ readIndex + 1 \in 1 .. Len(data) /\ readIndex + 1 # LineEnd
        /\ readIndex + 1 \in readIndex + 1 .. Len(r)
      BY <1>1, <1>2, <1>9, <1>11, <2>1
  <2>3. DataAfterLine[readIndex + 1] = data[readIndex + 1]
      BY <1>8, <2>2, AfterLine
  <2>4. data[readIndex + 1] = [kind |-> r[readIndex + 1], req |-> n]
      BY <1>5, <2>2
  <2> QED
      BY <1>13, <1>15, <2>3, <2>4
<1>16. Len(Text) = 1 <=> LineEnd = readIndex + 2
    BY <1>1, <1>8, <1>12
<1> QED
    BY <1>1, <1>8, <1>9, <1>10, <1>11, <1>14, <1>15, <1>16

\* What parse_line() finds leaves what is behind it as it was sent.
LEMMA UnreadAfterLine ==
  ASSUME IndexInv, UnreadSent, TakeLine
  PROVE  UnreadSent' /\ Base' = Base
<1>1. /\ LineEnds # {} /\ data' = DataAfterLine /\ readIndex' = LineEnd
      /\ stream' = stream /\ got' = got /\ writeIndex' = writeIndex
    BY DEF TakeLine, LineOk, clientVars, readVars
<1>2. Base' = Base
    BY <1>1 DEF Base
<1>3. /\ LineEnd \in Nat /\ readIndex < LineEnd /\ readIndex \in Nat
      /\ writeIndex \in Nat /\ writeIndex <= Len(data) /\ Len(data) \in Nat
    BY <1>1, LineFound, LenProperties DEF IndexInv, TypeOK
<1>4. ASSUME NEW j \in LineEnd + 1 .. writeIndex
      PROVE  DataAfterLine[j] = stream[Base + j]
  <2>1. /\ j \in readIndex + 1 .. writeIndex /\ j \in 1 .. Len(data)
        /\ j # LineEnd
      BY <1>3
  <2>2. DataAfterLine[j] = data[j]
      BY <1>1, <2>1, AfterLine
  <2> QED
      BY <2>1, <2>2 DEF UnreadSent
<1> QED
    BY <1>1, <1>2, <1>4 DEF UnreadSent

\* A line that is not empty, and ends in "\r\n", leaves the parser before the
\* next.
LEMMA NextLine ==
  ASSUME IndexInv, Sequenced, NEW n \in 1 .. Len(ends), NEW r \in Requests,
         IsRequest(n, r), Base = Start(n), writeIndex <= got, ends[n] <= got,
         AtLine(r), TakeLine, Text # <<>>
  PROVE  /\ AtLine(r)' /\ Base' = Base
         /\ readIndex' = LineEnd /\ LineEnd \in readIndex + 2 .. Len(r)
         /\ r[LineEnd] = "crlf"
         /\ \A j \in readIndex + 1 .. LineEnd - 1 : r[j] \notin {"crlf", "lf"}
<1>1. /\ LineEnd \in readIndex + 1 .. Len(r)
      /\ LineEnd \in Nat /\ readIndex \in Nat
      /\ r[LineEnd] = data[LineEnd].kind
      /\ \A j \in readIndex + 1 .. LineEnd - 1 : r[j] \notin {"crlf", "lf"}
      /\ LineEnd # readIndex + 1
    BY LineOfRequest
<1>2. /\ r[LineEnd] = "crlf"
      /\ readIndex' = LineEnd /\ checkIndex' = readIndex'
    BY <1>1 DEF TakeLine, LineOk, CheckFinish
<1>3. UnreadSent' /\ Base' = Base
    BY UnreadAfterLine DEF AtLine
<1>4. Len(r) \in Nat
    BY RequestShape
<1>5. ASSUME NEW i \in 1 .. LineEnd
      PROVE  r[i] # "lf"
  <2>1. CASE i \in 1 .. readIndex
      BY <2>1 DEF AtLine
  <2>2. CASE i \in readIndex + 1 .. LineEnd - 1
      BY <1>1, <2>2
  <2>3. CASE i = LineEnd
      BY <1>2, <2>3
  <2> QED
      BY <1>1, <2>1, <2>2, <2>3
<1>6. ASSUME NEW i \in 2 .. LineEnd, r[i - 1] = "crlf", r[i] = "crlf"
      PROVE  FALSE
  <2>1. CASE i \in 2 .. readIndex
      BY <1>6, <2>1 DEF AtLine
  <2>2. CASE i = readIndex + 1
    <3>1. i \in readIndex + 1 .. LineEnd - 1
        BY <1>1, <2>2
    <3> QED
        BY <1>1, <1>6, <3>1
  <2>3. CASE i \in readIndex + 2 .. LineEnd
    <3>1. i - 1 \in readIndex + 1 .. LineEnd - 1
        BY <1>1, <2>3
    <3> QED
        BY <1>1, <1>6, <3>1
  <2> QED
      BY <1>1, <2>1, <2>2, <2>3
<1>7. LineEnd \in 0 .. Len(r) /\ LineEnd \in readIndex + 2 .. Len(r)
    BY <1>1, <1>4
<1>8. AtLine(r)'
    BY <1>2, <1>3, <1>5, <1>6, <1>7 DEF AtLine
<1> QED
    BY <1>1, <1>2, <1>3, <1>7, <1>8

\* parse_main() in request n, which has been read.
InWork(n, r) ==
  /\ IndexInv /\ Sequenced /\ IsRequest(n, r) /\ writeIndex <= got
  /\ ends[n] <= got /\ pc = "parse" /\ InRequest(n, r)

\* A step of parse_main() goes on in that request, or returns.
Goes(n, r) ==
  /\ pc \in {"parse", "respond"}
  /\ pc = "parse" => InRequest(n, r)
  /\ pc = "respond" => Returned(n, r)

\* Of the headers, none before the end of the next line is one that counts,
\* but for the one that begins there.
LEMMA HeaderAt ==
  ASSUME NEW r \in Requests, NEW a \in Nat, NEW e \in a + 2 .. Len(r),
         \A j \in a + 1 .. e - 1 : r[j] \notin {"crlf", "lf"},
         NEW i \in a + 1 .. e
  PROVE  /\ r[i] = "keep" => i = a + 1 /\ e = a + 2
         /\ i >= 2 /\ r[i - 1] = "crlf" => i = a + 1
<1>1. Len(r) \in Nat
    BY RequestShape
<1>2. i \in 1 .. Len(r) /\ (i # a + 1 => i - 1 \in a + 1 .. e - 1)
    BY <1>1
<1>3. i >= 2 /\ r[i - 1] = "crlf" => i = a + 1
    BY <1>2
<1>4. ASSUME r[i] = "keep"
      PROVE  i = a + 1 /\ e = a + 2
  <2>1. /\ r[i - 1] \in {"crlf", "lf"} /\ r[i + 1] = "crlf"
      BY <1>2, <1>4, RequestShape
  <2>2. i = a + 1
      BY <1>2, <2>1
  <2>3. i + 1 \notin a + 1 .. e - 1
      BY <2>1
  <2>4. e = a + 2
      BY <1>1, <2>2, <2>3
  <2> QED
      BY <2>2, <2>4
<1> QED
    BY <1>3, <1>4

\* The request line, or junk.
LEMMA RequestLineGoes ==
  ASSUME NEW n \in 1 .. Len(ends), NEW r \in Requests, InWork(n, r),
         ParseRequestLine
  PROVE  Goes(n, r)'
<1>1. /\ TakeLine /\ checkstate = "REQUESTLINE"
      /\ current' = IF Text = <<>> THEN 0 ELSE Text[1].req
      /\ contentLength' = contentLength /\ linger' = linger
      /\ lineStatus' = lineStatus /\ ends' = ends
    BY DEF ParseRequestLine, TakeLine, clientVars
<1>2. /\ lineStatus = "LINE_OK" /\ Base = Start(n) /\ AtLine(r)
      /\ readIndex = 0 /\ linger = FALSE /\ contentLength = 0
    BY <1>1 DEF InWork, InRequest
<1>3. /\ Len(r) \in Nat \ {0} /\ r[1] \in {"get", "junk"}
    BY RequestShape
<1>4. Text # <<>> /\ Text[1] = [kind |-> r[1], req |-> n]
  <2>1. /\ Text = <<>> <=> LineEnd = readIndex + 1
        /\ Text # <<>> => Text[1] = [kind |-> r[readIndex + 1], req |-> n]
        /\ r[LineEnd] \in {"crlf", "lf"}
      BY <1>2, LineOfRequest DEF InWork
  <2> HIDE DEF Text
  <2>2. LineEnd # 1
      BY <1>3, <2>1
  <2> QED
      BY <1>2, <2>1, <2>2
<1>5. /\ AtLine(r)' /\ Base' = Base
      /\ readIndex' = LineEnd /\ LineEnd \in readIndex + 2 .. Len(r)
      /\ r[LineEnd] = "crlf"
      /\ \A j \in readIndex + 1 .. LineEnd - 1 : r[j] \notin {"crlf", "lf"}
    BY <1>1, <1>2, <1>4, NextLine DEF InWork
<1>6. current' = n /\ (TextIs("get") <=> r[1] = "get")
    BY <1>1, <1>4 DEF TextIs
<1>7. Start(n)' = Start(n)
    BY <1>1 DEF Start
<1>8. CASE TextIs("get")
  <2>1. checkstate' = "HEADER" /\ pc' = "parse"
      BY <1>8 DEF ParseRequestLine, TakeLine
  <2>2. ASSUME NEW i \in 1 .. LineEnd
        PROVE  /\ r[i] # "keep"
               /\ ~(i >= 2 /\ r[i - 1] = "crlf")
    <3>1. 0 \in Nat /\ LineEnd \in 0 + 2 .. Len(r) /\ i \in 0 + 1 .. LineEnd
          /\ \A j \in 0 + 1 .. LineEnd - 1 : r[j] \notin {"crlf", "lf"}
        BY <1>2, <1>5
    <3>2. /\ r[i] = "keep" => i = 0 + 1
          /\ i >= 2 /\ r[i - 1] = "crlf" => i = 0 + 1
        BY <3>1, HeaderAt
    <3> QED
        BY <1>3, <3>2
  <2>3. HeadersSeen(r)'
    <3>1. readIndex' > 0 /\ r[readIndex'] = "crlf"
        BY <1>2, <1>5
    <3>2. linger' = FALSE /\ contentLength' = 0
        BY <1>1, <1>2
    <3>3. ~\E i \in 1 .. readIndex' : r[i] = "keep"
        BY <1>5, <2>2
    <3>4. ~\E i \in 2 .. readIndex' : r[i - 1] = "crlf" /\ r[i] = "len"
      <4>1. \A i \in 2 .. LineEnd : i \in 1 .. LineEnd /\ i >= 2
          OBVIOUS
      <4> QED
          BY <1>5, <2>2, <4>1
    <3> QED
        BY <3>1, <3>2, <3>3, <3>4 DEF HeadersSeen
  <2>4. InRequest(n, r)'
      BY <1>1, <1>2, <1>5, <1>6, <1>7, <1>8, <2>1, <2>3 DEF InRequest
  <2> QED
      BY <2>1, <2>4 DEF Goes
<1>9. CASE ~TextIs("get")
  <2>1. ret' = "MALFORMED" /\ pc' = "respond" /\ linger' = FALSE
      BY <1>1, <1>2, <1>9 DEF ParseRequestLine
  <2>2. r[1] = "junk"
      BY <1>3, <1>6, <1>9
  <2>3. Returned(n, r)'
      BY <1>6, <2>1, <2>2 DEF Returned
  <2> QED
      BY <2>1, <2>3 DEF Goes
<1> QED
    BY <1>8, <1>9

\* A header.
LEMMA HeaderGoes ==
  ASSUME NEW n \in 1 .. Len(ends), NEW r \in Requests, InWork(n, r),
         ParseHeader
  PROVE  Goes(n, r)'
<1>1. /\ TakeLine /\ checkstate = "HEADER" /\ Text # <<>>
      /\ linger' = (linger \/ (TextIs("keep") /\ Len(Text) = 1))
      /\ contentLength' = IF TextIs("len") THEN BodyLen ELSE contentLength
      /\ lineStatus' = lineStatus /\ ends' = ends /\ pc' = "parse"
      /\ checkstate' = checkstate /\ current' = current
    BY DEF ParseHeader, TakeLine, clientVars
<1>2. /\ lineStatus = "LINE_OK" /\ Base = Start(n) /\ AtLine(r)
      /\ current = n /\ r[1] = "get" /\ HeadersSeen(r)
    BY <1>1 DEF InWork, InRequest
<1>3. /\ AtLine(r)' /\ Base' = Base
      /\ readIndex' = LineEnd /\ LineEnd \in readIndex + 2 .. Len(r)
      /\ r[LineEnd] = "crlf"
      /\ \A j \in readIndex + 1 .. LineEnd - 1 : r[j] \notin {"crlf", "lf"}
    BY <1>1, <1>2, NextLine DEF InWork
<1>4. /\ Text[1] = [kind |-> r[readIndex + 1], req |-> n]
      /\ Len(Text) = 1 <=> LineEnd = readIndex + 2
      /\ readIndex \in Nat /\ LineEnd \in Nat
    BY <1>1, <1>2, LineOfRequest DEF InWork
<1>5. /\ TextIs("keep") <=> r[readIndex + 1] = "keep"
      /\ TextIs("len") <=> r[readIndex + 1] = "len"
    BY <1>1, <1>4 DEF TextIs
<1> HIDE DEF Text, TextIs
<1>6. ASSUME NEW i \in readIndex + 1 .. LineEnd
      PROVE  /\ r[i] = "keep" => i = readIndex + 1 /\ LineEnd = readIndex + 2
             /\ i >= 2 /\ r[i - 1] = "crlf" => i = readIndex + 1
    BY <1>3, <1>4, HeaderAt
<1>7. linger' <=> \E i \in 1 .. LineEnd : r[i] = "keep"
  <2>1. linger' <=> (linger \/ (TextIs("keep") /\ Len(Text) = 1))
      BY <1>1, Zenon
  <2>2. linger <=> \E i \in 1 .. readIndex : r[i] = "keep"
      BY <1>2 DEF HeadersSeen
  <2>3. \A i \in 1 .. readIndex : i \in 1 .. LineEnd
      BY <1>3, <1>4
  <2>4. readIndex + 1 \in 1 .. LineEnd /\ readIndex + 1 \in readIndex + 1 .. LineEnd
      BY <1>3, <1>4
  <2>5. \A i \in 1 .. LineEnd : i \in 1 .. readIndex \/ i \in readIndex + 1 .. LineEnd
      BY <1>3, <1>4
  <2>6. (TextIs("keep") /\ Len(Text) = 1) <=> r[readIndex + 1] = "keep"
      BY <1>4, <1>5, <1>6, <2>4
  <2>7. ASSUME NEW i \in 1 .. LineEnd, r[i] = "keep"
        PROVE  linger'
    <3>1. i \in 1 .. readIndex => linger
        BY <2>2, <2>7
    <3>2. i \in readIndex + 1 .. LineEnd => r[readIndex + 1] = "keep"
        BY <1>6, <2>7
    <3> QED
        BY <2>1, <2>5, <2>6, <3>1, <3>2
  <2>8. ASSUME linger'
        PROVE  \E i \in 1 .. LineEnd : r[i] = "keep"
      BY <2>1, <2>2, <2>3, <2>4, <2>6, <2>8
  <2> QED
      BY <2>7, <2>8
<1>8. contentLength' # 0 <=>
        \E i \in 2 .. LineEnd : r[i - 1] = "crlf" /\ r[i] = "len"
  <2>1. contentLength' # 0 <=> contentLength # 0 \/ r[readIndex + 1] = "len"
      BY <1>1, <1>5, ConstantsOK
  <2>2. contentLength # 0 <=>
          \E i \in 2 .. readIndex : r[i - 1] = "crlf" /\ r[i] = "len"
      BY <1>2 DEF HeadersSeen
  <2>3. /\ r[readIndex] = "crlf" /\ (readIndex + 1) - 1 = readIndex
        /\ readIndex + 1 \in 2 .. LineEnd
      BY <1>2, <1>3, <1>4 DEF HeadersSeen
  <2>4. \A i \in 2 .. readIndex : i \in 2 .. LineEnd
      BY <1>3, <1>4
  <2>5. \A i \in 2 .. LineEnd :
          i >= 2 /\ (i \in 2 .. readIndex \/ i \in readIndex + 1 .. LineEnd)
      BY <1>3, <1>4
  <2>6. ASSUME NEW i \in 2 .. LineEnd, r[i - 1] = "crlf" /\ r[i] = "len"
        PROVE  contentLength' # 0
    <3>1. CASE i \in 2 .. readIndex
        BY <2>1, <2>2, <2>6, <3>1
    <3>2. CASE i \in readIndex + 1 .. LineEnd
      <4>1. i = readIndex + 1
          BY <1>6, <2>5, <2>6, <3>2
      <4> QED
          BY <2>1, <2>6, <4>1
    <3> QED
        BY <2>5, <3>1, <3>2
  <2>7. ASSUME contentLength' # 0
        PROVE  \E i \in 2 .. LineEnd : r[i - 1] = "crlf" /\ r[i] = "len"
    <3>1. CASE contentLength # 0
        BY <2>2, <2>4, <3>1
    <3>2. CASE r[readIndex + 1] = "len"
        BY <2>3, <3>2
    <3> QED
        BY <2>1, <2>7, <3>1, <3>2
  <2> QED
      BY <2>6, <2>7
<1>9. HeadersSeen(r)'
  <2>1. readIndex' > 0 /\ r[readIndex'] = "crlf"
      BY <1>3, <1>4
  <2> QED
      BY <1>3, <1>7, <1>8, <2>1 DEF HeadersSeen
<1>10. Start(n)' = Start(n)
    BY <1>1 DEF Start
<1>11. InRequest(n, r)'
    BY <1>1, <1>2, <1>3, <1>9, <1>10 DEF InRequest
<1> QED
    BY <1>1, <1>11 DEF Goes

\* Behind the empty line there is the body, of the length the headers say.
LEMMA BodyBehind ==
  ASSUME NEW r \in Requests, NEW e \in 2 .. Len(r),
         r[e - 1] = "crlf", r[e] = "crlf"
  PROVE  /\ \A i \in e + 1 .. Len(r) : r[i] = "body"
         /\ (\E i \in 2 .. e : r[i - 1] = "crlf" /\ r[i] = "len") =>
              Len(r) = e + BodyLen
         /\ ~(\E i \in 2 .. e : r[i - 1] = "crlf" /\ r[i] = "len") =>
              Len(r) = e
<1>1. e \in DOMAIN r /\ e > 1
    BY RequestShape
<1>2. \/ Len(r) = e
      \/ \E i \in 2 .. e : r[i - 1] = "crlf" /\ r[i] = "len"
    BY <1>1, RequestsFramed
<1>3. /\ \A i \in e + 1 .. Len(r) : r[i] = "body"
      /\ (\E i \in 2 .. e : r[i - 1] = "crlf" /\ r[i] = "len") =>
           Len(r) = e + BodyLen
    BY RequestsWhole
<1> QED
    BY <1>2, <1>3

\* A kept request has no body, when no kept request has one.
LEMMA KeptNoBody ==
  ASSUME IndexInv, Sequenced, ~BodyKept, NEW n \in 1 .. Len(ends),
         NEW r \in Requests, IsRequest(n, r),
         NEW i \in 1 .. Len(r), r[i] = "keep",
         NEW j \in 1 .. Len(r), r[j] = "body"
  PROVE  FALSE
<1>1. Has(n, "keep") /\ Has(n, "body")
    BY RequestCells
<1>2. n \in DOMAIN ends
    BY LenProperties DEF IndexInv, TypeOK
<1> QED
    BY <1>1, <1>2 DEF BodyKept

\* The end of the headers: of a request with a body, all of it has been read.
LEMMA EndOfHeaderGoes ==
  ASSUME NEW n \in 1 .. Len(ends), NEW r \in Requests, InWork(n, r), ~BodyKept,
         ParseEndOfHeader
  PROVE  Goes(n, r)'
<1>1. /\ TakeLine /\ checkstate = "HEADER" /\ Text = <<>>
      /\ linger' = linger /\ contentLength' = contentLength /\ current' = current
      /\ lineStatus' = lineStatus /\ ends' = ends /\ writeIndex' = writeIndex
      /\ LineOk /\ readIndex' = LineEnd /\ checkIndex' = LineEnd
    BY DEF ParseEndOfHeader, TakeLine, clientVars, CheckFinish
<1>2. /\ lineStatus = "LINE_OK" /\ Base = Start(n) /\ AtLine(r)
      /\ current = n /\ r[1] = "get" /\ HeadersSeen(r)
    BY <1>1 DEF InWork, InRequest
<1>3. UnreadSent' /\ Base' = Base
    BY <1>1, <1>2, UnreadAfterLine DEF AtLine, InWork
<1>4. /\ LineEnd = readIndex + 1 /\ LineEnd \in readIndex + 1 .. Len(r)
      /\ r[LineEnd] = data[LineEnd].kind
      /\ readIndex \in Nat /\ LineEnd \in Nat
    BY <1>1, <1>2, LineOfRequest DEF InWork
<1>5. /\ r[LineEnd] = "crlf" /\ r[LineEnd - 1] = "crlf" /\ readIndex > 0
      /\ LineEnd \in 2 .. Len(r) /\ Len(r) \in Nat
    BY <1>1, <1>2, <1>4, RequestShape DEF LineOk, HeadersSeen
<1>6. /\ \A i \in LineEnd + 1 .. Len(r) : r[i] = "body"
      /\ (\E i \in 2 .. LineEnd : r[i - 1] = "crlf" /\ r[i] = "len") =>
           Len(r) = LineEnd + BodyLen
      /\ ~(\E i \in 2 .. LineEnd : r[i - 1] = "crlf" /\ r[i] = "len") =>
           Len(r) = LineEnd
    BY <1>5, BodyBehind
<1>7. contentLength # 0 <=>
        \E i \in 2 .. LineEnd : r[i - 1] = "crlf" /\ r[i] = "len"
  <2>1. contentLength # 0 <=>
          \E i \in 2 .. readIndex : r[i - 1] = "crlf" /\ r[i] = "len"
      BY <1>2 DEF HeadersSeen
  <2>2. r[LineEnd] # "len"
      BY <1>5
  <2>3. \A i \in 2 .. LineEnd : i \in 2 .. readIndex \/ i = LineEnd
      BY <1>4
  <2>4. \A i \in 2 .. readIndex : i \in 2 .. LineEnd
      BY <1>4
  <2> QED
      BY <2>1, <2>2, <2>3, <2>4
<1>8. linger <=> \E i \in 1 .. Len(r) : r[i] = "keep"
  <2>1. linger <=> \E i \in 1 .. readIndex : r[i] = "keep"
      BY <1>2 DEF HeadersSeen
  <2>2. r[LineEnd] # "keep" /\ \A i \in LineEnd + 1 .. Len(r) : r[i] # "keep"
      BY <1>5, <1>6
  <2>3. \A i \in 1 .. Len(r) :
          i \in 1 .. readIndex \/ i = LineEnd \/ i \in LineEnd + 1 .. Len(r)
      BY <1>4, <1>5
  <2>4. \A i \in 1 .. readIndex : i \in 1 .. Len(r)
      BY <1>4, <1>5
  <2> QED
      BY <2>1, <2>2, <2>3, <2>4
<1>9. CASE contentLength = 0
  <2>1. pc' = "respond" /\ ret' \in {"FILE_REQUEST", "NO_FILE"}
      BY <1>9 DEF ParseEndOfHeader, DoRequest
  <2>2. Base' + readIndex' = ends'[n]
      BY <1>1, <1>2, <1>3, <1>6, <1>7, <1>9 DEF InWork, IsRequest
  <2>3. linger' <=> r[1] = "get" /\ \E i \in 1 .. Len(r) : r[i] = "keep"
      BY <1>1, <1>2, <1>8
  <2>4. current' = n /\ ~(ret' = "MALFORMED") /\ ~(r[1] = "junk")
      BY <1>1, <1>2, <2>1
  <2>5. Returned(n, r)'
      BY <1>3, <2>1, <2>2, <2>3, <2>4 DEF Returned
  <2> QED
      BY <2>1, <2>5 DEF Goes
<1>10. CASE contentLength # 0
  <2>1. pc' = "parse" /\ checkstate' = "CONTENT"
      BY <1>1, <1>10 DEF ParseEndOfHeader, TakeLine
  <2>2. Len(r) = LineEnd + BodyLen /\ contentLength = BodyLen
        /\ BodyLen \in Nat \ {0}
      BY <1>6, <1>7, <1>10, ConstantsOK DEF InWork, IndexInv, TypeOK
  <2>3. BodyRead'
    <3>1. /\ Base \in Nat /\ got \in Nat /\ writeIndex \in Nat
          /\ Base + writeIndex = got /\ Base + Len(r) <= got
      <4>1. got \in Nat /\ writeIndex \in Nat /\ writeIndex <= got
          BY EndTypes DEF InWork, IndexInv
      <4>2. Base + Len(r) <= got
          BY <1>2 DEF InWork, IsRequest
      <4>3. Base = got - writeIndex
          BY DEF Base
      <4> HIDE DEF Base
      <4> QED
          BY <4>1, <4>2, <4>3
    <3> HIDE DEF Base
    <3>2. writeIndex >= LineEnd + BodyLen
        BY <1>4, <1>5, <2>2, <3>1
    <3> QED
        BY <1>1, <2>2, <3>2 DEF BodyRead
  <2>4. \A i \in 1 .. Len(r) : r[i] # "keep"
    <3>1. LineEnd + 1 \in 1 .. Len(r) /\ r[LineEnd + 1] = "body"
        BY <1>4, <1>5, <1>6, <2>2
    <3> QED
        BY <3>1, KeptNoBody DEF InWork
  <2>5. linger' = FALSE
    <3>1. linger \in BOOLEAN
        BY DEF InWork, IndexInv, TypeOK
    <3> QED
        BY <1>1, <1>8, <2>4, <3>1
  <2>6. Start(n)' = Start(n)
      BY <1>1 DEF Start
  <2>7. InRequest(n, r)'
      BY <1>1, <1>2, <1>3, <2>1, <2>3, <2>4, <2>5, <2>6 DEF InRequest
  <2> QED
      BY <2>1, <2>7 DEF Goes
<1> QED
    BY <1>9, <1>10

\* The body.
LEMMA ContentGoes ==
  ASSUME NEW n \in 1 .. Len(ends), NEW r \in Requests, InWork(n, r),
         ParseContent
  PROVE  Goes(n, r)'
<1>1. /\ BodyRead /\ linger = FALSE /\ current = n /\ r[1] = "get"
      /\ \A i \in 1 .. Len(r) : r[i] # "keep"
    BY DEF ParseContent, InWork, InRequest
<1>2. /\ pc' = "respond" /\ ret' \in {"FILE_REQUEST", "NO_FILE"}
      /\ linger' = linger /\ current' = current
    BY <1>1 DEF ParseContent, DoRequest
<1>3. Returned(n, r)'
    BY <1>1, <1>2 DEF Returned
<1> QED
    BY <1>2, <1>3 DEF Goes

\* No line: what stopped the parser is a bare "\n", and no keep-alive was seen.
LEMMA NoLineGoes ==
  ASSUME NEW n \in 1 .. Len(ends), NEW r \in Requests, InWork(n, r),
         ParseNoLine
  PROVE  Goes(n, r)'
<1>1. /\ pc' = "respond" /\ ret' = "OPEN_REQUEST" /\ linger' = linger /\ ~LineOk
      /\ ~(checkstate = "CONTENT" /\ lineStatus = "LINE_OK")
    BY DEF ParseNoLine, parseVars
<1>2. /\ checkstate \in {"REQUESTLINE", "HEADER"} /\ Base = Start(n) /\ AtLine(r)
      /\ checkstate = "REQUESTLINE" => linger = FALSE
      /\ checkstate = "HEADER" => HeadersSeen(r)
    BY <1>1 DEF InWork, InRequest, IndexInv, TypeOK
<1>3. /\ LineEnds # {} /\ LineEnd \in readIndex + 1 .. Len(r)
      /\ r[LineEnd] = data[LineEnd].kind /\ r[LineEnd] \in {"crlf", "lf"}
      /\ readIndex \in Nat
    BY <1>2, LineOfRequest DEF InWork
<1>4. r[LineEnd] = "lf" /\ LineEnd \in 1 .. Len(r)
    BY <1>1, <1>3 DEF LineOk
<1>5. linger = FALSE
  <2> SUFFICES ASSUME linger, checkstate = "HEADER"
               PROVE  FALSE
      BY <1>2 DEF InWork, IndexInv, TypeOK
  <2>1. PICK i \in 1 .. readIndex : r[i] = "keep"
      BY <1>2 DEF HeadersSeen
  <2>2. i \in 1 .. Len(r) /\ LineEnd \in i .. Len(r)
      BY <1>3
  <2> QED
      BY <1>4, <2>1, <2>2, RequestShape
<1>6. Returned(n, r)'
    BY <1>1, <1>4, <1>5 DEF Returned
<1> QED
    BY <1>1, <1>6 DEF Goes

\* A step of parse_main().
LEMMA ParseAligned ==
  ASSUME IndexInv, Sequenced, ~BodyKept, NEW n \in Nat, Aligned(n), ParseMain
  PROVE  Aligned(n)'
<1>1. /\ pc = "parse" /\ ends' = ends /\ stream' = stream /\ got' = got
      /\ writeIndex' = writeIndex /\ single' = single
    BY DEF ParseMain, ParseRequestLine, ParseHeader, ParseEndOfHeader, ParseContent,
           ParseNoLine, TakeLine, clientVars, readVars, bufVars
<1>2. /\ writeIndex <= got /\ n \in 1 .. Len(ends) /\ ends[n] <= got
      /\ single => got = ends[n]
    BY <1>1 DEF Aligned, Works
<1>3. PICK r \in Requests : IsRequest(n, r) /\ InRequest(n, r)
    BY <1>1 DEF Aligned, Works
<1>4. InWork(n, r)
    BY <1>1, <1>2, <1>3 DEF InWork
<1>5. Goes(n, r)'
    BY <1>2, <1>4, RequestLineGoes, HeaderGoes, EndOfHeaderGoes, ContentGoes,
       NoLineGoes
    DEF ParseMain
<1>6. IsRequest(n, r)'
    BY <1>1, <1>3 DEF IsRequest, Start
<1>7. Works(n)'
    BY <1>1, <1>2, <1>5, <1>6 DEF Works, Goes
<1>8. (\E m \in n .. Len(ends) + 1 : got = Start(m))'
    BY <1>1 DEF Aligned, Start
<1>9. pc' # "idle" /\ (writeIndex <= got)'
    BY <1>1, <1>2, <1>5 DEF Goes
<1> QED
    BY <1>7, <1>8, <1>9 DEF Aligned

\* A set of numbers of requests, with one element.
LEMMA OnlyOne ==
  ASSUME NEW N \in Nat, NEW S \in SUBSET (1 .. N), Cardinality(S) = 1,
         NEW a \in S, NEW b \in S
  PROVE  a = b
<1>1. IsFiniteSet(1 .. N)
    BY FS_Interval
<1>2. IsFiniteSet(S)
    BY <1>1, FS_Subset
<1>3. \E x : S = {x}
    BY <1>2, FS_Singleton
<1> QED
    BY <1>3

\* A read that ends at the end of a request: the next one has been read, and
\* if it brought one, just that.
LEMMA ReadAligned ==
  ASSUME IndexInv, Sequenced, NEW n \in Nat \ {0}, Aligned(n),
         NEW k \in 1 .. Len(stream), HandleRead(k), whole'
  PROVE  Aligned(n)'
<1>1. /\ pc = "idle" /\ pc' = "parse" /\ checkstate' = "REQUESTLINE"
      /\ lineStatus' = "LINE_OK" /\ contentLength' = 0 /\ linger' = FALSE
      /\ readIndex' = readIndex /\ checkIndex' = checkIndex
      /\ stream' = stream /\ ends' = ends
    BY DEF HandleRead, clientVars
<1>2. /\ writeIndex <= got
      /\ UnreadSent /\ readIndex = 0 /\ checkIndex = 0 /\ Base = Start(n)
      /\ single => got = Start(n)
    BY <1>1 DEF Aligned, Waits
<1>3. PICK m \in n .. Len(ends) + 1 : got = Start(m)
    BY DEF Aligned
<1>4. PICK q \in 1 .. Len(ends) : got' = ends[q]
  <2>1. \E q \in DOMAIN ends : got' = ends[q]
      BY DEF HandleRead
  <2>2. DOMAIN ends = 1 .. Len(ends)
      BY LenProperties DEF IndexInv, TypeOK
  <2> QED
      BY <2>1, <2>2
<1>5. /\ got' = got + k /\ got \in Nat /\ k \in Nat \ {0} /\ writeIndex \in Nat
      /\ writeIndex' = writeIndex + k
      /\ \A p \in 1 .. writeIndex : data'[p] = data[p]
      /\ \A p \in writeIndex + 1 .. writeIndex + k :
           data'[p] = stream[got + (p - writeIndex)]
    BY ReadData DEF IndexInv
<1>6. /\ Len(ends) \in Nat /\ \A i \in 1 .. Len(ends) : ends[i] \in Nat
      /\ \A i \in 1 .. Len(ends) + 1 : Start(i) \in Nat
      /\ \A i \in 1 .. Len(ends) : Start(i) < ends[i] /\ Start(i + 1) = ends[i]
    BY EndTypes
<1>7. m <= q
  <2> SUFFICES ASSUME q < m
               PROVE  FALSE
      BY <1>3, <1>4, <1>6
  <2>1. m \in 1 .. Len(ends) + 1
      BY <1>3, <1>6
  <2>2. ends[q] <= Start(m)
      BY <2>1, StartsOrdered
  <2> QED
      BY <1>3, <1>4, <1>5, <1>6, <2>1, <2>2
<1>8. n \in 1 .. Len(ends) /\ n <= q
    BY <1>3, <1>4, <1>6, <1>7
<1>9. ends[n] <= got'
  <2>1. n < q => ends[n] < ends[q]
      BY <1>8 DEF Sequenced
  <2>2. n = q \/ n < q
      BY <1>8, <1>6
  <2> QED
      BY <1>4, <1>6, <1>8, <2>1, <2>2
<1>10. ASSUME single'
       PROVE  got' = ends[n]
  <2> DEFINE S == {i \in DOMAIN ends : ends[i] \in got + 1 .. got'}
  <2>1. single /\ Cardinality(S) = 1
      BY <1>10, Zenon DEF HandleRead
  <2>2. DOMAIN ends = 1 .. Len(ends)
      BY LenProperties DEF IndexInv, TypeOK
  <2>3. got = Start(n) /\ Start(n) < ends[n] /\ Start(q) < ends[q]
      BY <1>2, <1>6, <1>8, <2>1
  <2>4. n \in S
    <3>1. got' \in Nat /\ got \in Nat /\ ends[n] \in Nat
        BY <1>4, <1>5, <1>6, <1>8
    <3>2. ends[n] \in got + 1 .. got'
        BY <1>9, <2>3, <3>1
    <3> QED
        BY <1>8, <2>2, <3>2
  <2>5. q \in S
    <3>1. ends[q] \in got + 1 .. got'
        BY <1>4, <1>5, <1>6
    <3> QED
        BY <2>2, <3>1
  <2>6. S \in SUBSET (1 .. Len(ends))
      BY <2>2
  <2> HIDE DEF S
  <2>7. n = q
      BY <1>6, <2>1, <2>4, <2>5, <2>6, OnlyOne
  <2> QED
      BY <1>4, <2>7
<1>11. Base' = Base /\ writeIndex' <= got'
  <2>1. got' - writeIndex' = got - writeIndex /\ writeIndex' <= got'
      BY <1>2, <1>5
  <2> QED
      BY <2>1 DEF Base
<1>12. UnreadSent'
  <2> SUFFICES ASSUME NEW j \in readIndex' + 1 .. writeIndex'
               PROVE  data'[j] = stream[Base + j]
      BY <1>1, <1>11 DEF UnreadSent
  <2>1. CASE j <= writeIndex
    <3>1. j \in 1 .. writeIndex /\ j \in readIndex + 1 .. writeIndex
        BY <1>1, <1>2, <1>5, <2>1
    <3> QED
        BY <1>2, <1>5, <3>1 DEF UnreadSent
  <2>2. CASE ~(j <= writeIndex)
    <3>1. j \in writeIndex + 1 .. writeIndex + k
        BY <1>1, <1>2, <1>5, <2>2
    <3>2. got + (j - writeIndex) = Base + j
        BY <1>5, <3>1 DEF Base
    <3> QED
        BY <1>5, <3>1, <3>2
  <2> QED
      BY <2>1, <2>2
<1>13. PICK r \in Requests : IsRequest(n, r)
    BY <1>8 DEF Sequenced
<1>14. IsRequest(n, r)' /\ Start(n)' = Start(n)
    BY <1>1, <1>13 DEF IsRequest, Start
<1>15. AtLine(r)'
  <2>1. Len(r) \in Nat
      BY RequestShape
  <2> QED
      BY <1>1, <1>2, <1>12, <2>1 DEF AtLine
<1>16. InRequest(n, r)'
    BY <1>1, <1>2, <1>11, <1>14, <1>15 DEF InRequest
<1>17. Works(n)'
    BY <1>1, <1>8, <1>9, <1>10, <1>14, <1>16 DEF Works
<1>18. (\E i \in n .. Len(ends) + 1 : got = Start(i))'
  <2>1. q + 1 \in n .. Len(ends) + 1 /\ got' = Start(q + 1)
      BY <1>4, <1>6, <1>8
  <2>2. Start(q + 1)' = Start(q + 1)
      BY <1>1 DEF Start
  <2>3. \A i : Start(i)' = Start(i)
      BY <1>1 DEF Start
  <2> QED
      BY <1>1, <2>1, <2>3
<1> QED
    BY <1>1, <1>11, <1>17, <1>18 DEF Aligned

\* An answer that is sent goes behind the others.
LEMMA AnswerAdded ==
  ASSUME IndexInv, state = "kConnected", ret # "OPEN_REQUEST",
         answers' = Responded
  PROVE  /\ Len(answers) \in Nat /\ Len(answers') = Len(answers) + 1
         /\ \A i \in 1 .. Len(answers) : answers'[i] = answers[i]
         /\ answers'[Len(answers) + 1] =
              [req |-> current, code |-> ret, linger |-> linger, got |-> got]
<1> DEFINE a == [req |-> current, code |-> ret, linger |-> linger, got |-> got]
<1>1. answers' = Append(answers, a)
    BY DEF Responded
<1>2. answers \in Seq(Answer) /\ a \in Answer
  <2>1. Len(stream) \in Nat /\ got \in 0 .. Len(stream)
      BY LenProperties DEF IndexInv, TypeOK
  <2>2. got \in Nat
      BY <2>1
  <2> QED
      BY <2>2 DEF IndexInv, TypeOK, Answer
<1> HIDE DEF a
<1>3. /\ Len(answers') = Len(answers) + 1 /\ Len(answers) \in Nat
      /\ \A i \in 1 .. Len(answers) : answers'[i] = answers[i]
      /\ answers'[Len(answers) + 1] = a
    BY <1>1, <1>2, AppendProperties, LenProperties
<1> QED
    BY <1>3 DEF a

\* What parse_main() has returned for request n makes the answer to it.
LEMMA NextAnswered ==
  ASSUME IndexInv, Sequenced, NEW n \in 1 .. Len(ends), n = Len(answers) + 1,
         NEW r \in Requests, IsRequest(n, r), Returned(n, r),
         state = "kConnected", ret # "OPEN_REQUEST", Answered,
         answers' = Responded, UNCHANGED clientVars
  PROVE  /\ Len(answers') = n /\ Len(answers) \in Nat
         /\ \A i \in 1 .. n : AnswerOf(i)'
         /\ \A i \in 1 .. Len(answers) : answers'[i].linger
         /\ answers'[n].linger <=> linger
<1>1. /\ Len(answers) \in Nat /\ Len(answers') = n
      /\ \A i \in 1 .. Len(answers) : answers'[i] = answers[i]
      /\ answers'[n] =
           [req |-> current, code |-> ret, linger |-> linger, got |-> got]
    BY AnswerAdded
<1>2. stream' = stream /\ ends' = ends
    BY DEF clientVars
<1>3. /\ Has(n, "junk") <=> \E i \in 1 .. Len(r) : r[i] = "junk"
      /\ Has(n, "keep") <=> \E i \in 1 .. Len(r) : r[i] = "keep"
    BY RequestCells
<1>4. /\ r[1] \in {"get", "junk"} /\ 1 \in 1 .. Len(r)
      /\ \A i \in 1 .. Len(r) : r[i] = "junk" => i = 1
  <2>1. /\ Len(r) \in Nat \ {0} /\ r[1] \in {"get", "junk"}
        /\ \A i \in 2 .. Len(r) : r[i] \notin {"get", "junk"}
      BY RequestShape
  <2>2. \A i \in 1 .. Len(r) : i = 1 \/ i \in 2 .. Len(r)
      BY <2>1
  <2> QED
      BY <2>1, <2>2
<1>5. Has(n, "junk") <=> r[1] = "junk"
    BY <1>3, <1>4
<1>6. /\ current = n
      /\ ret = "MALFORMED" <=> Has(n, "junk")
      /\ linger <=> Has(n, "keep") /\ ~Has(n, "junk")
    BY <1>3, <1>4, <1>5 DEF Returned
<1>7. AnswerOf(n)' /\ (answers'[n].linger <=> linger)
  <2>1. /\ answers'[n].req = n /\ answers'[n].code = ret
        /\ answers'[n].linger = linger
      BY <1>1, <1>6
  <2>2. \A kind : Has(n, kind)' <=> Has(n, kind)
      BY <1>2 DEF Has
  <2> QED
      BY <1>2, <1>6, <2>1, <2>2 DEF AnswerOf
<1>8. ASSUME NEW i \in 1 .. Len(answers)
      PROVE  AnswerOf(i)' /\ answers'[i].linger
  <2>1. AnswerOf(i) /\ answers[i].linger
      BY DEF Answered, AnswerOf
  <2>2. answers'[i] = answers[i]
      BY <1>1
  <2>3. \A kind : Has(i, kind)' <=> Has(i, kind)
      BY <1>2 DEF Has
  <2> QED
      BY <1>2, <2>1, <2>2, <2>3 DEF AnswerOf
<1>9. \A i \in 1 .. n : i = n \/ i \in 1 .. Len(answers)
    BY <1>1
<1> QED
    BY <1>1, <1>7, <1>8, <1>9

\* An answer without keep-alive, or none, ends the connection; on one that is
\* shut down there are no more.
LEMMA ShutdownAnswered ==
  ASSUME IndexInv, Sequenced, Answered, Ended,
         NEW n \in Nat, n = Len(answers) + 1, state = "kConnected" => Aligned(n),
         RespondAndShutdown
  PROVE  Answered' /\ Ended'
<1>1. /\ pc = "respond" /\ linger = FALSE /\ answers' = Responded
      /\ state' = "kDisconnecting" /\ UNCHANGED clientVars
      /\ stream' = stream /\ ends' = ends
    BY DEF RespondAndShutdown, clientVars, IndexInv, TypeOK
<1>2. state \in {"kConnected", "kDisconnecting"}
    BY DEF IndexInv, TypeOK
<1>3. \A i, kind : Has(i, kind)' <=> Has(i, kind)
    BY <1>1 DEF Has
<1>4. CASE state = "kDisconnecting"
  <2>1. answers' = answers
      BY <1>1, <1>4 DEF Responded
  <2>2. Answered'
      BY <1>1, <1>3, <1>4, <2>1 DEF Answered, AnswerOf
  <2>3. Ended'
      BY <1>3, <1>4, <2>1 DEF Ended, Has
  <2> QED
      BY <2>2, <2>3
<1>5. CASE state = "kConnected"
  <2>1. n \in 1 .. Len(ends)
      BY <1>1, <1>5 DEF Aligned, Works
  <2>2. PICK r \in Requests : IsRequest(n, r) /\ Returned(n, r)
      BY <1>1, <1>5 DEF Aligned, Works
  <2>3. CASE ret = "OPEN_REQUEST"
    <3>1. answers' = answers
        BY <1>1, <2>3 DEF Responded
    <3>2. \E i \in 1 .. Len(r) : r[i] = "lf"
        BY <2>2, <2>3 DEF Returned
    <3>3. Has(n, "lf")
        BY <2>1, <2>2, <3>2, RequestCells
    <3>4. Answered'
        BY <1>1, <1>3, <1>5, <3>1 DEF Answered, AnswerOf
    <3>5. Has(Len(answers) + 1, "lf")'
        BY <1>1, <3>1, <3>3 DEF Has
    <3> QED
        BY <3>4, <3>5 DEF Ended
  <2>4. CASE ret # "OPEN_REQUEST"
    <3>1. /\ Len(answers') = n /\ Len(answers) \in Nat
          /\ \A i \in 1 .. n : AnswerOf(i)'
          /\ \A i \in 1 .. Len(answers) : answers'[i].linger
          /\ answers'[n].linger <=> linger
        BY <1>1, <1>5, <2>1, <2>2, <2>4, NextAnswered
    <3>2. \A i \in 1 .. n : i = n \/ i \in 1 .. Len(answers)
        BY <3>1
    <3>3. Answered'
        BY <1>1, <3>1, <3>2 DEF Answered, AnswerOf
    <3>4. Len(answers') > 0 /\ ~answers'[Len(answers')].linger
        BY <1>1, <2>1, <3>1
    <3> QED
        BY <3>3, <3>4 DEF Ended
  <2> QED
      BY <2>3, <2>4
<1> QED
    BY <1>2, <1>4, <1>5

\* init() of inbuffer keeps what is unread.
LEMMA InitBufferUnread ==
  ASSUME IndexInv, UnreadSent, InitBuffer, readIndex <= writeIndex,
         UNCHANGED <<stream, got>>
  PROVE  /\ UnreadSent' /\ readIndex' = 0 /\ checkIndex' = 0
         /\ writeIndex' = writeIndex - readIndex /\ Base' = Base + readIndex
<1> DEFINE unread == writeIndex - readIndex
           f == [i \in DOMAIN data |->
                   IF i <= unread THEN data[readIndex + i]
                   ELSE IF unread = 0 /\ i <= writeIndex THEN Nul
                   ELSE data[i]]
<1>1. /\ writeIndex \in Nat /\ readIndex \in Nat /\ writeIndex <= Len(data)
      /\ Len(data) \in Nat /\ DOMAIN data = 1 .. Len(data) /\ got \in Int
  <2>1. data \in Seq(Cells) /\ writeIndex <= Len(data) /\ got \in 0 .. Len(stream)
        /\ Len(stream) \in Nat
      BY LenProperties DEF IndexInv, TypeOK
  <2> QED
      BY <2>1, LenProperties DEF IndexInv
<1>2. unread \in Nat /\ unread <= Len(data) /\ readIndex + unread = writeIndex
    BY <1>1
<1>3. ~(unread < 0)
    BY <1>2
<1>4. /\ readIndex' = 0 /\ checkIndex' = 0
      /\ writeIndex' = unread
      /\ data' = IF unread = 0 /\ writeIndex = Len(data) THEN <<>> ELSE f
  <2>1. /\ readIndex' = 0 /\ checkIndex' = 0
        /\ IF unread < 0 THEN UNCHANGED <<data, writeIndex>>
           ELSE /\ writeIndex' = unread
                /\ data' = IF unread = 0 /\ writeIndex = Len(data) THEN <<>>
                           ELSE f
      BY DEF InitBuffer, CheckAfterInit
  <2> HIDE DEF unread, f
  <2> QED
      BY <1>3, <2>1
<1>5. Base' = Base + readIndex
  <2>1. got - unread = (got - writeIndex) + readIndex
      BY <1>1
  <2> HIDE DEF unread
  <2> QED
      BY <1>4, <2>1 DEF Base
<1>6. ASSUME NEW j \in 1 .. unread
      PROVE  data'[j] = stream[(Base + readIndex) + j]
  <2>1. /\ unread # 0 /\ j \in DOMAIN data /\ j <= unread
        /\ readIndex + j \in readIndex + 1 .. writeIndex
      BY <1>1, <1>2
  <2>2. data' = f
    <3> HIDE DEF f, unread
    <3> QED
        BY <1>4, <2>1
  <2>3. data'[j] = data[readIndex + j]
      BY <2>1, <2>2
  <2>4. data[readIndex + j] = stream[Base + (readIndex + j)]
      BY <2>1 DEF UnreadSent
  <2>5. Base + (readIndex + j) = (Base + readIndex) + j
      BY <1>1, <2>1 DEF Base
  <2> QED
      BY <2>3, <2>4, <2>5
<1>7. UnreadSent'
  <2>1. readIndex' + 1 .. writeIndex' = 1 .. unread
      BY <1>4
  <2> HIDE DEF unread
  <2> QED
      BY <1>5, <1>6, <2>1 DEF UnreadSent
<1> QED
    BY <1>4, <1>5, <1>7

\* An answer with keep-alive: the next request is at the start of inbuffer.
LEMMA KeepAnswered ==
  ASSUME IndexInv, Sequenced, Answered, state = "kConnected",
         NEW n \in Nat, n = Len(answers) + 1, Aligned(n), RespondAndKeep
  PROVE  Answered' /\ Len(answers') + 1 = n + 1 /\ Aligned(n + 1)'
<1>1. /\ pc = "respond" /\ linger /\ answers' = Responded /\ InitBuffer
      /\ UNCHANGED clientVars /\ stream' = stream /\ ends' = ends /\ got' = got
      /\ single' = single
      /\ pc' = IF readIndex <= writeIndex THEN "idle" ELSE "undefined"
    BY DEF RespondAndKeep, clientVars, readVars
<1>2. /\ writeIndex <= got /\ n \in 1 .. Len(ends) /\ ends[n] <= got
      /\ single => got = ends[n]
    BY <1>1 DEF Aligned, Works
<1>3. PICK r \in Requests : IsRequest(n, r) /\ Returned(n, r)
    BY <1>1 DEF Aligned, Works
<1>4. /\ ret # "OPEN_REQUEST" /\ UnreadSent /\ Base + readIndex = ends[n]
    BY <1>1, <1>3 DEF Returned
<1>5. /\ Len(answers') = n /\ Len(answers) \in Nat
      /\ \A i \in 1 .. n : AnswerOf(i)'
      /\ \A i \in 1 .. Len(answers) : answers'[i].linger
      /\ answers'[n].linger <=> linger
    BY <1>1, <1>2, <1>3, <1>4, NextAnswered
<1>6. \A i \in 1 .. n : i = n \/ i \in 1 .. Len(answers)
    BY <1>5
<1>7. Answered'
    BY <1>1, <1>5, <1>6 DEF Answered, AnswerOf
<1>8. /\ Len(ends) \in Nat /\ got \in Nat /\ writeIndex \in Nat
      /\ readIndex \in Nat /\ ends[n] \in Nat
      /\ Start(n + 1) = ends[n] /\ Start(n) < ends[n] /\ Start(n) \in Nat
  <2>1. Len(ends) \in Nat /\ n \in 1 .. Len(ends) + 1
      BY <1>2, EndTypes
  <2> QED
      BY <1>2, <2>1, EndTypes DEF IndexInv
<1>9. readIndex <= writeIndex
  <2>1. (got - writeIndex) + readIndex <= got
      BY <1>2, <1>4 DEF Base
  <2> QED
      BY <1>8, <2>1
<1>10. /\ UnreadSent' /\ readIndex' = 0 /\ checkIndex' = 0
       /\ writeIndex' = writeIndex - readIndex /\ Base' = Base + readIndex
    BY <1>1, <1>4, <1>9, InitBufferUnread
<1>11. Start(n + 1)' = Start(n + 1)
    BY <1>1 DEF Start
<1>12. Waits(n + 1)'
    BY <1>1, <1>2, <1>4, <1>8, <1>10, <1>11 DEF Waits
<1>13. pc' = "idle" /\ (writeIndex <= got)'
    BY <1>1, <1>2, <1>8, <1>9, <1>10
<1>14. (\E m \in n + 1 .. Len(ends) + 1 : got = Start(m))'
  <2>1. PICK m \in n .. Len(ends) + 1 : got = Start(m)
      BY DEF Aligned
  <2>2. m # n
      BY <1>2, <1>8, <2>1
  <2>3. m \in n + 1 .. Len(ends) + 1
      BY <1>8, <2>1, <2>2
  <2>4. Start(m)' = Start(m)
      BY <1>1 DEF Start
  <2> QED
      BY <1>1, <2>1, <2>3, <2>4
<1>15. Aligned(n + 1)'
    BY <1>12, <1>13, <1>14 DEF Aligned
<1> QED
    BY <1>5, <1>7, <1>15

\* What sending a request leaves of those before.
LEMMA SendKeeps ==
  ASSUME IndexInv, Framing, Sequenced, NEW request \in Requests, Send(request)
  PROVE  /\ \A n \in 1 .. Len(ends) + 1 : Start(n)' = Start(n)
         /\ \A n \in 1 .. Len(ends), r \in Requests :
              IsRequest(n, r) => IsRequest(n, r)'
         /\ \A n : n = Len(ends) + 1 => IsRequest(n, request)'
         /\ \A n, kind : Has(n, kind) => Has(n, kind)'
         /\ \A n \in 1 .. Len(ends) : \A kind : Has(n, kind)' => Has(n, kind)
         /\ BodyKept => BodyKept'
<1> SUFFICES ASSUME NEW L, NEW m, NEW k,
                    L = Len(stream), m = Len(ends), k = Len(request)
             PROVE  /\ \A n \in 1 .. m + 1 : Start(n)' = Start(n)
                    /\ \A n \in 1 .. m, r \in Requests :
                         IsRequest(n, r) => IsRequest(n, r)'
                    /\ \A n : n = m + 1 => IsRequest(n, request)'
                    /\ \A n, kind : Has(n, kind) => Has(n, kind)'
                    /\ \A n \in 1 .. m : \A kind : Has(n, kind)' => Has(n, kind)
                    /\ BodyKept => BodyKept'
    OBVIOUS
<1>1. /\ L \in Nat /\ m \in Nat /\ k \in Nat \ {0}
      /\ Len(stream') = L + k /\ ends'[m + 1] = L + k /\ Len(ends') = m + 1
      /\ \A p \in 1 .. L : stream'[p] = stream[p]
      /\ \A i \in 1 .. k : stream'[L + i] = [kind |-> request[i], req |-> m + 1]
      /\ \A n \in 1 .. m : ends'[n] = ends[n]
    BY Sent
<1>2. /\ DOMAIN stream = 1 .. L /\ DOMAIN stream' = 1 .. L + k
      /\ DOMAIN ends = 1 .. m /\ DOMAIN ends' = 1 .. m + 1
  <2>1. DOMAIN stream = 1 .. L /\ DOMAIN ends = 1 .. m
      BY LenProperties DEF IndexInv, TypeOK
  <2>2. IndexInv'
      BY SendTypes
  <2>3. stream' \in Seq(Cells) /\ ends' \in Seq(1 .. Len(stream'))
      BY <2>2 DEF IndexInv, TypeOK
  <2>4. DOMAIN stream' = 1 .. Len(stream') /\ DOMAIN ends' = 1 .. Len(ends')
      BY <2>3, LenProperties
  <2> QED
      BY <1>1, <2>1, <2>4
<1>3. \A n \in 1 .. m + 1 : Start(n)' = Start(n)
  <2> SUFFICES ASSUME NEW n \in 1 .. m + 1
               PROVE  Start(n)' = Start(n)
      OBVIOUS
  <2>1. n # 1 => n - 1 \in 1 .. m
      BY <1>1
  <2>2. n # 1 => ends'[n - 1] = ends[n - 1]
      BY <1>1, <2>1
  <2> QED
      BY <2>2 DEF Start
<1>4. ASSUME NEW n \in 1 .. m, NEW r \in Requests, IsRequest(n, r)
      PROVE  IsRequest(n, r)'
  <2>1. /\ n \in 1 .. m + 1 /\ Start(n) \in Nat /\ Len(r) \in Nat
        /\ Start(n) + Len(r) <= L
    <3>1. n \in 1 .. m + 1
        BY <1>1
    <3>2. Start(n) \in Nat /\ ends[n] <= L /\ Len(r) \in Nat
        BY <3>1, EndTypes, RequestShape
    <3> QED
        BY <1>4, <3>1, <3>2 DEF IsRequest
  <2>2. Start(n)' = Start(n) /\ ends'[n] = ends[n]
      BY <1>1, <1>3, <2>1
  <2>3. ASSUME NEW i \in 1 .. Len(r)
        PROVE  stream'[Start(n) + i] = [kind |-> r[i], req |-> n]
    <3>1. Start(n) + i \in 1 .. L
        BY <1>1, <2>1
    <3> QED
        BY <1>1, <1>4, <3>1 DEF IsRequest
  <2> QED
      BY <1>4, <2>2, <2>3 DEF IsRequest
<1>5. ASSUME NEW n, n = m + 1
      PROVE  IsRequest(n, request)'
  <2>1. Start(n)' = L
    <3>1. Start(n) = L
        BY <1>5 DEF Framing
    <3>2. n \in 1 .. m + 1
        BY <1>1, <1>5
    <3> QED
        BY <1>3, <3>1, <3>2
  <2> QED
      BY <1>1, <1>5, <2>1 DEF IsRequest
<1>6. ASSUME NEW n, NEW kind, Has(n, kind)
      PROVE  Has(n, kind)'
  <2>1. PICK p \in 1 .. L : stream[p] = [kind |-> kind, req |-> n]
      BY <1>2, <1>6 DEF Has
  <2>2. p \in DOMAIN stream' /\ stream'[p] = stream[p]
      BY <1>1, <1>2
  <2> QED
      BY <2>1, <2>2 DEF Has
<1>7. ASSUME NEW n \in 1 .. m, NEW kind, Has(n, kind)'
      PROVE  Has(n, kind)
  <2>1. PICK p \in 1 .. L + k : stream'[p] = [kind |-> kind, req |-> n]
      BY <1>2, <1>7 DEF Has
  <2>2. CASE p <= L
    <3>1. p \in 1 .. L
        BY <1>1, <2>2
    <3> QED
        BY <1>1, <1>2, <2>1, <3>1 DEF Has
  <2>3. CASE ~(p <= L)
    <3>1. p - L \in 1 .. k /\ L + (p - L) = p /\ n # m + 1
        BY <1>1, <2>3
    <3>2. stream'[p] = [kind |-> request[p - L], req |-> m + 1]
        BY <1>1, <3>1
    <3>3. stream'[p].req = m + 1 /\ stream'[p].req = n
        BY <2>1, <3>2
    <3> QED
        BY <3>1, <3>3
  <2> QED
      BY <2>2, <2>3
<1>8. BodyKept => BodyKept'
  <2>1. \A n \in DOMAIN ends : n \in DOMAIN ends'
      BY <1>1, <1>2
  <2> QED
      BY <1>6, <2>1 DEF BodyKept
<1> QED
    BY <1>3, <1>4, <1>5, <1>6, <1>7, <1>8

\* A request that is sent goes behind the others.
LEMMA SequencedSend ==
  ASSUME IndexInv, Framing, Sequenced, NEW request \in Requests, Send(request)
  PROVE  Sequenced'
<1> SUFFICES ASSUME NEW L, NEW m, NEW k,
                    L = Len(stream), m = Len(ends), k = Len(request)
             PROVE  Sequenced'
    OBVIOUS
<1>1. /\ L \in Nat /\ m \in Nat /\ k \in Nat \ {0}
      /\ Len(stream') = L + k /\ ends'[m + 1] = L + k /\ Len(ends') = m + 1
      /\ \A p \in 1 .. L : stream'[p] = stream[p]
      /\ \A i \in 1 .. k : stream'[L + i] = [kind |-> request[i], req |-> m + 1]
      /\ \A n \in 1 .. m : ends'[n] = ends[n]
    BY Sent
<1>2. /\ \A n \in 1 .. m + 1 : Start(n)' = Start(n)
      /\ \A n \in 1 .. m, r \in Requests : IsRequest(n, r) => IsRequest(n, r)'
      /\ \A n : n = m + 1 => IsRequest(n, request)'
    BY SendKeeps
<1>3. \A n \in 1 .. m : ends[n] \in Nat /\ ends[n] <= L
    BY EndTypes
<1>4. ASSUME NEW n \in 1 .. m + 1
      PROVE  \E r \in Requests : IsRequest(n, r)'
  <2>1. CASE n = m + 1
      BY <1>2, <2>1
  <2>2. CASE n # m + 1
    <3>1. n \in 1 .. m
        BY <1>1, <2>2
    <3>2. PICK r \in Requests : IsRequest(n, r)
        BY <3>1 DEF Sequenced
    <3> QED
        BY <1>2, <3>1, <3>2
  <2> QED
      BY <2>1, <2>2
<1>5. ASSUME NEW a \in 1 .. m + 1, NEW b \in 1 .. m + 1, a < b
      PROVE  ends'[a] < ends'[b]
  <2>1. a \in 1 .. m /\ (b \in 1 .. m \/ b = m + 1)
      BY <1>1, <1>5
  <2>2. ends'[a] = ends[a] /\ ends[a] \in Nat /\ ends[a] <= L
      BY <1>1, <1>3, <2>1
  <2>3. CASE b \in 1 .. m
    <3>1. ends[a] < ends[b] /\ ends'[b] = ends[b]
        BY <1>1, <1>5, <2>1, <2>3 DEF Sequenced
    <3> QED
        BY <2>2, <3>1
  <2>4. CASE b = m + 1
      BY <1>1, <2>2, <2>4
  <2> QED
      BY <2>1, <2>3, <2>4
<1>6. ASSUME NEW p \in 1 .. L + k, NEW n, n = stream'[p].req
      PROVE  n \in 1 .. m + 1 /\ Start(n)' < p /\ p <= ends'[n]
  <2>1. CASE p <= L
    <3>1. p \in 1 .. L /\ stream'[p] = stream[p]
        BY <1>1, <2>1
    <3>2. n \in 1 .. m /\ Start(n) < p /\ p <= ends[n]
        BY <1>6, <3>1 DEF Sequenced
    <3>3. n \in 1 .. m + 1 /\ Start(n)' = Start(n) /\ ends'[n] = ends[n]
        BY <1>1, <1>2, <3>2
    <3> QED
        BY <3>2, <3>3
  <2>2. CASE ~(p <= L)
    <3>1. p - L \in 1 .. k /\ L + (p - L) = p
        BY <1>1, <2>2
    <3>2. stream'[p] = [kind |-> request[p - L], req |-> m + 1]
        BY <1>1, <3>1
    <3>3. n = m + 1
        BY <1>6, <3>2
    <3>4. m + 1 \in 1 .. m + 1 /\ Start(m + 1) = L
        BY <1>1 DEF Framing
    <3>5. Start(m + 1)' = L
        BY <1>2, <3>4
    <3>6. Start(n)' = L
        BY <3>3, <3>5
    <3>7. L < p /\ p <= L + k
        BY <1>1, <2>2
    <3> QED
        BY <1>1, <3>3, <3>4, <3>6, <3>7
  <2> QED
      BY <2>1, <2>2
<1>7. \A n \in 1 .. Len(ends') : \E r \in Requests : IsRequest(n, r)'
    BY <1>1, <1>4
<1>8. \A a, b \in 1 .. Len(ends') : a < b => ends'[a] < ends'[b]
    BY <1>1, <1>5
<1>9. \A p \in 1 .. Len(stream') :
        /\ stream'[p].req \in 1 .. Len(ends')
        /\ Start(stream[p].req)' < p /\ p <= ends'[stream'[p].req]
    BY <1>1, <1>6 DEF Start
<1> QED
    BY <1>7, <1>8, <1>9 DEF Sequenced

\* What the client sends meanwhile is behind all that the parser looks at.
LEMMA SendAligned ==
  ASSUME IndexInv, Framing, Sequenced, NEW n \in Nat \ {0}, Aligned(n),
         NEW request \in Requests, Send(request)
  PROVE  Aligned(n)'
<1>1. /\ \A i \in 1 .. Len(ends) + 1 : Start(i)' = Start(i)
      /\ \A i \in 1 .. Len(ends), r \in Requests :
           IsRequest(i, r) => IsRequest(i, r)'
    BY SendKeeps
<1>2. /\ Len(stream) \in Nat /\ Len(ends) \in Nat /\ Len(ends') = Len(ends) + 1
      /\ \A p \in 1 .. Len(stream) : stream'[p] = stream[p]
      /\ \A i \in 1 .. Len(ends) : ends'[i] = ends[i]
    BY Sent
<1>3. /\ got' = got /\ single' = single /\ data' = data
      /\ writeIndex' = writeIndex /\ readIndex' = readIndex
      /\ checkIndex' = checkIndex /\ pc' = pc /\ checkstate' = checkstate
      /\ lineStatus' = lineStatus /\ contentLength' = contentLength
      /\ linger' = linger /\ current' = current /\ ret' = ret
      /\ Base' = Base
    BY DEF Send, readVars, bufVars, parseVars, Base
<1>4. PICK m \in n .. Len(ends) + 1 : got = Start(m)
    BY DEF Aligned
<1>5. n \in 1 .. Len(ends) + 1 /\ m \in 1 .. Len(ends) + 1
      /\ m \in n .. Len(ends') + 1
    BY <1>2, <1>4
<1>6. Start(n)' = Start(n) /\ Start(m)' = Start(m)
    BY <1>1, <1>5
<1>7. (\E i \in n .. Len(ends) + 1 : got = Start(i))'
    BY <1>3, <1>4, <1>5, <1>6
<1>8. writeIndex <= got
    BY DEF Aligned
<1>9. UnreadSent => UnreadSent'
  <2> SUFFICES ASSUME UnreadSent, NEW j \in readIndex + 1 .. writeIndex
               PROVE  data[j] = stream'[Base + j]
      BY <1>3 DEF UnreadSent
  <2>1. /\ got \in Nat /\ writeIndex \in Nat /\ readIndex \in Nat
        /\ got <= Len(stream)
    <3>1. got \in 0 .. Len(stream)
        BY DEF IndexInv, TypeOK
    <3> QED
        BY <1>2, <3>1 DEF IndexInv
  <2>2. Base + j \in 1 .. Len(stream)
    <3>1. (got - writeIndex) + j \in 1 .. Len(stream)
        BY <1>2, <1>8, <2>1
    <3> QED
        BY <3>1 DEF Base
  <2> QED
      BY <1>2, <2>2 DEF UnreadSent
<1>10. pc = "idle" => Waits(n)'
    BY <1>3, <1>6, <1>9 DEF Aligned, Waits
<1>11. ASSUME pc # "idle"
       PROVE  Works(n)'
  <2>1. /\ pc \in {"parse", "respond"} /\ n \in 1 .. Len(ends) /\ ends[n] <= got
        /\ single => got = ends[n]
      BY <1>11 DEF Aligned, Works
  <2>2. PICK r \in Requests :
          /\ IsRequest(n, r)
          /\ pc = "parse" => InRequest(n, r)
          /\ pc = "respond" => Returned(n, r)
      BY <1>11 DEF Aligned, Works
  <2>3. IsRequest(n, r)' /\ ends'[n] = ends[n] /\ n \in 1 .. Len(ends')
      BY <1>1, <1>2, <2>1, <2>2
  <2>4. AtLine(r) => AtLine(r)'
      BY <1>3, <1>9 DEF AtLine
  <2>5. HeadersSeen(r) => HeadersSeen(r)'
      BY <1>3 DEF HeadersSeen
  <2>6. InRequest(n, r) => InRequest(n, r)'
      BY <1>3, <1>6, <2>4, <2>5 DEF InRequest, BodyRead
  <2>7. Returned(n, r) => Returned(n, r)'
      BY <1>3, <1>9, <2>3 DEF Returned
  <2> QED
      BY <1>3, <2>1, <2>2, <2>3, <2>6, <2>7 DEF Works
<1> QED
    BY <1>3, <1>7, <1>8, <1>10, <1>11 DEF Aligned

\* Nor does it change what is said of the answers.
LEMMA SendAnswered ==
  ASSUME IndexInv, Framing, Sequenced, NEW request \in Requests, Send(request),
         Answered, Ended
  PROVE  Answered' /\ Ended'
<1>1. /\ \A n, kind : Has(n, kind) => Has(n, kind)'
      /\ \A n \in 1 .. Len(ends) : \A kind : Has(n, kind)' => Has(n, kind)
    BY SendKeeps
<1>2. Len(ends) \in Nat /\ Len(ends') = Len(ends) + 1
    BY Sent
<1>3. answers' = answers /\ state' = state
    BY DEF Send, connVars
<1>4. ASSUME NEW i \in 1 .. Len(answers)
      PROVE  /\ i \in 1 .. Len(ends') /\ answers[i].req = i
             /\ answers[i].code = "MALFORMED" <=> Has(i, "junk")'
             /\ answers[i].linger <=> Has(i, "keep")' /\ ~Has(i, "junk")'
             /\ answers[i].linger \/ (i = Len(answers) /\ state = "kDisconnecting")
  <2>1. /\ i \in 1 .. Len(ends) /\ answers[i].req = i
        /\ answers[i].code = "MALFORMED" <=> Has(i, "junk")
        /\ answers[i].linger <=> Has(i, "keep") /\ ~Has(i, "junk")
        /\ answers[i].linger \/ (i = Len(answers) /\ state = "kDisconnecting")
      BY DEF Answered, AnswerOf
  <2>2. i \in 1 .. Len(ends')
      BY <1>2, <2>1
  <2>3. /\ Has(i, "junk")' <=> Has(i, "junk")
        /\ Has(i, "keep")' <=> Has(i, "keep")
      BY <1>1, <2>1
  <2> QED
      BY <2>1, <2>2, <2>3
<1>5. Answered'
    BY <1>3, <1>4 DEF Answered, AnswerOf
<1>6. Has(Len(answers) + 1, "lf") => Has(Len(answers) + 1, "lf")'
  <2> SUFFICES ASSUME NEW n, n = Len(answers) + 1, Has(n, "lf")
               PROVE  Has(Len(answers) + 1, "lf")'
      OBVIOUS
  <2>1. Has(n, "lf")' /\ n = Len(answers') + 1
      BY <1>1, <1>3
  <2> QED
      BY <2>1 DEF Has
<1>7. Ended'
    BY <1>3, <1>6 DEF Ended
<1> QED
    BY <1>5, <1>7

\* Nothing has been sent at the start.
LEMMA InitOrder == Init => OrderInv
<1> SUFFICES ASSUME Init
             PROVE  OrderInv
    OBVIOUS
<1>1. /\ stream = <<>> /\ ends = <<>> /\ answers = <<>>
      /\ Len(stream) = 0 /\ Len(ends) = 0 /\ Len(answers) = 0
      /\ state = "kConnected" /\ pc = "idle" /\ got = 0 /\ writeIndex = 0
      /\ readIndex = 0 /\ checkIndex = 0
    BY EmptySeq DEF Init
<1>2. IndexInv /\ Framing
    BY InitComplete DEF CompleteInv
<1>3. Sequenced
    BY <1>1 DEF Sequenced
<1>4. Answered /\ Ended
    BY <1>1 DEF Answered, AnswerOf, Ended
<1>5. Start(1) = 0 /\ Base = 0
    BY <1>1 DEF Start, Base
<1>6. UnreadSent
    BY <1>1 DEF UnreadSent
<1>7. Aligned(1)
    BY <1>1, <1>5, <1>6 DEF Aligned, Waits
<1>8. \E n \in Nat : n = Len(answers) + 1 /\ Aligned(n)
    BY <1>1, <1>7
<1> QED
    BY <1>2, <1>3, <1>4, <1>8 DEF OrderInv

\* What is said of the answers, in steps that neither answer nor send.
LEMMA AnsweredKept ==
  ASSUME Answered, Ended, UNCHANGED <<stream, ends, answers, state>>
  PROVE  Answered' /\ Ended'
    BY DEF Answered, AnswerOf, Ended, Has

\* Every step.
LEMMA NextOrder == OrderInv /\ [Next]_vars => OrderInv'
<1> SUFFICES ASSUME OrderInv, [Next]_vars
             PROVE  OrderInv'
    OBVIOUS
<1> DEFINE Open == \E n \in Nat : n = Len(answers) + 1 /\ Aligned(n)
<1>1. IndexInv /\ Framing /\ Sequenced /\ IndexInv'
    BY IndexStep DEF OrderInv
<1>2. /\ Len(answers) \in Nat
      /\ \A n : n = Len(answers) + 1 => n \in Nat \ {0}
  <2>1. Len(answers) \in Nat
      BY <1>1, LenProperties DEF IndexInv, TypeOK
  <2> QED
      BY <2>1
<1>3. whole /\ ~BodyKept =>
        Answered /\ Ended /\ (state = "kConnected" => Open)
    BY DEF OrderInv
<1> HIDE DEF Open
<1>4. ASSUME UNCHANGED clientVars
      PROVE  Framing' /\ Sequenced' /\ (BodyKept' <=> BodyKept)
  <2>1. stream' = stream /\ ends' = ends
      BY <1>4 DEF clientVars
  <2>2. Sequenced'
      BY <1>1, <2>1 DEF Sequenced, IsRequest, Start
  <2>3. BodyKept' <=> BodyKept
      BY <2>1 DEF BodyKept, Has
  <2> QED
      BY <1>1, <1>4, <2>2, <2>3, FramingKept
<1>5. ASSUME NEW request \in Requests, Send(request)
      PROVE  OrderInv'
  <2>1. Framing' /\ Sequenced' /\ (BodyKept => BodyKept')
      BY <1>1, <1>5, FramingSend, SequencedSend, SendKeeps
  <2>2. whole' = whole /\ state' = state /\ answers' = answers
      BY <1>5 DEF Send, readVars, connVars
  <2>3. Answered /\ Ended => Answered' /\ Ended'
      BY <1>1, <1>5, SendAnswered
  <2>4. Open => Open'
    <3> SUFFICES ASSUME NEW n \in Nat, n = Len(answers) + 1, Aligned(n)
                 PROVE  Aligned(n)' /\ n = Len(answers') + 1
        BY DEF Open
    <3> QED
        BY <1>1, <1>2, <1>5, <2>2, SendAligned
  <2> QED
      BY <1>1, <1>3, <2>1, <2>2, <2>3, <2>4 DEF OrderInv, Open
<1>6. ASSUME NEW k \in 1 .. Len(stream), HandleRead(k)
      PROVE  OrderInv'
  <2>1. /\ UNCHANGED <<stream, ends, answers, state>> /\ UNCHANGED clientVars
        /\ answers' = answers /\ state' = state
      BY <1>6 DEF HandleRead, clientVars, connVars
  <2>2. whole' => whole
    <3>1. whole' = (whole /\ \E n \in DOMAIN ends : got' = ends[n])
        BY <1>6 DEF HandleRead
    <3> QED
        BY <3>1, Zenon
  <2>3. Answered /\ Ended => Answered' /\ Ended'
      BY <2>1, AnsweredKept
  <2>4. Open /\ whole' => Open'
    <3> SUFFICES ASSUME NEW n \in Nat, n = Len(answers) + 1, Aligned(n), whole'
                 PROVE  Aligned(n)' /\ n = Len(answers') + 1
        BY DEF Open
    <3> QED
        BY <1>1, <1>2, <1>6, <2>1, ReadAligned
  <2> QED
      BY <1>1, <1>3, <1>4, <2>1, <2>2, <2>3, <2>4 DEF OrderInv, Open
<1>7. CASE ParseMain
  <2>1. /\ UNCHANGED <<stream, ends, answers, state>> /\ UNCHANGED clientVars
        /\ answers' = answers /\ state' = state /\ whole' = whole
      BY <1>7
      DEF ParseMain, ParseRequestLine, ParseHeader, ParseEndOfHeader, ParseContent,
          ParseNoLine, TakeLine, connVars, clientVars, readVars
  <2>2. Answered /\ Ended => Answered' /\ Ended'
      BY <2>1, AnsweredKept
  <2>3. Open /\ ~BodyKept => Open'
    <3> SUFFICES ASSUME NEW n \in Nat, n = Len(answers) + 1, Aligned(n), ~BodyKept
                 PROVE  Aligned(n)' /\ n = Len(answers') + 1
        BY DEF Open
    <3> QED
        BY <1>1, <1>7, <2>1, ParseAligned
  <2> QED
      BY <1>1, <1>3, <1>4, <2>1, <2>2, <2>3 DEF OrderInv, Open
<1>8. CASE RespondAndShutdown
  <2>1. /\ UNCHANGED clientVars /\ whole' = whole /\ state' = "kDisconnecting"
      BY <1>8 DEF RespondAndShutdown, readVars
  <2>2. ASSUME whole, ~BodyKept
        PROVE  Answered' /\ Ended'
    <3>1. PICK n \in Nat : n = Len(answers) + 1
        BY <1>2
    <3>2. state = "kConnected" => Aligned(n)
        BY <1>3, <2>2, <3>1 DEF Open
    <3> QED
        BY <1>1, <1>3, <1>8, <2>2, <3>1, <3>2, ShutdownAnswered
  <2> QED
      BY <1>1, <1>4, <2>1, <2>2 DEF OrderInv
<1>9. CASE RespondAndKeep
  <2>1. /\ UNCHANGED clientVars /\ whole' = whole /\ state' = state
        /\ UNCHANGED <<stream, ends, state>>
      BY <1>9 DEF RespondAndKeep, readVars, clientVars
  <2>2. CASE state = "kConnected"
    <3>1. ASSUME whole, ~BodyKept
          PROVE  Answered' /\ Ended' /\ Open'
      <4>1. PICK n \in Nat : n = Len(answers) + 1 /\ Aligned(n)
          BY <1>3, <2>2, <3>1 DEF Open
      <4>2. Answered' /\ Len(answers') + 1 = n + 1 /\ Aligned(n + 1)'
          BY <1>1, <1>3, <1>9, <2>2, <3>1, <4>1, KeepAnswered
      <4>3. Ended'
          BY <2>1, <2>2 DEF Ended
      <4>4. PICK m \in Nat : m = n + 1
          OBVIOUS
      <4>5. Aligned(m)' /\ m = Len(answers') + 1
          BY <4>2, <4>4
      <4> QED
          BY <4>2, <4>3, <4>5 DEF Open
    <3> QED
        BY <1>1, <1>4, <2>1, <3>1 DEF OrderInv, Open
  <2>3. CASE state # "kConnected"
    <3>1. answers' = answers
        BY <1>9, <2>3 DEF RespondAndKeep, Responded
    <3>2. Answered /\ Ended => Answered' /\ Ended'
        BY <2>1, <3>1, AnsweredKept
    <3> QED
        BY <1>1, <1>3, <1>4, <2>1, <2>3, <3>2 DEF OrderInv
  <2> QED
      BY <2>2, <2>3
<1>10. CASE UNCHANGED vars
  <2>1. /\ UNCHANGED <<stream, ends, answers, state>> /\ UNCHANGED clientVars
        /\ answers' = answers /\ state' = state /\ whole' = whole
      BY <1>10 DEF vars, clientVars, connVars, readVars
  <2>2. Answered /\ Ended => Answered' /\ Ended'
      BY <2>1, AnsweredKept
  <2>3. Open => Open'
    <3> SUFFICES ASSUME NEW n \in Nat, n = Len(answers) + 1, Aligned(n)
                 PROVE  Aligned(n)' /\ n = Len(answers') + 1
        BY DEF Open
    <3>1. Waits(n) => Waits(n)'
        BY <1>10
        DEF vars, clientVars, readVars, bufVars, Waits, UnreadSent, Base, Start
    <3>2. Works(n) => Works(n)'
        BY <1>10
        DEF vars, clientVars, readVars, bufVars, parseVars, Works, IsRequest,
            InRequest, Returned, AtLine, HeadersSeen, UnreadSent, Base, Start,
            BodyRead
    <3> QED
        BY <1>10, <3>1, <3>2
        DEF vars, clientVars, readVars, bufVars, connVars, Aligned, Start
  <2> QED
      BY <1>1, <1>3, <1>4, <2>1, <2>2, <2>3 DEF OrderInv, Open
<1> QED
    BY <1>5, <1>6, <1>7, <1>8, <1>9, <1>10 DEF Next

\* As long as each read ends at the end of a request, and no kept request has a
\* body, the answers are those of the requests, one for each and in order, and
\* an answer without keep-alive is the last; and if each read brings just one
\* request, it is answered at once, and nothing but such an answer, or a bare
\* "\n", ends the connection: for any requests that are whole (RequestsWhole)
\* and framed (RequestsFramed).
THEOREM OneAnswerEach == Spec => []AnswersInOrder
<1>1. OrderInv => AnswersInOrder
  <2> SUFFICES ASSUME OrderInv, whole, ~BodyKept
               PROVE  AnswersInOrder
      BY DEF AnswersInOrder
  <2>1. /\ IndexInv /\ Answered /\ Ended
        /\ state = "kConnected" =>
             \E n \in Nat : n = Len(answers) + 1 /\ Aligned(n)
      BY DEF OrderInv
  <2>2. /\ Len(answers) \in Nat /\ DOMAIN answers = 1 .. Len(answers)
        /\ state \in {"kConnected", "kDisconnecting"}
      BY <2>1, LenProperties DEF IndexInv, TypeOK
  <2>3. ASSUME NEW i \in DOMAIN answers
        PROVE  /\ answers[i].req = i
               /\ answers[i].code = "MALFORMED" <=> Has(i, "junk")
               /\ answers[i].linger <=> Has(i, "keep") /\ ~Has(i, "junk")
               /\ ~answers[i].linger /\ pc = "idle" =>
                    i = Len(answers) /\ state = "kDisconnecting"
    <3>1. i \in 1 .. Len(answers)
        BY <2>2
    <3> QED
        BY <2>1, <3>1 DEF Answered, AnswerOf
  <2>4. ASSUME single, pc = "idle", NEW n, n = Len(answers)
        PROVE  IF state = "kConnected" THEN got = IF n = 0 THEN 0 ELSE ends[n]
               ELSE (n > 0 /\ ~answers[n].linger) \/ Has(n + 1, "lf")
    <3>1. CASE state = "kConnected"
      <4>1. got = Start(n + 1)
          BY <2>1, <2>4, <3>1 DEF Aligned, Waits
      <4>2. n \in Nat /\ (n + 1 = 1 <=> n = 0) /\ (n + 1) - 1 = n
          BY <2>2, <2>4
      <4> QED
          BY <3>1, <4>1, <4>2 DEF Start
    <3>2. CASE state # "kConnected"
      <4>1. state = "kDisconnecting"
          BY <2>2, <3>2
      <4> QED
          BY <2>1, <2>4, <4>1 DEF Ended
    <3> QED
        BY <3>1, <3>2
  <2> QED
      BY <2>3, <2>4 DEF AnswersInOrder
<1> QED
    BY <1>1, InitOrder, NextOrder, PTL DEF Spec
==============================================================================
