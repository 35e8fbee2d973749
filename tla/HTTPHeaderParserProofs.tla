----------------------- MODULE HTTPHeaderParserProofs -----------------------
(***************************************************************************)
(* What holds of parseHTTPHeader for requests of any length.               *)
(***************************************************************************)
EXTENDS HTTPHeaderParser, TLAPS, FiniteSetTheorems

\* The loop has not started before the request is decoded.
NotStarted == pc = "decode" => i = 1 /\ emptyIndex = 1 /\ header = <<>> /\ body = <<>>

LEMMA IntConversion ==
    ASSUME NEW n \in Nat, ~(ToInt(n) < 0)
    PROVE  ToInt(n) \in Nat
<1>1. IntMax \in Nat
      BY ParserAssumption DEF ParserAssumption
<1>2. (n + IntMax + 1) % (2 * (IntMax + 1)) \in Int
      BY <1>1
<1> QED BY <1>1, <1>2 DEF ToInt

LEMMA TypeInit == Init => TypeOK
<1> SUFFICES ASSUME Init PROVE TypeOK
      OBVIOUS
<1>1. lines \in Seq(Kinds)
      BY ParserAssumption DEF ParserAssumption, Init
<1>2. header \in Seq(Nat) /\ body \in Seq(Nat)
      BY DEF Init
<1>3. /\ file \in Files /\ fileSize \in Nat /\ stream \in Nat /\ read \in Nat
      /\ changed \in BOOLEAN /\ text \in Texts /\ sent \in Nat
      BY DEF Init, Files, Texts
<1> QED BY <1>1, <1>2, <1>3 DEF Init, TypeOK, Statuses

LEMMA TypeStep ==
    ASSUME TypeOK, [Next]_vars
    PROVE  TypeOK'
<1> USE DEF TypeOK, input, split, disk, array, response, Goto, Fail, Succeed, Statuses
<1>1. CASE Decode
  <2>1. lines' \in Seq(Kinds)
    <3>1. <<"empty">> \in Seq(Kinds)
          BY DEF Kinds
    <3> QED BY <1>1, <3>1 DEF Decode
  <2> QED BY <1>1, <2>1 DEF Decode
<1>2. CASE ScanLine
  <2>1. i' \in Nat \ {0} /\ emptyIndex' \in Nat \ {0}
        BY <1>2 DEF ScanLine, BodyLine
  <2>2. header' \in Seq(Nat)
    <3>1. header' = header \/ header' = Append(header, i)
          BY <1>2 DEF ScanLine, BodyLine
    <3>2. Append(header, i) \in Seq(Nat)
          OBVIOUS
    <3> QED BY <3>1, <3>2
  <2>3. body' \in Seq(Nat)
    <3>1. body' = body \/ body' = Append(body, emptyIndex + 1)
          BY <1>2 DEF ScanLine, BodyLine
    <3>2. Append(body, emptyIndex + 1) \in Seq(Nat)
          OBVIOUS
    <3> QED BY <3>1, <3>2
  <2> QED BY <1>2, <2>1, <2>2, <2>3 DEF ScanLine, BodyLine
<1>3. CASE ScanEnd
      BY <1>3 DEF ScanEnd
<1>4. CASE CheckFields
      BY <1>4 DEF CheckFields
<1>5. CASE CheckStatusLine
      BY <1>5 DEF CheckStatusLine
<1>6. CASE Exists
      BY <1>6 DEF Exists
<1>7. CASE Length
  <2>1. PICK n \in IF file = Directory THEN Sizes ELSE IF file = NoFile THEN {0} ELSE {file} :
           IF ToInt(n) < 0
           THEN Goto("thrown") /\ UNCHANGED fileSize
           ELSE Goto("open") /\ fileSize' = ToInt(n)
        BY <1>7 DEF Length
  <2>2. n \in Nat
        BY <2>1, ParserAssumption DEF ParserAssumption, Files
  <2>3. fileSize' \in Nat
        BY <2>1, <2>2, IntConversion
  <2> QED BY <1>7, <2>1, <2>3 DEF Length
<1>8. CASE Open
  <2>1. stream' \in Nat
        BY <1>8, ParserAssumption DEF Open, ParserAssumption
  <2> QED BY <1>8, <2>1 DEF Open
<1>9. CASE ReadFile
  <2>1. read' \in Nat
        BY <1>9, ParserAssumption DEF ReadFile, ParserAssumption
  <2>2. text' \in Texts
        BY <1>9 DEF ReadFile, Texts
  <2> QED BY <1>9, <2>1, <2>2 DEF ReadFile
<1>10. CASE ReadFails
      BY <1>10 DEF ReadFails
<1>11. CASE Method
  <2>1. AnswerPage => sent' \in Nat
        BY DEF AnswerPage
  <2> QED BY <1>11, <2>1 DEF Method, AnswerPage
<1>12. CASE Deploy
      BY <1>12 DEF Deploy
<1>13. CASE UNCHANGED vars
      BY <1>13 DEF vars
<1> QED BY <1>1, <1>2, <1>3, <1>4, <1>5, <1>6, <1>7, <1>8, <1>9, <1>10, <1>11, <1>12, <1>13
        DEF Next, Parse

\* Type correctness, the conversion of the file's length to an int included:
\* no array of negative size is allocated.
THEOREM TypeCorrect == Spec => []TypeOK
BY TypeInit, TypeStep, PTL DEF Spec

-----------------------------------------------------------------------------
(* The loop that divides the request. *)

\* The parts of LoopInvariant, so that a turn of the loop is proved piecewise.
LastBlank(ls, n, e) ==
    /\ n <= Len(ls) + 1
    /\ e = 1 \/ (e < n /\ e \in 2..Len(ls) /\ ls[e] = "empty")
    /\ \A b \in (e + 1)..(n - 1) : ls[b] # "empty"

HeaderLine(ls, k) ==
    /\ k \in 1..Len(ls)
    /\ ls[k] # "empty"
    /\ \A b \in 2..k : ls[b] # "empty"

BodyPiece(ls, k) ==
    /\ k \in 1..Len(ls)
    /\ ls[k] # "empty"
    /\ k - 1 \in 2..Len(ls) /\ ls[k - 1] = "empty"

LEMMA LoopTurn ==
    ASSUME TypeOK, ScanLine,
           LastBlank(lines, i, emptyIndex),
           \A k \in 1..Len(header) : HeaderLine(lines, header[k]),
           \A k \in 1..Len(body) : BodyPiece(lines, body[k])
    PROVE  /\ LastBlank(lines', i', emptyIndex')
           /\ \A k \in 1..Len(header') : HeaderLine(lines', header'[k])
           /\ \A k \in 1..Len(body') : BodyPiece(lines', body'[k])
<1>0. /\ i \in 1..Len(lines) /\ i' = i + 1 /\ UNCHANGED lines
      /\ Len(lines) \in Nat /\ emptyIndex \in Nat \ {0}
      /\ header \in Seq(Nat) /\ body \in Seq(Nat)
      BY DEF ScanLine, BodyLine, TypeOK, input
<1>1. CASE lines[i] # "empty" /\ emptyIndex = 1
  <2>1. header' = Append(header, i) /\ UNCHANGED <<emptyIndex, body>>
        BY <1>1 DEF ScanLine, BodyLine
  <2>2. HeaderLine(lines, i)
        BY <1>0, <1>1 DEF LastBlank, HeaderLine
  <2>3. LastBlank(lines, i + 1, emptyIndex)
        BY <1>0, <1>1 DEF LastBlank
  <2>4. \A k \in 1..Len(header') : header'[k] = i \/ (k \in 1..Len(header) /\ header'[k] = header[k])
        BY <1>0, <2>1
  <2> QED BY <1>0, <2>1, <2>2, <2>3, <2>4
<1>2. CASE lines[i] # "empty" /\ emptyIndex # 1
  <2>1. body' = Append(body, emptyIndex + 1) /\ UNCHANGED <<emptyIndex, header>>
        BY <1>2 DEF ScanLine, BodyLine
  <2>2. BodyPiece(lines, emptyIndex + 1)
        BY <1>0, <1>2 DEF LastBlank, BodyPiece
  <2>3. LastBlank(lines, i + 1, emptyIndex)
        BY <1>0, <1>2 DEF LastBlank
  <2>4. \A k \in 1..Len(body') :
           body'[k] = emptyIndex + 1 \/ (k \in 1..Len(body) /\ body'[k] = body[k])
        BY <1>0, <2>1
  <2> QED BY <1>0, <2>1, <2>2, <2>3, <2>4
<1>3. CASE lines[i] = "empty"
  <2>1. emptyIndex' = i /\ UNCHANGED <<header, body>>
        BY <1>3 DEF ScanLine, BodyLine
  <2>2. LastBlank(lines, i + 1, i)
        BY <1>0, <1>3 DEF LastBlank
  <2> QED BY <1>0, <2>1, <2>2
<1> QED BY <1>1, <1>2, <1>3

LEMMA LoopInit == Init => NotStarted /\ LoopInvariant
BY DEF Init, NotStarted, LoopInvariant

LEMMA LoopStep ==
    ASSUME TypeOK, NotStarted, LoopInvariant, [Next]_vars
    PROVE  NotStarted' /\ LoopInvariant'
<1> USE DEF input, split, disk, array, response, Goto, Fail, Succeed
<1>1. CASE Decode
  <2>1. /\ i' = 1 /\ emptyIndex' = 1 /\ header' = <<>> /\ body' = <<>>
        /\ Len(lines') \in Nat /\ pc' # "decode"
        BY <1>1 DEF Decode, NotStarted, TypeOK
  <2> QED BY <2>1 DEF NotStarted, LoopInvariant
<1>2. CASE ScanLine
  <2>1. /\ LastBlank(lines, i, emptyIndex)
        /\ \A k \in 1..Len(header) : HeaderLine(lines, header[k])
        /\ \A k \in 1..Len(body) : BodyPiece(lines, body[k])
        BY DEF LoopInvariant, LastBlank, HeaderLine, BodyPiece, Blank
  <2>2. /\ LastBlank(lines', i', emptyIndex')
        /\ \A k \in 1..Len(header') : HeaderLine(lines', header'[k])
        /\ \A k \in 1..Len(body') : BodyPiece(lines', body'[k])
        BY <1>2, <2>1, LoopTurn
  <2>3. LoopInvariant'
        BY <2>2 DEF LoopInvariant, LastBlank, HeaderLine, BodyPiece, Blank
  <2>4. NotStarted'
        BY <1>2 DEF ScanLine, BodyLine, NotStarted
  <2> QED BY <2>3, <2>4
<1>3. CASE ~Decode /\ ~ScanLine
  <2>1. UNCHANGED <<lines, split>> /\ (pc' = "decode" => pc = "decode")
        BY <1>3 DEF Next, Parse, ScanEnd, CheckFields, CheckStatusLine, Exists, Length, Open,
                    ReadFile, ReadFails, Method, AnswerPage, Deploy, vars
  <2> QED BY <2>1 DEF NotStarted, LoopInvariant, Blank
<1> QED BY <1>1, <1>2, <1>3

\* However the request is laid out, the loop never indexes past its lines, the
\* header ends at the first blank line and the body holds only first lines of
\* paragraphs after it.
THEOREM LoopIsInBounds == Spec => []LoopInvariant
BY TypeInit, TypeStep, LoopInit, LoopStep, PTL DEF Spec

-----------------------------------------------------------------------------
(* What the loop leaves of the lines after the header. *)

\* The part of Rest the loop has come past.
Upto(n) == {k \in Rest : k < n}

\* The body so far has a piece for each of these lines, and is these lines if no
\* two of them follow each other.
BodySoFar ==
    /\ Len(body) = Cardinality(Upto(i))
    /\ (\A k \in Upto(i) : k + 1 \notin Upto(i)) => Lists(body, Upto(i))

\* The loop leaves no line out.
Ended == Scanned /\ pc # "thrown" => i = Len(lines) + 1

LEMMA UptoFinite ==
    ASSUME NEW n, Len(lines) \in Nat
    PROVE  IsFiniteSet(Upto(n)) /\ Cardinality(Upto(n)) \in Nat
<1>1. Upto(n) \subseteq 1..Len(lines) /\ IsFiniteSet(1..Len(lines))
      BY FS_Interval DEF Upto, Rest
<1> QED BY <1>1, FS_Subset, FS_CardinalityType

LEMMA ListsNone == Lists(<<>>, {})
BY DEF Lists

LEMMA ListsAppend ==
    ASSUME NEW s \in Seq(Nat), NEW S, Lists(s, S), NEW n \in Nat, \A k \in S : k < n
    PROVE  Lists(Append(s, n), S \cup {n})
<1> DEFINE r == Append(s, n)
<1>1. /\ Len(s) \in Nat /\ Len(r) = Len(s) + 1 /\ r[Len(s) + 1] = n
      /\ \A k \in 1..Len(s) : r[k] = s[k] /\ s[k] \in S
      BY DEF Lists
<1>2. \A j, k \in 1..Len(r) : j < k => r[j] < r[k]
  <2> SUFFICES ASSUME NEW j \in 1..Len(r), NEW k \in 1..Len(r), j < k PROVE r[j] < r[k]
        OBVIOUS
  <2> HIDE DEF r
  <2>1. j \in 1..Len(s)
        BY <1>1
  <2>2. CASE k \in 1..Len(s)
        BY <1>1, <2>1, <2>2 DEF Lists
  <2>3. CASE k = Len(s) + 1
        BY <1>1, <2>1, <2>3
  <2> QED BY <1>1, <2>2, <2>3
<1>3. {r[k] : k \in 1..Len(r)} = S \cup {n}
  <2> HIDE DEF r
  <2>1. {r[k] : k \in 1..Len(r)} = {s[k] : k \in 1..Len(s)} \cup {n}
        BY <1>1
  <2> QED BY <2>1 DEF Lists
<1> QED BY <1>2, <1>3 DEF Lists

LEMMA BodyTurn ==
    ASSUME TypeOK, LoopInvariant, BodySoFar, ScanLine
    PROVE  BodySoFar'
<1>0. /\ i \in 1..Len(lines) /\ i' = i + 1 /\ UNCHANGED lines
      /\ Len(lines) \in Nat /\ emptyIndex \in Nat \ {0} /\ body \in Seq(Nat)
      BY DEF ScanLine, BodyLine, TypeOK, input
<1>1. Rest' = Rest /\ Upto(i)' = Upto(i + 1)
      BY <1>0 DEF Rest, Blank, Upto
<1>2. ASSUME i \notin Rest, UNCHANGED body PROVE BodySoFar'
  <2>1. Upto(i + 1) = Upto(i)
        BY <1>0, <1>2 DEF Upto, Rest
  <2> QED BY <1>1, <1>2, <2>1 DEF BodySoFar
<1>3. CASE lines[i] = "empty"
      BY <1>2, <1>3 DEF ScanLine, Rest
<1>4. CASE lines[i] # "empty" /\ emptyIndex = 1
  <2>1. \A b \in 1..i : ~Blank(b)
        BY <1>0, <1>4 DEF LoopInvariant, Blank
  <2> QED BY <1>2, <1>4, <2>1 DEF ScanLine, Rest
<1>5. CASE lines[i] # "empty" /\ emptyIndex # 1
  <2>1. body' = Append(body, emptyIndex + 1) /\ Len(body') = Len(body) + 1
        BY <1>0, <1>5 DEF ScanLine, BodyLine
  <2>2. emptyIndex < i /\ Blank(emptyIndex) /\ i \in Rest
        BY <1>0, <1>5 DEF LoopInvariant, Rest
  <2>3. Upto(i + 1) = Upto(i) \cup {i} /\ i \notin Upto(i)
        BY <1>0, <2>2 DEF Upto, Rest
  <2>4. Cardinality(Upto(i + 1)) = Cardinality(Upto(i)) + 1
        BY <1>0, <2>3, UptoFinite, FS_AddElement
  <2>5. ASSUME \A k \in Upto(i + 1) : k + 1 \notin Upto(i + 1)
        PROVE  Lists(body', Upto(i + 1))
    <3>1. Lists(body, Upto(i))
          BY <2>3, <2>5 DEF BodySoFar
    <3>2. emptyIndex + 1 = i
      <4> SUFFICES ASSUME emptyIndex + 1 # i PROVE FALSE
            OBVIOUS
      <4>1. i - 1 \in 1..Len(lines) /\ i - 1 \in (emptyIndex + 1)..(i - 1) /\ emptyIndex \in 1..(i - 1)
            BY <1>0, <2>2
      <4>2. lines[i - 1] # "empty"
            BY <4>1 DEF LoopInvariant
      <4>3. i - 1 \in Upto(i + 1)
            BY <1>0, <2>2, <4>1, <4>2 DEF Upto, Rest
      <4>4. (i - 1) + 1 = i /\ i \in Upto(i + 1)
            BY <1>0, <2>3
      <4> QED BY <2>5, <4>3, <4>4
    <3>3. \A k \in Upto(i) : k < i
          BY DEF Upto
    <3> QED BY <1>0, <2>1, <2>3, <3>1, <3>2, <3>3, ListsAppend
  <2> QED BY <1>1, <2>1, <2>4, <2>5 DEF BodySoFar
<1> QED BY <1>3, <1>4, <1>5

LEMMA BodyStep ==
    ASSUME TypeOK, NotStarted, LoopInvariant, BodySoFar, Ended, [Next]_vars
    PROVE  BodySoFar' /\ Ended'
<1> USE DEF input, split, disk, array, response, Goto, Fail, Succeed
<1>1. CASE Decode
  <2>1. i' = 1 /\ body' = <<>> /\ pc' \in {"scan", "thrown"}
        BY <1>1 DEF Decode, NotStarted
  <2>2. Upto(i)' = {}
        BY <2>1 DEF Upto, Rest
  <2> QED BY <2>1, <2>2, FS_EmptySet, ListsNone DEF BodySoFar, Ended, Scanned
<1>2. CASE ScanLine
  <2>1. pc' = "scan"
        BY <1>2 DEF ScanLine
  <2> QED BY <1>2, <2>1, BodyTurn DEF Ended, Scanned
<1>3. CASE ~Decode /\ ~ScanLine
  <2>1. UNCHANGED <<lines, split>>
        BY <1>3 DEF Next, Parse, ScanEnd, CheckFields, CheckStatusLine, Exists, Length, Open,
                    ReadFile, ReadFails, Method, Deploy, vars
  <2>2. BodySoFar'
        BY <2>1 DEF BodySoFar, Upto, Rest, Blank
  <2>3. CASE ScanEnd
    <3>1. i \in Nat /\ Len(lines) \in Nat /\ i > Len(lines) /\ i <= Len(lines) + 1
          BY <2>3 DEF ScanEnd, LoopInvariant, TypeOK
    <3> QED BY <2>1, <2>2, <3>1 DEF Ended
  <2>4. CASE ~ScanEnd
    <3>1. Scanned' /\ pc' # "thrown" => Scanned /\ pc # "thrown"
          BY <1>3, <2>4 DEF Next, Parse, CheckFields, CheckStatusLine, Exists, Length, Open,
                    ReadFile, ReadFails, Method, Deploy, vars, Scanned
    <3> QED BY <2>1, <2>2, <3>1 DEF Ended
  <2> QED BY <2>2, <2>3, <2>4
<1> QED BY <1>1, <1>2, <1>3

\* For a request of any length the body has a piece for every line that follows
\* the header, and consists of these lines when each is a paragraph of its own.
THEOREM SingleLinesArrive == Spec => []BodyOfSingleLines
<1>1. Init => BodySoFar /\ Ended
  <2> SUFFICES ASSUME Init PROVE BodySoFar /\ Ended
        OBVIOUS
  <2>1. Upto(i) = {}
        BY DEF Init, Upto, Rest
  <2> QED BY <2>1, FS_EmptySet, ListsNone DEF Init, BodySoFar, Ended, Scanned
<1>2. TypeOK /\ BodySoFar /\ Ended => BodyOfSingleLines
  <2> SUFFICES ASSUME TypeOK, BodySoFar, Ended, Scanned, pc # "thrown"
               PROVE  /\ Len(body) = Cardinality(Rest)
                      /\ (\A k \in Rest : k + 1 \notin Rest) => Lists(body, Rest)
        BY DEF BodyOfSingleLines
  <2>1. Upto(i) = Rest
        BY DEF Upto, Rest, Ended, TypeOK
  <2> QED BY <2>1 DEF BodySoFar
<1> QED
      BY <1>1, <1>2, TypeInit, TypeStep, LoopInit, LoopStep, BodyStep, PTL DEF Spec

-----------------------------------------------------------------------------
(* The order of the checks. *)

Passed == /\ FieldsOK
          /\ header # <<>> /\ first.tokens = 3 /\ ~first.long /\ first.supported

\* What is known of the request at each point of the checks.
ChecksSoFar ==
    /\ pc = "statusLine" => FieldsOK
    /\ pc \in {"exists", "length", "open", "read", "method"} => Passed
    /\ pc \in {"decode", "scan", "fields", "statusLine", "exists", "length", "open",
               "read", "method"} => status = "200"
    /\ status \in {"404", "405", "garbled"} => Passed

LEMMA ChecksInit == Init => ChecksSoFar
BY DEF Init, ChecksSoFar

LEMMA ChecksStep ==
    ASSUME TypeOK, ChecksSoFar, [Next]_vars
    PROVE  ChecksSoFar'
<1> USE DEF input, split, disk, array, response, Goto, Fail, Succeed, ChecksSoFar
<1>1. ASSUME UNCHANGED <<input, header>>
      PROVE  (FieldsOK' <=> FieldsOK) /\ (Passed' <=> Passed)
      BY <1>1 DEF FieldsOK, Passed
<1>2. CASE Decode
      BY <1>2 DEF Decode
<1>3. CASE ScanLine
      BY <1>3 DEF ScanLine, BodyLine
<1>4. CASE ScanEnd \/ CheckFields
      BY <1>1, <1>4 DEF ScanEnd, CheckFields
<1>5. CASE CheckStatusLine
      BY <1>1, <1>5 DEF CheckStatusLine, Tokens, Passed, TypeOK, StatusLines
<1>6. CASE Exists \/ Length \/ Open
      BY <1>1, <1>6 DEF Exists, Length, Open
<1>7. CASE ReadFile \/ ReadFails \/ Method \/ Deploy
      BY <1>1, <1>7 DEF ReadFile, ReadFails, Method, AnswerPage, Deploy
<1>8. CASE UNCHANGED vars
      BY <1>1, <1>8 DEF vars
<1> QED BY <1>2, <1>3, <1>4, <1>5, <1>6, <1>7, <1>8 DEF Next, Parse

\* No request reaches the file system that a check before would refuse, and a
\* status about the file or the method never hides an earlier error.
THEOREM FileAfterChecks == Spec => []ChecksPrecedeFile
<1>1. ChecksSoFar => ChecksPrecedeFile
      BY DEF ChecksSoFar, ChecksPrecedeFile, Passed
<1> QED BY <1>1, TypeInit, TypeStep, ChecksInit, ChecksStep, PTL DEF Spec

-----------------------------------------------------------------------------
(* The page and the file. *)

LEMMA Remainder ==
    ASSUME NEW a \in Nat, NEW m \in Nat, a < m
    PROVE  a % m = a
OBVIOUS

LEMMA IntOfLength ==
    ASSUME NEW n \in Nat
    PROVE  /\ ToInt(n) <= IntMax
           /\ n <= IntMax => ToInt(n) = n
<1> DEFINE m == 2 * (IntMax + 1)
           a == n + IntMax + 1
<1>1. IntMax \in Nat /\ m \in Nat \ {0} /\ a \in Nat
      BY ParserAssumption DEF ParserAssumption
<1>2. a % m \in 0..(m - 1)
  <2> HIDE DEF a, m
  <2> QED BY <1>1
<1>3. n <= IntMax => a % m = a
  <2>1. n <= IntMax => a < m
        BY <1>1
  <2> HIDE DEF a, m
  <2> QED BY <1>1, <2>1, Remainder
<1> QED BY <1>1, <1>2, <1>3 DEF ToInt

\* What is known of the file at each call, if it has not changed since exists().
FileSoFar ==
    /\ pc \in {"decode", "scan", "fields", "statusLine", "exists", "length", "open", "read", "method"} =>
          content = "none"
    /\ ~changed =>
          /\ pc = "length" => file # NoFile
          /\ pc = "open" /\ file # Directory => file \in Sizes /\ fileSize = ToInt(file)
          /\ pc = "read" => file \in Sizes /\ fileSize = ToInt(file) /\ stream = file
          /\ pc = "method" => read = fileSize /\ (file <= IntMax => fileSize = file)
    /\ PageIsWhole

LEMMA FileStep ==
    ASSUME TypeOK, ChecksSoFar, FileSoFar, [Next]_vars
    PROVE  FileSoFar'
<1> USE DEF input, split, disk, array, response, Goto, Fail, Succeed, FileSoFar, PageIsWhole
<1>0. Sizes \subseteq Nat
      BY ParserAssumption DEF ParserAssumption
<1>1. CASE Decode \/ ScanLine \/ ScanEnd \/ CheckFields \/ CheckStatusLine
      BY <1>1 DEF Decode, ScanLine, ScanEnd, CheckFields, CheckStatusLine, ChecksSoFar
<1>2. CASE Exists
      BY <1>2 DEF Exists, ChecksSoFar
<1>3. CASE Length
  <2>1. PICK n \in IF file = Directory THEN Sizes ELSE IF file = NoFile THEN {0} ELSE {file} :
           IF ToInt(n) < 0
           THEN Goto("thrown") /\ UNCHANGED fileSize
           ELSE Goto("open") /\ fileSize' = ToInt(n)
        BY <1>3 DEF Length
  <2>2. /\ pc = "length" /\ pc' \in {"thrown", "open"} /\ status = "200"
        /\ UNCHANGED <<file, changed, content, status>>
        BY <1>3, <2>1 DEF Length, ChecksSoFar
  <2>3. ~changed /\ pc' = "open" /\ file # Directory => file \in Sizes /\ fileSize' = ToInt(file)
        BY <2>1, <2>2 DEF TypeOK, Files
  <2>4. content' = "none" /\ pc' # "length" /\ status' = "200" /\ pc' \notin {"read", "method"}
        BY <2>2
  <2> QED BY <2>2, <2>3, <2>4 DEF NoFile, Directory
<1>4. CASE Open
      BY <1>0, <1>4 DEF Open, ChecksSoFar, Directory
<1>5. CASE ReadFile
  <2>1. PICK n \in {stream} \cup ({file} \cap Sizes) : read' = IF n < fileSize THEN n ELSE fileSize
        BY <1>5 DEF ReadFile
  <2>2. /\ pc = "read" /\ pc' = "method" /\ UNCHANGED <<file, changed, fileSize, content, status>>
        /\ status = "200"
        BY <1>5 DEF ReadFile, ChecksSoFar
  <2>3. ~changed => read' = fileSize /\ (file <= IntMax => fileSize = file)
    <3> SUFFICES ASSUME ~changed PROVE read' = fileSize /\ (file <= IntMax => fileSize = file)
          OBVIOUS
    <3>1. file \in Nat /\ fileSize = ToInt(file) /\ n = file
          BY <1>0, <2>1, <2>2
    <3>2. ToInt(file) <= IntMax /\ (file <= IntMax => ToInt(file) = file)
          BY <3>1, IntOfLength
    <3> QED BY <2>1, <3>1, <3>2, ParserAssumption DEF ParserAssumption, TypeOK
  <2> QED BY <2>2, <2>3
<1>6. CASE ReadFails
      BY <1>6 DEF ReadFails, ChecksSoFar, Survives
<1>7. CASE Method
  <2>1. pc = "method" /\ UNCHANGED <<file, changed, fileSize, read, text>> /\ pc' = "done"
        BY <1>7 DEF Method, AnswerPage
  <2>2. \/ content' \notin {"page", "mangled"}
        \/ AnswerPage
        BY <1>7 DEF Method
  <2>3. CASE AnswerPage /\ ~changed
    <3>1. read = fileSize /\ (file <= IntMax => fileSize = file) /\ (Survives' <=> Survives)
          BY <2>1, <2>3 DEF Survives
    <3> QED BY <2>1, <2>3, <3>1 DEF AnswerPage
  <2> QED BY <2>1, <2>2, <2>3
<1>8. CASE Deploy
      BY <1>8 DEF Deploy, ChecksSoFar, Survives
<1>9. CASE UNCHANGED vars
      BY <1>9 DEF vars, Survives
<1> QED BY <1>1, <1>2, <1>3, <1>4, <1>5, <1>6, <1>7, <1>8, <1>9 DEF Next, Parse

\* A file that nobody touches between exists() and read() is answered byte for
\* byte, with its length as the Content-length, if its length is an int and its
\* characters are known to UTF-8 and to the default charset.
THEOREM UntouchedTextArrives == Spec => []PageIsWhole
<1>1. Init => FileSoFar
      BY DEF Init, FileSoFar, PageIsWhole
<1>2. FileSoFar => PageIsWhole
      BY DEF FileSoFar
<1> QED
      BY <1>1, <1>2, TypeInit, TypeStep, ChecksInit, ChecksStep, FileStep, PTL DEF Spec

=============================================================================
