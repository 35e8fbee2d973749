-------------------------- MODULE HTTPHeaderParser --------------------------
(***************************************************************************)
(* HTTPHeaderParserImpl.parseHTTPHeader: the decoded request is split into *)
(* lines, a loop divides the lines into header and body, the header fields *)
(* and the status line are checked, the requested file is looked up, sized,*)
(* opened and read, and the response is built from what was found.  The    *)
(* file system is not the parser's own: the file may change between any    *)
(* two of these calls.                                                     *)
(***************************************************************************)
EXTENDS Integers, Sequences, FiniteSets

CONSTANTS Inputs, \* the requests, each the sequence of its lines
          Sizes,  \* the sizes a file may have
          IntMax, \* the largest Java int
          DefaultUTF8 \* the default charset is UTF-8; else it only knows ASCII for sure

\* What a line is to the parser: a header field, name=value parameters, or
\* something that is neither.
Kinds == {"empty", "pair", "params", "junk"}

ASSUME ParserAssumption ==
    /\ Inputs \subseteq Seq(Kinds)
    /\ Sizes \subseteq Nat
    /\ IntMax \in Nat
    /\ DefaultUTF8 \in BOOLEAN

\* What the bytes of a page are: characters of ASCII, other characters in
\* UTF-8, or no UTF-8 at all (an image, a page in another charset).
Texts == {"ascii", "utf8", "binary"}

\* What the checks of the status line tell apart.
StatusLines == [tokens : 0..3, long : BOOLEAN, supported : BOOLEAN,
                method : {"GET", "POST", "other"}, query : {"none", "good", "bad"}]

NoFile == -1
Directory == -2
Files == Sizes \cup {NoFile, Directory}

\* Mutation of ToInt: a narrower type.
ToByte(n) == n % ((IntMax + 1) \div 2)

\* (int) file.length()
ToInt(n) == ((n + IntMax + 1) % (2 * (IntMax + 1))) - (IntMax + 1)

Statuses == {"200", "400", "404", "405", "414", "505", "garbled"}

VARIABLES
    lines,      \* http_split
    first,      \* what is found in the first line of the header
    pc,
    i,          \* the line the loop looks at, from 1 as a TLA+ sequence counts
    emptyIndex, \* the last empty line seen, 1 when none but the first was
    header,     \* the indexes of the lines that make up the header
    body,       \* the indexes of the lines that make up the body
    file,       \* what the requested path names now: a file of a size, or none
    fileSize,   \* the length of fileArr
    stream,     \* the size of the file that was opened
    read,       \* bytes of the file that are in fileArr
    text,       \* what the bytes in fileArr are
    changed,    \* the file changed after exists() was asked
    status,     \* the STATUS of the response
    content,    \* its BODY: the file, byte for byte or mangled, the parameters,
                \* an error page or none
    sent        \* how many bytes the file has become in the response

input == <<lines, first>>
split == <<i, emptyIndex, header, body>>
disk == <<file, changed>>
array == <<fileSize, stream, read, text>>
response == <<status, content, sent>>
vars == <<input, pc, split, disk, array, response>>

TypeOK ==
    /\ lines \in Seq(Kinds) /\ first \in StatusLines
    /\ pc \in {"decode", "scan", "fields", "statusLine", "exists", "length", "open",
               "read", "method", "done", "thrown"}
    /\ i \in Nat \ {0} /\ emptyIndex \in Nat \ {0}
    /\ header \in Seq(Nat) /\ body \in Seq(Nat)
    /\ file \in Files /\ fileSize \in Nat /\ stream \in Nat /\ read \in Nat
    /\ changed \in BOOLEAN
    /\ status \in Statuses
    /\ content \in {"none", "error", "page", "mangled", "params"}
    /\ text \in Texts /\ sent \in Nat

Init ==
    /\ lines \in Inputs
    /\ first \in StatusLines
    /\ pc = "decode"
    /\ i = 1 /\ emptyIndex = 1 /\ header = <<>> /\ body = <<>>
    /\ file = NoFile /\ fileSize = 0 /\ stream = 0 /\ read = 0 /\ changed = FALSE
    /\ text = "ascii"
    /\ status = "200" /\ content = "none" /\ sent = 0

\* A catch clause: the status and the error page of http.conf.
Fail(s) ==
    /\ status' = s
    /\ content' = "error"
    /\ pc' = "done"
    /\ UNCHANGED sent

Goto(label) == pc' = label /\ UNCHANGED response

-----------------------------------------------------------------------------
\* new String and URLDecoder.decode: an unknown charset leaves the request
\* empty, a missing one and a bad escape throw what nobody catches.
Decode ==
    /\ pc = "decode"
    /\ \/ Goto("scan") /\ UNCHANGED lines
       \/ Goto("scan") /\ lines' = <<"empty">>
       \/ Goto("thrown") /\ UNCHANGED lines
    /\ UNCHANGED <<first, split, disk, array>>

\* Mutation of BodyLine: the array is taken to start at 1.
BodyLineAfter == emptyIndex + 2

\* http_split[emptyIndex+1], whichever line the loop has come to.
BodyLine == emptyIndex + 1

\* One turn of the loop over http_split.  That emptyIndex still is 0 (here 1)
\* means that no empty line was seen after the first line.
ScanLine ==
    /\ pc = "scan"
    /\ i <= Len(lines)
    /\ i' = i + 1
    /\ \/ /\ lines[i] # "empty" /\ emptyIndex = 1
          /\ header' = Append(header, i)
          /\ UNCHANGED <<emptyIndex, body>>
       \/ /\ lines[i] # "empty" /\ emptyIndex # 1
          /\ body' = Append(body, BodyLine)
          /\ UNCHANGED <<emptyIndex, header>>
       \/ /\ lines[i] = "empty"
          /\ emptyIndex' = i
          /\ UNCHANGED <<header, body>>
    /\ UNCHANGED <<input, pc, disk, array, response>>

ScanEnd ==
    /\ pc = "scan"
    /\ i > Len(lines)
    /\ Goto("fields")
    /\ UNCHANGED <<input, split, disk, array>>

\* Every header line but the first is split at ": " into exactly two parts.
FieldsOK == \A k \in 2..Len(header) : lines[header[k]] = "pair"

CheckFields ==
    /\ pc = "fields"
    /\ IF FieldsOK THEN Goto("statusLine") ELSE Fail("400")
    /\ UNCHANGED <<input, split, disk, array>>

\* Mutation of Tokens: the first line is the status line, empty or not.
TokensOfFirstLine == first.tokens

\* The tokens of the status line; an empty header has none.
Tokens == IF header = <<>> THEN 0 ELSE first.tokens

CheckStatusLine ==
    /\ pc = "statusLine"
    /\ \/ Tokens < 2 /\ Fail("400")
       \/ Tokens >= 2 /\ first.long /\ Fail("414")
       \/ Tokens = 2 /\ ~first.long /\ Fail("400")
       \/ Tokens = 3 /\ ~first.long /\ ~first.supported /\ Fail("505")
       \/ Tokens = 3 /\ ~first.long /\ first.supported /\ Goto("exists")
    /\ UNCHANGED <<input, split, disk, array>>

Exists ==
    /\ pc = "exists"
    /\ IF file = NoFile THEN Fail("404") ELSE Goto("length")
    /\ changed' = FALSE
    /\ UNCHANGED <<input, split, file, array>>

\* Mutation of Length: the size is not looked at.
LengthUnchecked ==
    /\ pc = "length"
    /\ \E n \in IF file = Directory THEN Sizes ELSE IF file = NoFile THEN {0} ELSE {file} :
          fileSize' = ToInt(n)
    /\ Goto("open")
    /\ UNCHANGED <<input, split, disk, stream, read, text>>

\* file.length() and new byte[fileSize].  A file that is gone has length 0, a
\* directory any length; a negative int throws.
Length ==
    /\ pc = "length"
    /\ \E n \in IF file = Directory THEN Sizes ELSE IF file = NoFile THEN {0} ELSE {file} :
          IF ToInt(n) < 0
          THEN Goto("thrown") /\ UNCHANGED fileSize
          ELSE Goto("open") /\ fileSize' = ToInt(n)
    /\ UNCHANGED <<input, split, disk, stream, read, text>>

\* FileNotFoundException for whatever cannot be opened, a file gone by now, a
\* directory, a file without permission, or any file when the process has no
\* descriptor left: its message is the status.
Open ==
    /\ pc = "open"
    /\ \/ file \in Sizes /\ Goto("read") /\ stream' = file
       \/ Fail("garbled") /\ UNCHANGED stream
    /\ UNCHANGED <<input, split, disk, fileSize, read, text>>

\* One read() into fileArr: of the file that was opened, which may have been
\* removed or replaced by another since, or rewritten in place.  The rest of
\* the array stays zero.
ReadFile ==
    /\ pc = "read"
    /\ \E n \in {stream} \cup ({file} \cap Sizes) :
          read' = IF n < fileSize THEN n ELSE fileSize
    /\ text' \in IF read' = 0 THEN {"ascii"} ELSE Texts
    /\ Goto("method")
    /\ UNCHANGED <<input, split, disk, fileSize, stream>>

\* IOException: the catch clause prints it, and the response stays "200 OK".
ReadFails ==
    /\ pc = "read"
    /\ Goto("done")
    /\ UNCHANGED <<input, split, disk, array>>

Succeed(c) == content' = c /\ pc' = "done" /\ UNCHANGED status

\* The page goes through new String(fileArr, "UTF-8") and through getBytes() in
\* the default charset: what is no UTF-8, and what the default charset writes in
\* another way or not at all, comes out as other bytes, at most three for one.
Survives == text = "ascii" \/ (text = "utf8" /\ DefaultUTF8)

AnswerPage ==
    \/ Survives /\ Succeed("page") /\ sent' = fileSize
    \/ ~Survives /\ Succeed("mangled") /\ sent' \in 1..(3 * fileSize)

\* Whether paramParser accepts the body the loop has put together: a pair may
\* hold a "=", and several pieces are joined before they are split at & and =,
\* so one without a parameter may go unnoticed.
Accepts(b) ==
    IF b = <<>> THEN {FALSE}
    ELSE IF \A k \in 1..Len(b) : lines[b[k]] = "params" THEN {TRUE}
    ELSE IF Len(b) = 1 /\ lines[b[1]] = "junk" THEN {FALSE}
    ELSE BOOLEAN

Method ==
    /\ pc = "method"
    /\ \/ first.method = "GET" /\ first.query # "bad" /\ AnswerPage
       \/ first.method = "GET" /\ first.query = "bad" /\ Fail("400")
       \/ first.method = "POST" /\ TRUE \in Accepts(body) /\ Succeed("params") /\ UNCHANGED sent
       \/ first.method = "POST" /\ FALSE \in Accepts(body) /\ Fail("400")
       \/ first.method = "other" /\ Fail("405")
    /\ UNCHANGED <<input, split, disk, array>>

Parse == \/ Decode \/ ScanLine \/ ScanEnd \/ CheckFields \/ CheckStatusLine
         \/ Exists \/ Length \/ Open \/ ReadFile \/ ReadFails \/ Method

\* Somebody else deploys, replaces or removes the file.
Deploy ==
    /\ pc \in {"exists", "length", "open", "read"}
    /\ file' \in Files \ {file}
    /\ changed' = TRUE
    /\ UNCHANGED <<input, pc, split, array, response>>

Next == Parse \/ Deploy

Spec == Init /\ [][Next]_vars /\ WF_vars(Parse)

-----------------------------------------------------------------------------
(* What the loop computes. *)

Scanned == pc \notin {"decode", "scan"}

\* The first empty line after the first line ends the header.
Blank(k) == k \in 2..Len(lines) /\ lines[k] = "empty"

\* At every turn of the loop the header is made of non-empty lines before the
\* first blank line, every piece of the body is the line after a blank one, and
\* all of them are lines that exist: http_split[emptyIndex+1] is never out of
\* bounds, whatever the request looks like.
LoopInvariant ==
    /\ i <= Len(lines) + 1
    /\ emptyIndex = 1 \/ (emptyIndex < i /\ Blank(emptyIndex))
    /\ \A b \in (emptyIndex + 1)..(i - 1) : lines[b] # "empty"
    /\ \A k \in 1..Len(header) : /\ header[k] \in 1..Len(lines)
                                 /\ lines[header[k]] # "empty"
                                 /\ \A b \in 2..header[k] : lines[b] # "empty"
    /\ \A k \in 1..Len(body) : /\ body[k] \in 1..Len(lines)
                               /\ lines[body[k]] # "empty"
                               /\ Blank(body[k] - 1)

\* The non-empty lines after the first blank line.
Rest == {k \in 1..Len(lines) : lines[k] # "empty" /\ \E b \in 1..k : Blank(b)}

\* The sequence s has the elements of S, in their order.
Lists(s, S) == /\ {s[k] : k \in 1..Len(s)} = S
               /\ \A j, k \in 1..Len(s) : j < k => s[j] < s[k]

\* The body has as many pieces as the request has lines after the header, and
\* it is these lines when no two of them follow each other.
BodyOfSingleLines ==
    Scanned /\ pc # "thrown" =>
        /\ Len(body) = Cardinality(Rest)
        /\ (\A k \in Rest : k + 1 \notin Rest) => Lists(body, Rest)

-----------------------------------------------------------------------------
(* What the checks guarantee. *)

\* The file system is asked for no request that a check would refuse, but for
\* every other one, the methods the server does not support included; and
\* whatever goes wrong earlier is reported before a missing file.
ChecksPrecedeFile ==
    pc \in {"exists", "length", "open", "read", "method"} \/ status \in {"404", "405", "garbled"} =>
        /\ FieldsOK
        /\ header # <<>> /\ first.tokens = 3 /\ ~first.long /\ first.supported

\* A file that nobody touches between exists() and read() fills the array its
\* length was asked for; and if its length is an int and its text is one that
\* both charsets know, it is answered byte for byte, as many bytes as
\* Content-length (fileSize) says.
PageIsWhole ==
    content \in {"page", "mangled"} /\ ~changed =>
        /\ read = fileSize
        /\ file <= IntMax /\ Survives => content = "page" /\ sent = file /\ fileSize = file

\* "emptyIndex + 1 is where the body begins".
BodyIsRest == content = "params" => Lists(body, Rest)

=============================================================================
