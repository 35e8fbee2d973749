------------------------- MODULE MCHTTPHeaderParser -------------------------
(* Small instances of HTTPHeaderParser for TLC. *)
EXTENDS HTTPHeaderParser

CONSTANT MaxLines \* the longest request, in lines

\* String.split drops the empty lines at the end; an empty string is one line.
MCInputs ==
    {<<"empty">>} \cup
    {s \in UNION {[1..n -> Kinds] : n \in 0..MaxLines} : s # <<>> => s[Len(s)] # "empty"}

=============================================================================
