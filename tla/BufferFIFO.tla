------------------------------ MODULE BufferFIFO ------------------------------
(***************************************************************************)
(* What a Buffer promises (spec 4.7 and 8): a byte queue.  append adds at  *)
(* the back, prepend at the front, retrieve(n) drops n bytes from the      *)
(* front (all of them when n is not smaller than what is readable), and    *)
(* retrieveAsString(n) returns the first n bytes and drops them.           *)
(***************************************************************************)
EXTENDS Naturals, Sequences

CONSTANTS Bytes, MaxLen

VARIABLES
    content, \* the readable bytes, front first
    out      \* the string the last retrieveAsString returned

Strings == UNION {[1..n -> Bytes] : n \in 1..MaxLen}

Init == content = <<>> /\ out = <<>>

AppendBytes(s) == content' = content \o s /\ UNCHANGED out

PrependBytes(s) == content' = s \o content /\ UNCHANGED out

Retrieve(n) ==
    /\ content' = IF n < Len(content) THEN SubSeq(content, n + 1, Len(content))
                  ELSE <<>>
    /\ UNCHANGED out

RetrieveAsString(n) ==
    /\ n <= Len(content)
    /\ out' = SubSeq(content, 1, n)
    /\ content' = SubSeq(content, n + 1, Len(content))

Next ==
    \/ \E s \in Strings : AppendBytes(s) \/ PrependBytes(s)
    \/ \E n \in 0..MaxLen : Retrieve(n) \/ RetrieveAsString(n)

Spec == Init /\ [][Next]_<<content, out>>

=============================================================================
