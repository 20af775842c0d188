------------------------------ MODULE ListFunctions ---------------------------
(* What the code computes from a list by going through it, written as       *)
(* recursive functions so that it can be reasoned about.                    *)
EXTENDS Integers, Sequences

\* The sum of a sequence of numbers.
Total(s) ==
    LET upTo[n \in 0 .. Len(s)] == IF n = 0 THEN 0 ELSE upTo[n - 1] + s[n]
    IN  upTo[Len(s)]

\* The entries of s that are in T, in their order.
Among(s, T) ==
    LET kept[n \in 0 .. Len(s)] ==
            IF n = 0 THEN <<>>
            ELSE IF s[n] \in T THEN Append(kept[n - 1], s[n]) ELSE kept[n - 1]
    IN  kept[Len(s)]

\* The sequences of a sequence, one after the other.
Joined(s) ==
    LET upTo[n \in 0 .. Len(s)] == IF n = 0 THEN <<>> ELSE upTo[n - 1] \o s[n]
    IN  upTo[Len(s)]

=============================================================================
