------------------------------- MODULE WsGlob -------------------------------
(***************************************************************************)
(* glob_match: the matcher behind every listing of a database directory.   *)
(* It walks pattern and string once and, on a mismatch, goes back to the   *)
(* last * only.  Matches is the meaning the loop is compared with.         *)
(* A string is a sequence of one-character strings; the position after the *)
(* last character holds the terminating nul, here "".                      *)
(***************************************************************************)
EXTENDS Integers, Sequences, Functions

CONSTANT Chars    \* the characters, in the order of their codes

Alphabet == {Chars[k] : k \in 1 .. Len(Chars)}

ASSUME CharsAssumption ==
    /\ Chars \in Seq(STRING) /\ IsInjective(Chars)
    /\ "" \notin Alphabet
    /\ {"*", "?", "[", "]", "!", "-", "\\", "a", "b"} \subseteq Alphabet

Code(ch) == CHOOSE k \in 1 .. Len(Chars) : Chars[k] = ch

At(s, k) == IF k \in 1 .. Len(s) THEN s[k] ELSE ""

\* As InRange, but the end of a range is not in it.
InRangeOpen(ch, a, b) == Code(a) <= Code(ch) /\ Code(ch) < Code(b)

InRange(ch, a, b) == Code(a) <= Code(ch) /\ Code(ch) <= Code(b)

\* The class that begins at position q.  In span, k is the position of the first
\* character of the current range, m: matched so far.
Span(pat, ch, q) ==
    LET span[v \in Nat \X BOOLEAN] ==
            LET k == v[1]
                m == v[2]
                a == At(pat, k)
                range == At(pat, k + 1) = "-" /\ At(pat, k + 2) # "]"
                b == IF range THEN At(pat, k + 2) ELSE a
                next == IF range THEN k + 3 ELSE k + 1
            IN  IF a = "" \/ b = "" THEN [bad |-> TRUE, match |-> FALSE, next |-> 0]
                ELSE LET hit == m \/ InRange(ch, a, b)
                     IN  IF At(pat, next) = "]"
                         THEN [bad |-> FALSE, match |-> hit, next |-> next + 1]
                         ELSE span[<<next, hit>>]
    IN  span[<<q, FALSE>>]

\* The loop: p and s are the positions of pattern and string, bp and bs those to go
\* back to (bp = 0: no * was met), with the string one character later than last time.
GlobMatch(pat, str) ==
    LET scan[v \in Nat \X Nat \X Nat \X Nat] ==
            LET p == v[1]
                s == v[2]
                bp == v[3]
                bs == v[4]
                ch == At(str, s)
                d == At(pat, p)
                Back == ch # "" /\ bp # 0 /\ scan[<<bp, bs + 1, bp, bs + 1>>]
                Literal(x, next) ==
                    IF ch = x THEN x = "" \/ scan[<<next, s + 1, bp, bs>>] ELSE Back
                inverted == At(pat, p + 1) = "!"
                class == Span(pat, ch, IF inverted THEN p + 2 ELSE p + 1)
            IN  CASE d = "?"  -> ch # "" /\ scan[<<p + 1, s + 1, bp, bs>>]
                  [] d = "*"  -> At(pat, p + 1) = "" \/ scan[<<p + 1, s, p + 1, s>>]
                  [] d = "["  -> /\ ch # ""
                                 /\ IF class.bad THEN Literal("[", p + 1)
                                    ELSE IF class.match = inverted THEN Back
                                    ELSE scan[<<class.next, s + 1, bp, bs>>]
                  [] d = "\\" -> Literal(At(pat, p + 1), p + 2)
                  [] OTHER    -> Literal(d, p + 1)
    IN  scan[<<1, 1, 0, 0>>]

-----------------------------------------------------------------------------
(* The meaning, told from the end of the pattern: the positions of the string *)
(* from which its rest matches the rest of the pattern.                       *)

\* The characters between the brackets of a class, at the positions lo .. hi - 1.
Denoted(pat, lo, hi) ==
    LET from[k \in 1 .. hi] ==
            IF k = hi THEN {}
            ELSE IF k + 2 < hi /\ pat[k + 1] = "-"
                 THEN {Chars[c] : c \in Code(pat[k]) .. Code(pat[k + 2])} \cup from[k + 3]
                 ELSE {pat[k]} \cup from[k + 1]
    IN  from[lo]

\* The one-character token at p, which is no *: what it may stand for, where it ends.
Token(pat, p) ==
    LET lo == IF At(pat, p + 1) = "!" THEN p + 2 ELSE p + 1
        ends == {e \in lo + 1 .. Len(pat) : pat[e] = "]"}
        hi == CHOOSE e \in ends : \A f \in ends : e <= f
        set == Denoted(pat, lo, hi)
    IN  CASE pat[p] = "?" -> [is |-> Alphabet, next |-> p + 1]
          [] pat[p] = "[" /\ ends # {} ->
                [is |-> IF lo = p + 2 THEN Alphabet \ set ELSE set, next |-> hi + 1]
          [] pat[p] = "\\" -> [is |-> {pat[p + 1]}, next |-> p + 2]
          [] OTHER -> [is |-> {pat[p]}, next |-> p + 1]

\* A backslash at the end stands for nothing.
Ended(pat, p) == p > Len(pat) \/ (p = Len(pat) /\ pat[p] = "\\")

Matches(pat, str) ==
    LET end == Len(str) + 1
        from[p \in 1 .. Len(pat) + 1] ==
            IF Ended(pat, p) THEN {end}
            ELSE IF pat[p] = "*" THEN {k \in 1 .. end : \E l \in from[p + 1] : k <= l}
            ELSE {k \in 1 .. Len(str) : /\ str[k] \in Token(pat, p).is
                                        /\ k + 1 \in from[Token(pat, p).next]}
    IN  1 \in from[1]
=============================================================================
