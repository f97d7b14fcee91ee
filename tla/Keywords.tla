------------------------------- MODULE Keywords -------------------------------
(* matches_all of the zoxide-compatible query: keywords met in order in a      *)
(* path, the last one in its file name.  A character is its number of bytes as *)
(* given and the bytes of its lower case; a path is its components.            *)
EXTENDS Integers, SequencesExt

Letter(byte)    == [width |-> 1, lower |-> <<byte>>]
SlashByte       == 47

Lower(text) == FoldLeft(LAMBDA bytes, c : bytes \o c.lower, <<>>, text)
Width(text) == FoldLeft(LAMBDA n, c : n + c.width, 0, text)

\* The lower case of a path as one string.
Hay(path) ==
    IF path = <<>> THEN <<SlashByte>>
    ELSE FoldLeft(LAMBDA bytes, name : bytes \o <<SlashByte>> \o Lower(name), <<>>, path)

\* Whether x stands in s at the offset `at`.
StandsAt(x, s, at) == at + Len(x) <= Len(s) /\ SubSeq(s, at + 1, at + Len(x)) = x

\* An offset at which a string can be cut: not past its end, nor at a byte that
\* goes on with a character.
Continuing == 128..191

AtBoundary(s, at) == at <= Len(s) /\ (at < Len(s) => s[at + 1] \notin Continuing)

\* Where the search has to go on: NotMet when a keyword is not there, Panic when
\* the slice begins past the end or inside a character.
NotMet == -1
Panic  == -2

\* (Mistaken variant: from += i.)
AdvanceToMatch(from, i, k) == from + i

\* from += i + k.len(), in the bytes of the keyword as given.
Advance(from, i, k) == from + i + Width(k)

\* hay[from..].find(&k.to_lowercase())
Meet(hay, from, k) ==
    LET met == {i \in 0..(Len(hay) - from) : StandsAt(Lower(k), hay, from + i)}
    IN  IF from \in {NotMet, Panic} THEN from
        ELSE IF ~AtBoundary(hay, from) THEN Panic
        ELSE IF met = {}               THEN NotMet
        ELSE Advance(from, Min(met), k)

\* The last keyword is in the file name, if the path has one.
LastInName(path, keywords) ==
    \/ keywords = <<>>
    \/ /\ path # <<>>
       /\ LET name == Lower(Last(path))
          IN  \E i \in 0..Len(name) : StandsAt(Lower(Last(keywords)), name, i)

MatchesAll(path, keywords) ==
    LET from == FoldLeft(LAMBDA f, k : Meet(Hay(path), f, k), 0, keywords)
    IN  IF from = Panic THEN "panic"
        ELSE IF from # NotMet /\ LastInName(path, keywords) THEN "yes" ELSE "no"
-----------------------------------------------------------------------------
\* Some way to find all the keywords one after the other, none on the bytes of
\* another.
LaidOut(path, keywords) ==
    \E at \in [DOMAIN keywords -> 0..Len(Hay(path))] :
        /\ \A j \in DOMAIN keywords : StandsAt(Lower(keywords[j]), Hay(path), at[j])
        /\ \A j \in DOMAIN keywords \ {1} :
              at[j - 1] + Len(Lower(keywords[j - 1])) <= at[j]

KeepsWidth(keywords) == \A j \in DOMAIN keywords : Width(keywords[j]) = Len(Lower(keywords[j]))
Shrinks(keywords)    == \A j \in DOMAIN keywords : Width(keywords[j]) >= Len(Lower(keywords[j]))
=============================================================================
