------------------------------- MODULE Strings -------------------------------
(***************************************************************************)
(* The helpers of lib/string on texts that are sequences of characters,    *)
(* with positions counted from 0 as in std::string.  split and trim are    *)
(* operators.  The loop of replace need not end, so it is a state machine. *)
(***************************************************************************)
EXTENDS Integers, SequencesExt

CONSTANTS
  Chars,      \* the characters
  Blank,      \* ' '
  MaxLen,     \* bound: length of a text
  MaxPattern, \* bound: length of what is searched for and of its substitute
  MaxGrown    \* bound: length a text grows to

ASSUME CharsAssumption == Blank \in Chars /\ MaxLen <= MaxGrown

VARIABLES
  original,   \* the text given to replace()
  search,
  substitute,
  text,       \* the text as replaced so far
  position,
  returned

stringVars == <<original, search, substitute, text, position, returned>>

StringsInit ==
  /\ original \in BoundedSeq(Chars, MaxLen)
  /\ search \in BoundedSeq(Chars, MaxPattern)
  /\ substitute \in BoundedSeq(Chars, MaxPattern)
  /\ text = original
  /\ position = 0
  /\ returned = FALSE

Npos == -1

Occurs(s, t, at) == SubSeq(t, at + 1, at + Len(s)) = s

(* std::string::find: the first position from which s is found. *)
Find(t, s, from) ==
  LET found == {at \in from..(Len(t) - Len(s)) : Occurs(s, t, at)}
  IN  IF found = {} THEN Npos ELSE Min(found)

(* Mutant: the last piece is lost when the text ends with the separator. *)
PiecesNoEmptyEnd(t, separator) ==
  LET Rest[from \in 0..Len(t)] ==
        LET end == Find(t, separator, from)
        IN  IF end = Npos
            THEN IF from = Len(t) /\ from > 0 THEN <<>> ELSE <<SubSeq(t, from + 1, Len(t))>>
            ELSE <<SubSeq(t, from + 1, end)>> \o Rest[end + Len(separator)]
  IN  Rest[0]

(* The loop of split, which pushes what lies before the next separator. *)
Pieces(t, separator) ==
  LET Rest[from \in 0..Len(t)] ==
        LET end == Find(t, separator, from)
        IN  IF end = Npos
            THEN <<SubSeq(t, from + 1, Len(t))>>
            ELSE <<SubSeq(t, from + 1, end)>> \o Rest[end + Len(separator)]
  IN  Rest[0]

SplitAtChar(t, ch) == Pieces(t, <<ch>>)
Split(t, separator) == IF separator = <<>> THEN <<t>> ELSE Pieces(t, separator)

NotOf(t, ch) == {at \in 0..Len(t) - 1 : t[at + 1] # ch}
FindFirstNotOf(t, ch) == IF NotOf(t, ch) = {} THEN Npos ELSE Min(NotOf(t, ch))
FindLastNotOf(t, ch) == IF NotOf(t, ch) = {} THEN Npos ELSE Max(NotOf(t, ch))

(* erase(0, npos) erases everything. *)
TrimLeftIf(t, ch) ==
  LET start == FindFirstNotOf(t, ch)
  IN  IF start = Npos THEN <<>> ELSE SubSeq(t, start + 1, Len(t))

TrimRightIf(t, ch) ==
  LET end == FindLastNotOf(t, ch)
  IN  CASE end # Npos               -> SubSeq(t, 1, end + 1)
        [] end = Npos /\ t # <<>>   -> IF t[1] = ch THEN <<>> ELSE t
        [] end = Npos /\ t = <<>>   -> t

Trim(t) == TrimRightIf(TrimLeftIf(t, Blank), Blank)

TrimCopy(t) ==
  LET start == FindFirstNotOf(t, Blank)
      length == FindLastNotOf(t, Blank) - start + 1
  IN  IF start = Npos THEN <<>> ELSE SubSeq(t, start + 1, start + length)

ReplaceChar(t, old, new) == [k \in DOMAIN t |-> IF t[k] = old THEN new ELSE t[k]]

(* One round of the loop of replace, with the number of characters that are  *)
(* skipped.                                                                  *)
ReplaceAndSkip(skipped) ==
  LET at == Find(text, search, position)
  IN  /\ ~returned
      /\ at # Npos
      /\ Len(text) - Len(search) + Len(substitute) <= MaxGrown
      /\ text' = SubSeq(text, 1, at) \o substitute
                   \o SubSeq(text, at + Len(search) + 1, Len(text))
      /\ position' = at + skipped
      /\ UNCHANGED <<original, search, substitute, returned>>

(* Mutants: the search goes on one character further, or at the substitute. *)
ReplaceFoundSkipsOne == ReplaceAndSkip(1)
ReplaceFoundStays == ReplaceAndSkip(0)

ReplaceFound == ReplaceAndSkip(Len(search))

ReplaceReturns ==
  /\ ~returned
  /\ Find(text, search, position) = Npos
  /\ returned' = TRUE
  /\ UNCHANGED <<original, search, substitute, text, position>>

ReplaceStep == ReplaceFound \/ ReplaceReturns

StringsSpec == StringsInit /\ [][ReplaceStep]_stringVars

-----------------------------------------------------------------------------
(* The pieces put together again. *)
Joined(pieces, glue) ==
  LET From[k \in 1..Len(pieces)] ==
        IF k = Len(pieces) THEN pieces[k] ELSE pieces[k] \o glue \o From[k + 1]
  IN  From[1]

(* The text is cut at every separator, found from left to right: the pieces  *)
(* joined give the text, and no piece reaches into a separator further left. *)
SplitCuts(pieces, t, separator) ==
  /\ Joined(pieces, separator) = t
  /\ \A k \in DOMAIN pieces :
       LET upTo == IF k < Len(pieces) THEN pieces[k] \o separator ELSE pieces[k]
       IN  \A at \in 0..Len(upTo) - Len(separator) :
             Occurs(separator, upTo, at) => k < Len(pieces) /\ at = Len(pieces[k])

(* The result is the text without ch, and nothing else, at the given ends. *)
Trimmed(result, t, ch, left, right) ==
  \E from, to \in 0..Len(t) :
    /\ result = SubSeq(t, from + 1, to)
    /\ \A k \in 1..from : left /\ t[k] = ch
    /\ \A k \in to + 1..Len(t) : right /\ t[k] = ch
    /\ result # <<>> => (left => Head(result) # ch) /\ (right => Last(result) # ch)

(* Whatever overlaps, repeats or lies at an end: split (split.cpp:12) cuts   *)
(* the text exactly at the separators it finds from left to right, and trim  *)
(* and its variants (trim.cpp:13) take away exactly the characters at the    *)
(* ends they are for, also from a text that has nothing else.                *)
SplitAndTrimExact ==
  /\ search # <<>> => SplitCuts(Split(original, search), original, search)
  /\ search = <<>> => Split(original, search) = <<original>>
  /\ \A ch \in Chars :
       /\ SplitCuts(SplitAtChar(original, ch), original, <<ch>>)
       /\ Trimmed(TrimLeftIf(original, ch), original, ch, TRUE, FALSE)
       /\ Trimmed(TrimRightIf(original, ch), original, ch, FALSE, TRUE)
  /\ Trimmed(Trim(original), original, Blank, TRUE, TRUE)
  /\ TrimCopy(original) = Trim(original)

(* What replace.h:14 says, all occurrences are replaced, holds where search  *)
(* and substitute are equally long, for one occurrence with a shorter        *)
(* substitute, and for none.  Otherwise it need not: replace.cpp:25 skips    *)
(* the length of search and not that of the substitute, so that a shorter    *)
(* substitute hides occurrences and a longer one is searched itself.         *)
ReplaceExact ==
  LET pieces == Split(original, search)
      exact == \/ Len(search) = Len(substitute)
               \/ Len(pieces) = 2 /\ Len(search) > Len(substitute)
               \/ Len(pieces) = 1
  IN  returned /\ exact
        => /\ text = Joined(pieces, substitute)
           /\ Len(search) = 1 /\ Len(substitute) = 1
                => text = ReplaceChar(original, search[1], substitute[1])

(* The loop ends unless it searches for nothing or makes the text longer     *)
(* (the tests ask it to end for a substitute that equals the search text).   *)
ReplaceEnds == (search # <<>> /\ Len(substitute) <= Len(search)) ~> returned
=============================================================================
