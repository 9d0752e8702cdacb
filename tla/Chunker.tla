-------------------------------- MODULE Chunker --------------------------------
(***************************************************************************)
(* How the text of a book is cut into chunks: the loop of the chunker, one *)
(* window a step.  A text is its number of words and the words that end a  *)
(* sentence; a window <<s, e>> has the words s + 1 to e.                   *)
(***************************************************************************)
EXTENDS Integers, Sequences

CONSTANTS MaxWords, MaxSize  \* bounds: words of a text, CHUNK_SIZE

ASSUME ChunkerOK == MaxWords \in Nat /\ MaxSize \in Nat

VARIABLES
    length, stops,        \* the text
    chunk_size, overlap,  \* the configuration
    start,   \* where the next window starts
    ranges   \* the windows so far

chunkerVars == <<length, stops, chunk_size, overlap, start, ranges>>

\* The three ValueErrors and the empty text come first.
ChunkerInit ==
    /\ length \in 1..MaxWords /\ stops \in SUBSET (1..length)
    /\ chunk_size \in 1..MaxSize /\ overlap \in 0 .. chunk_size - 1
    /\ start = 0 /\ ranges = <<>>

Least(a, b) == IF a < b THEN a ELSE b
Most(a, b)  == IF a > b THEN a ELSE b

\* The end of the text always ends a sentence.
SentenceEnds   == stops \cup {length}
SentenceStarts == {0} \cup SentenceEnds

MaxEnd == Least(start + chunk_size, length)

\* A window, and where the next one starts; the loop ends with the text.
Take(end, next) ==
    /\ ranges' = Append(ranges, <<start, end>>)
    /\ start' = IF end = length THEN length ELSE next
    /\ UNCHANGED <<length, stops, chunk_size, overlap>>

\* _word_based_ranges: no sentence ends before the text does.
WordWindow ==
    /\ start < length
    /\ SentenceEnds = {length}
    /\ Take(MaxEnd, start + Most(1, chunk_size - overlap))

\* Mutant: without start + 1 a short window is taken again.
NextStartAnywhere(end, next) ==
    LET fits == {s \in SentenceStarts : end - overlap <= s /\ s < end}
    IN  IF overlap > 0 /\ fits # {} THEN next \in fits /\ \A s \in fits : next <= s
        ELSE next = end

\* The next window starts at the first sentence within the overlap, if there is one.
NextStart(end, next) ==
    LET target == Most(start + 1, end - overlap)
        fits   == {s \in SentenceStarts : target <= s /\ s < end}
    IN  IF overlap > 0 /\ fits # {} THEN next \in fits /\ \A s \in fits : next <= s
        ELSE next = end

\* A window up to the last sentence end it has room for.
SentenceWindow ==
    /\ start < length
    /\ SentenceEnds # {length}
    /\ \E end \in SentenceEnds :
          /\ start < end /\ end <= MaxEnd
          /\ \A e \in SentenceEnds : start < e /\ e <= MaxEnd => e <= end
          /\ \E next \in 0..end : NextStart(end, next) /\ Take(end, next)

\* A window inside a long sentence.
LongSentenceWindow ==
    /\ start < length
    /\ SentenceEnds # {length}
    /\ \A e \in SentenceEnds : ~(start < e /\ e <= MaxEnd)
    /\ Take(MaxEnd, IF overlap > 0 THEN Most(start + 1, MaxEnd - overlap) ELSE MaxEnd)

ChunkerNext == WordWindow \/ SentenceWindow \/ LongSentenceWindow

ChunkerSpec == ChunkerInit /\ [][ChunkerNext]_chunkerVars

-----------------------------------------------------------------------------
\* The windows cover the text without a gap and always move on, none is longer than
\* chunk_size, no more than overlap words are repeated, and no window ends before
\* the one before it (it may end with it).
WindowsCover ==
    /\ \A i \in DOMAIN ranges :
          /\ ranges[i][1] < ranges[i][2] /\ ranges[i][2] <= ranges[i][1] + chunk_size
          /\ i = 1 => ranges[i][1] = 0
          /\ i > 1 => /\ ranges[i - 1][1] < ranges[i][1] /\ ranges[i][1] <= ranges[i - 1][2]
                      /\ ranges[i - 1][2] - ranges[i][1] <= overlap
                      /\ ranges[i - 1][2] <= ranges[i][2]
    /\ start = length => ranges # <<>> /\ ranges[Len(ranges)][2] = length
    /\ start < length /\ ranges # <<>> => start <= ranges[Len(ranges)][2]
=============================================================================
