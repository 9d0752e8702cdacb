---------------------------- MODULE Chunker_proofs ----------------------------
(***************************************************************************)
(* The windows of a text cover it, for every text, chunk size and overlap. *)
(***************************************************************************)
EXTENDS Chunker, TLAPS

ChunkerTypes ==
    /\ length \in Nat /\ length > 0 /\ stops \subseteq 1..length
    /\ chunk_size \in Nat /\ chunk_size > 0
    /\ overlap \in Nat /\ overlap < chunk_size
    /\ start \in Nat /\ start <= length
    /\ ranges \in Seq(Nat \X Nat)

\* What WindowsCover says of one window.
Window(i) ==
    /\ ranges[i][1] < ranges[i][2] /\ ranges[i][2] <= ranges[i][1] + chunk_size
    /\ i = 1 => ranges[i][1] = 0
    /\ i > 1 => /\ ranges[i - 1][1] < ranges[i][1] /\ ranges[i][1] <= ranges[i - 1][2]
                /\ ranges[i - 1][2] - ranges[i][1] <= overlap
                /\ ranges[i - 1][2] <= ranges[i][2]

\* Between two windows: the next one starts inside the last one or at its end, and
\* the last one ended at a sentence end unless there was none inside it, so that the
\* next one ends no earlier.
Between(w) ==
    /\ w[1] < start /\ start <= w[2] /\ w[2] - start <= overlap
    /\ w[2] <= w[1] + chunk_size /\ w[2] < length
    /\ w[2] \in SentenceEnds \/ \A e \in SentenceEnds : ~(w[1] < e /\ e <= w[2])

ChunkerInv ==
    /\ ChunkerTypes
    /\ \A i \in DOMAIN ranges : Window(i)
    /\ ranges = <<>> => start = 0
    /\ ranges # <<>> => \/ start = length /\ ranges[Len(ranges)][2] = length
                        \/ start < length /\ Between(ranges[Len(ranges)])

-----------------------------------------------------------------------------
\* No window yet.
LEMMA ChunkerInitially == ChunkerInit => ChunkerInv
BY ChunkerOK DEF ChunkerInit, ChunkerInv, ChunkerTypes

\* A window from start that ends no earlier than the last one keeps the invariant.
LEMMA TakeKeeps ==
    ASSUME ChunkerInv, start < length,
           NEW end \in Nat, NEW next \in Nat, Take(end, next),
           start < end, end <= start + chunk_size, end <= length,
           ranges # <<>> => ranges[Len(ranges)][2] <= end,
           end < length => start < next /\ next <= end /\ end - next <= overlap,
           end \in SentenceEnds \/ \A e \in SentenceEnds : ~(start < e /\ e <= end)
    PROVE  ChunkerInv'
<1> DEFINE n == Len(ranges) + 1
<1>1. ChunkerTypes BY DEF ChunkerInv
<1>2. PICK w \in Nat \X Nat : w = <<start, end>> /\ w[1] = start /\ w[2] = end
  <2>1. <<start, end>> \in Nat \X Nat /\ <<start, end>>[1] = start /\ <<start, end>>[2] = end
      BY <1>1 DEF ChunkerTypes
  <2> QED BY <2>1
<1>3. /\ ranges' = Append(ranges, w) /\ start' = IF end = length THEN length ELSE next
      /\ length' = length /\ stops' = stops /\ chunk_size' = chunk_size /\ overlap' = overlap
    BY <1>2 DEF Take
<1>4. /\ Len(ranges) \in Nat /\ DOMAIN ranges' = 1..n /\ DOMAIN ranges = 1 .. n - 1
      /\ Len(ranges') = n /\ ranges' # <<>> /\ ranges'[n] = w
      /\ \A i \in DOMAIN ranges : ranges'[i] = ranges[i] /\ ranges[i] \in Nat \X Nat
  <2>1. ranges \in Seq(Nat \X Nat) BY <1>1 DEF ChunkerTypes
  <2>2. Len(ranges') = n /\ ranges' # <<>> /\ ranges'[n] = w BY <2>1, <1>3, SMTT(40)
  <2>3. Len(ranges) \in Nat /\ DOMAIN ranges = 1 .. n - 1 BY <2>1
  <2>4. DOMAIN ranges' = 1..n BY <2>1, <1>3
  <2>5. \A i \in DOMAIN ranges : ranges'[i] = ranges[i] BY <2>1, <1>3, SMTT(40)
  <2>6. \A i \in DOMAIN ranges : ranges[i] \in Nat \X Nat BY <2>1
  <2> QED BY <2>2, <2>3, <2>4, <2>5, <2>6
<1>5. ChunkerTypes' BY <1>1, <1>2, <1>3 DEF ChunkerTypes
<1>6. ASSUME NEW i \in DOMAIN ranges' PROVE Window(i)'
  <2>1. CASE i \in DOMAIN ranges
    <3>1. Window(i) BY <2>1 DEF ChunkerInv
    <3>2. ranges'[i] = ranges[i] /\ (i > 1 => ranges'[i - 1] = ranges[i - 1]) BY <2>1, <1>4
    <3> QED BY <3>1, <3>2, <1>3 DEF Window
  <2>2. CASE i = n /\ ranges = <<>>
    <3>1. i = 1 /\ start = 0 BY <2>2 DEF ChunkerInv
    <3> QED BY <3>1, <2>2, <1>1, <1>2, <1>3, <1>4 DEF Window, ChunkerTypes
  <2>3. CASE i = n /\ ranges # <<>>
    <3>1. Len(ranges) > 0 /\ Len(ranges) \in DOMAIN ranges /\ i - 1 = Len(ranges)
        BY <2>3, <1>1, <1>4 DEF ChunkerTypes
    <3>2. Between(ranges[Len(ranges)]) BY <2>3 DEF ChunkerInv, ChunkerTypes
    <3>3. ranges'[i - 1] = ranges[Len(ranges)] /\ ranges'[i] = w BY <2>3, <3>1, <1>4
    <3> QED BY <3>1, <3>2, <3>3, <2>3, <1>1, <1>2, <1>3, <1>4 DEF Window, Between, ChunkerTypes
  <2> QED BY <2>1, <2>2, <2>3, <1>4
<1>7. ASSUME end < length PROVE start' < length' /\ Between(w)'
  <2>1. start' = next /\ next < length' BY <1>3, <1>7, <1>1 DEF ChunkerTypes
  <2>2. SentenceEnds' = SentenceEnds BY <1>3 DEF SentenceEnds
  <2> QED BY <2>1, <2>2, <1>2, <1>3, <1>7 DEF Between
<1>8. ASSUME end = length PROVE start' = length' /\ w[2] = length' BY <1>2, <1>3, <1>8
<1>9. end = length \/ end < length BY <1>1 DEF ChunkerTypes
<1> QED BY <1>4, <1>5, <1>6, <1>7, <1>8, <1>9 DEF ChunkerInv

\* The last window ends no later than the next one may: it started earlier, and is
\* no longer than chunk_size.
LEMMA RoomForTheLast ==
    ASSUME ChunkerInv, start < length, ranges # <<>>
    PROVE  /\ ranges[Len(ranges)] \in Nat \X Nat /\ Between(ranges[Len(ranges)])
           /\ ranges[Len(ranges)][2] <= MaxEnd
<1>1. Len(ranges) \in DOMAIN ranges /\ ranges[Len(ranges)] \in Nat \X Nat
    BY DEF ChunkerInv, ChunkerTypes
<1>2. Between(ranges[Len(ranges)]) BY DEF ChunkerInv, ChunkerTypes
<1> QED BY <1>1, <1>2 DEF ChunkerInv, ChunkerTypes, Between, MaxEnd, Least

-----------------------------------------------------------------------------
\* A step keeps the invariant.
LEMMA ChunkerStep == ChunkerInv /\ [ChunkerNext]_chunkerVars => ChunkerInv'
<1> SUFFICES ASSUME ChunkerInv, [ChunkerNext]_chunkerVars PROVE ChunkerInv'
    OBVIOUS
<1>t. ChunkerTypes BY DEF ChunkerInv
<1>e. SentenceEnds \subseteq 1..length /\ length \in SentenceEnds
    BY <1>t DEF ChunkerTypes, SentenceEnds
<1>m. ASSUME start < length
      PROVE  /\ MaxEnd \in Nat /\ start < MaxEnd /\ MaxEnd <= start + chunk_size /\ MaxEnd <= length
             /\ MaxEnd < length => MaxEnd = start + chunk_size
    BY <1>m, <1>t DEF MaxEnd, Least, ChunkerTypes
<1>1. CASE WordWindow
  <2> DEFINE next == start + Most(1, chunk_size - overlap)
  <2>1. start < length /\ SentenceEnds = {length} /\ Take(MaxEnd, next) BY <1>1 DEF WordWindow
  <2>2. next \in Nat /\ (MaxEnd < length => start < next /\ next <= MaxEnd /\ MaxEnd - next <= overlap)
      BY <2>1, <1>m, <1>t DEF ChunkerTypes, Most
  <2>3. ranges # <<>> => ranges[Len(ranges)][2] <= MaxEnd BY <2>1, RoomForTheLast
  <2>4. MaxEnd \in SentenceEnds \/ \A e \in SentenceEnds : ~(start < e /\ e <= MaxEnd)
      BY <2>1, <1>m, <1>t DEF ChunkerTypes
  <2> HIDE DEF next
  <2> QED BY <2>1, <2>2, <2>3, <2>4, <1>m, TakeKeeps
<1>2. CASE SentenceWindow
  <2>1. start < length BY <1>2 DEF SentenceWindow
  <2>2. PICK end \in SentenceEnds :
          /\ start < end /\ end <= MaxEnd
          /\ \A e \in SentenceEnds : start < e /\ e <= MaxEnd => e <= end
          /\ \E next \in 0..end : NextStart(end, next) /\ Take(end, next)
      BY <1>2 DEF SentenceWindow
  <2>3. PICK next \in 0..end : NextStart(end, next) /\ Take(end, next) BY <2>2
  <2>4. end \in Nat /\ next \in Nat /\ end <= start + chunk_size /\ end <= length
      BY <2>1, <2>2, <1>e, <1>m, <1>t DEF ChunkerTypes
  <2>5. start < next /\ next <= end /\ end - next <= overlap
    <3>1. CASE next = end BY <3>1, <2>2, <2>4, <1>t DEF ChunkerTypes
    <3>2. CASE next # end
      <4>1. Most(start + 1, end - overlap) <= next /\ next < end BY <3>2, <2>3 DEF NextStart
      <4> QED BY <4>1, <2>4, <1>t DEF Most, ChunkerTypes
    <3> QED BY <3>1, <3>2
  <2>6. ASSUME ranges # <<>> PROVE ranges[Len(ranges)][2] <= end
    <3>1. PICK w \in Nat \X Nat : w = ranges[Len(ranges)] /\ Between(w) /\ w[2] <= MaxEnd
        BY <2>1, <2>6, RoomForTheLast
    <3> SUFFICES w[2] <= end BY <3>1
    <3>2. w[1] \in Nat /\ w[2] \in Nat /\ w[1] < start BY <3>1 DEF Between
    <3>3. CASE w[2] <= start BY <3>3, <3>2, <2>2, <2>4, <1>t DEF ChunkerTypes
    <3>4. CASE start < w[2] /\ w[2] \in SentenceEnds BY <3>4, <3>1, <2>2
    <3>5. CASE w[2] \notin SentenceEnds
      <4>1. ~(w[1] < end /\ end <= w[2]) BY <3>1, <3>5 DEF Between
      <4> QED BY <4>1, <3>2, <2>2, <2>4, <1>t DEF ChunkerTypes
    <3> QED BY <3>2, <3>3, <3>4, <3>5, <1>t DEF ChunkerTypes
  <2> QED BY <2>1, <2>2, <2>3, <2>4, <2>5, <2>6, TakeKeeps
<1>3. CASE LongSentenceWindow
  <2> DEFINE next == IF overlap > 0 THEN Most(start + 1, MaxEnd - overlap) ELSE MaxEnd
  <2>1. /\ start < length /\ Take(MaxEnd, next)
        /\ \A e \in SentenceEnds : ~(start < e /\ e <= MaxEnd)
      BY <1>3 DEF LongSentenceWindow
  <2>2. next \in Nat /\ start < next /\ next <= MaxEnd /\ MaxEnd - next <= overlap
      BY <2>1, <1>m, <1>t DEF ChunkerTypes, Most
  <2>3. ranges # <<>> => ranges[Len(ranges)][2] <= MaxEnd BY <2>1, RoomForTheLast
  <2> HIDE DEF next
  <2> QED BY <2>1, <2>2, <2>3, <1>m, TakeKeeps
<1>4. CASE UNCHANGED chunkerVars
    BY <1>4 DEF chunkerVars, ChunkerInv, ChunkerTypes, Window, Between, SentenceEnds
<1> QED BY <1>1, <1>2, <1>3, <1>4 DEF ChunkerNext

LEMMA ChunkerInvariant == ChunkerSpec => []ChunkerInv
BY ChunkerInitially, ChunkerStep, PTL DEF ChunkerSpec

-----------------------------------------------------------------------------
\* The windows cover the text without a gap, move on, are no longer than chunk_size,
\* repeat no more than overlap words, and none ends before the one before it
\* (chunker.py, _sentence_aware_ranges and _word_based_ranges).
THEOREM EveryTextIsCovered == ChunkerSpec => []WindowsCover
<1>1. ChunkerInv => WindowsCover
  <2> SUFFICES ASSUME ChunkerInv PROVE WindowsCover OBVIOUS
  <2>1. ChunkerTypes BY DEF ChunkerInv
  <2>2. \A i \in DOMAIN ranges : Window(i) BY DEF ChunkerInv
  <2>3. start = length => ranges # <<>> /\ ranges[Len(ranges)][2] = length
      BY <2>1 DEF ChunkerInv, ChunkerTypes
  <2>4. start < length /\ ranges # <<>> => start <= ranges[Len(ranges)][2]
      BY <2>1 DEF ChunkerInv, ChunkerTypes, Between
  <2> QED BY <2>2, <2>3, <2>4 DEF WindowsCover, Window
<1> QED BY <1>1, ChunkerInvariant, PTL
=============================================================================
