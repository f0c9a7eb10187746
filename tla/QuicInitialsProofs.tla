-------------------------- MODULE QuicInitialsProofs --------------------------
(* What holds of QuicInitials for every set of connections and ClientHellos, every
   limit, every list of frames an Initial may carry, every shape of its header and
   every packet number: the four properties of the flow's QUIC state.          *)
EXTENDS QuicInitials, WellFoundedInduction, SequenceTheorems, TLAPS

(* CRYPTO bytes are collected below the limit, and end_offset is exactly where the
   first one is missing.                                                      *)
Sound(s) ==
    /\ s = [conn |-> s.conn, data |-> s.data, end_offset |-> s.end_offset,
            complete |-> s.complete]
    /\ DOMAIN s.data \subseteq 0..Limit - 1
    /\ s.end_offset \in 0..Limit
    /\ 0..s.end_offset - 1 \subseteq DOMAIN s.data
    /\ s.end_offset \notin DOMAIN s.data

Authentic(s) == \A i \in DOMAIN s.data : s.data[i] = <<s.conn, i>>

-----------------------------------------------------------------------------
(* Sets of naturals.  Induction over them goes through the least counterexample. *)

LEMMA Least ==
    ASSUME NEW T \in SUBSET Nat, T # {} PROVE \E n \in T : \A m \in T : n <= m
<1>1. IsWellFoundedOn(OpToRel(<, Nat), Nat)
  BY NatLessThanWellFounded
<1>2. PICK n \in T : \A m \in T : ~ (<<m, n>> \in OpToRel(<, Nat))
  BY <1>1, WFMin
<1>3. \A m \in T : ~ (m < n)
  BY <1>2 DEF OpToRel
<1> QED
  BY <1>3

LEMMA MinOfSet ==
    ASSUME NEW S \in SUBSET Nat, S # {}
    PROVE  Stream!Min(S) \in S /\ \A m \in S : Stream!Min(S) <= m
<1>1. \E n \in S : \A m \in S : n <= m
  BY Least
<1> QED
  BY <1>1 DEF Stream!Min

LEMMA MaxOfBounded ==
    ASSUME NEW L \in Nat, NEW S \in SUBSET (0..L), S # {}
    PROVE  Stream!Max(S) \in S /\ \A m \in S : Stream!Max(S) >= m
<1> DEFINE T == {L - n : n \in S}
<1>1. T \in SUBSET Nat /\ T # {}
  <2>1. \A n \in S : L - n \in Nat
    OBVIOUS
  <2>2. PICK n \in S : TRUE
    OBVIOUS
  <2>3. L - n \in T
    BY <2>2
  <2> QED
    BY <2>1, <2>3
<1>2. PICK t \in T : \A u \in T : t <= u
  BY <1>1, Least
<1>3. PICK n \in S : t = L - n
  OBVIOUS
<1>4. \A m \in S : L - m \in T
  OBVIOUS
<1>5. \A m \in S : n >= m
  <2> SUFFICES ASSUME NEW m \in S PROVE n >= m
    OBVIOUS
  <2>1. L - n <= L - m
    BY <1>2, <1>3, <1>4
  <2>2. n \in Nat /\ m \in Nat
    BY <1>3
  <2> QED
    BY <2>1, <2>2
<1>6. \E x \in S : \A y \in S : x >= y
  BY <1>5
<1> QED
  BY <1>6 DEF Stream!Max

-----------------------------------------------------------------------------
(* One CRYPTO frame. *)

AnyFrame == [kind : {"crypto", "skipped", "other", "misread"}, offset : Nat, length : Nat]

LEMMA LimitIsNatural == Limit \in Nat \ {0}
  BY ConnectionsAssumption DEF ConnectionsAssumption

(* The prefix grows to the first gap, and never past one. *)
LEMMA ExtendedIsExact ==
    ASSUME NEW end \in 0..Limit, NEW f, NEW held \in SUBSET (0..Limit - 1),
           0..end - 1 \subseteq held
    PROVE  LET e == Stream!Extended(end, f, held)
           IN  e \in 0..Limit /\ 0..e - 1 \subseteq held /\ e \notin held
<1> DEFINE S == {n \in end..Limit : end..n - 1 \subseteq held}
           e == Stream!Max(S)
<1>1. Limit \in Nat
  BY LimitIsNatural
<1>2. end \in S /\ S \in SUBSET (0..Limit)
  BY <1>1
<1>3. e \in S /\ \A m \in S : e >= m
  <2> HIDE DEF S
  <2> QED
    BY <1>1, <1>2, MaxOfBounded
<1>4. Stream!Extended(end, f, held) = e
  BY DEF Stream!Extended
<1>5. e \in end..Limit /\ end..e - 1 \subseteq held
  BY <1>3
<1>6. e \in held => e + 1 \in S
  <2> SUFFICES ASSUME e \in held PROVE e + 1 \in S
    OBVIOUS
  <2> HIDE DEF e
  <2>1. e \in Nat /\ e <= Limit - 1 /\ e + 1 \in end..Limit
    BY <1>1, <1>5
  <2>2. end..e = end..e - 1 \cup {e} /\ e + 1 - 1 = e
    BY <1>5, <2>1
  <2> QED
    BY <1>5, <2>1, <2>2
<1> HIDE DEF S, e
<1>7. e \notin held
  BY <1>1, <1>3, <1>5, <1>6
<1>8. 0..e - 1 \subseteq held
  BY <1>1, <1>5
<1> QED
  BY <1>1, <1>4, <1>5, <1>7, <1>8

(* A frame adds its bytes below the limit, and changes none that is there. *)
LEMMA FrameAdds ==
    ASSUME NEW s, Sound(s), NEW f \in AnyFrame
    PROVE  LET t == Stream!WithFrame(s, f)
           IN  /\ Sound(t) /\ t.conn = s.conn /\ t.complete = s.complete
               /\ DOMAIN t.data = DOMAIN s.data \cup Stream!Stored(f)
               /\ Authentic(s) /\ f.kind # "misread" => Authentic(t)
<1> DEFINE held == DOMAIN s.data \cup Stream!Stored(f)
           data == [i \in held |-> IF i \in DOMAIN s.data THEN s.data[i]
                                   ELSE Stream!Byte(s.conn, f, i)]
           e == Stream!Extended(s.end_offset, f, held)
           t == Stream!WithFrame(s, f)
<1>1. /\ s = [conn |-> s.conn, data |-> s.data, end_offset |-> s.end_offset,
              complete |-> s.complete]
      /\ DOMAIN s.data \subseteq 0..Limit - 1 /\ s.end_offset \in 0..Limit
      /\ 0..s.end_offset - 1 \subseteq DOMAIN s.data
  BY DEF Sound
<1>2. Stream!Stored(f) \subseteq 0..Limit - 1
  BY LimitIsNatural DEF Stream!Stored, AnyFrame
<1>3. held \in SUBSET (0..Limit - 1) /\ 0..s.end_offset - 1 \subseteq held
  BY <1>1, <1>2
<1>4. t = [s EXCEPT !.data = data, !.end_offset = e]
  BY DEF Stream!WithFrame
<1> HIDE DEF held
<1>5. e \in 0..Limit /\ 0..e - 1 \subseteq held /\ e \notin held
  BY <1>1, <1>3, ExtendedIsExact
<1>6. DOMAIN data = held
  OBVIOUS
<1> HIDE DEF data, e, t
<1>7. t = [conn |-> s.conn, data |-> data, end_offset |-> e, complete |-> s.complete]
  BY <1>1, <1>4
<1>8. t.conn = s.conn /\ t.data = data /\ t.end_offset = e /\ t.complete = s.complete
  BY <1>7
<1>9. Sound(t)
  BY <1>3, <1>5, <1>6, <1>7, <1>8 DEF Sound
<1>10. Authentic(s) /\ f.kind # "misread" => Authentic(t)
  BY <1>6, <1>8 DEF Authentic, Stream!Byte, data
<1> QED
  BY <1>6, <1>8, <1>9, <1>10 DEF held, t

-----------------------------------------------------------------------------
(* All frames of a packet, one after the other. *)

IsChain(s, frames, m, g) ==
    g = [n \in 0..m |-> IF n = 0 THEN s ELSE Stream!WithFrame(g[n - 1], frames[n])]

LEMMA ChainBegins ==
    ASSUME NEW s, NEW frames PROVE IsChain(s, frames, 0, [n \in 0..0 |-> s])
<1> DEFINE g == [n \in 0..0 |-> s]
<1>1. \A n \in 0..0 : s = IF n = 0 THEN s ELSE Stream!WithFrame(g[n - 1], frames[n])
  OBVIOUS
<1> HIDE DEF g
<1>2. [n \in 0..0 |-> s]
        = [n \in 0..0 |-> IF n = 0 THEN s ELSE Stream!WithFrame(g[n - 1], frames[n])]
  BY <1>1
<1> QED
  BY <1>2 DEF g, IsChain

LEMMA ChainGrows ==
    ASSUME NEW s, NEW frames, NEW m \in Nat, m # 0, NEW g, IsChain(s, frames, m - 1, g)
    PROVE  \E h : IsChain(s, frames, m, h)
<1> DEFINE h == [n \in 0..m |-> IF n < m THEN g[n] ELSE Stream!WithFrame(g[m - 1], frames[m])]
<1>1. \A n \in 0..m : h[n] = IF n = 0 THEN s ELSE Stream!WithFrame(h[n - 1], frames[n])
  <2> SUFFICES ASSUME NEW n \in 0..m
               PROVE  h[n] = IF n = 0 THEN s ELSE Stream!WithFrame(h[n - 1], frames[n])
    OBVIOUS
  <2>1. CASE n < m
    <3>1. /\ n \in 0..m - 1 /\ h[n] = g[n]
          /\ n # 0 => n - 1 \in 0..m /\ n - 1 < m /\ h[n - 1] = g[n - 1]
      BY <2>1
    <3>2. g[n] = IF n = 0 THEN s ELSE Stream!WithFrame(g[n - 1], frames[n])
      BY <3>1 DEF IsChain
    <3> QED
      BY <3>1, <3>2
  <2>2. CASE n = m
    <3>1. h[n] = Stream!WithFrame(g[m - 1], frames[m]) /\ h[m - 1] = g[m - 1]
      BY <2>2
    <3> QED
      BY <2>2, <3>1
  <2> QED
    BY <2>1, <2>2
<1>2. h = [n \in 0..m |-> h[n]]
  OBVIOUS
<1> HIDE DEF h
<1>3. IsChain(s, frames, m, h)
  BY <1>1, <1>2 DEF IsChain
<1> QED
  BY <1>3

LEMMA ChainExists ==
    ASSUME NEW s, NEW frames, NEW m \in Nat PROVE \E g : IsChain(s, frames, m, g)
<1> DEFINE T == {n \in Nat : ~ \E g : IsChain(s, frames, n, g)}
<1> SUFFICES ASSUME T # {} PROVE FALSE
  OBVIOUS
<1>1. PICK n \in T : \A i \in T : n <= i
  BY Least
<1>2. n \in Nat /\ \A i \in Nat : i < n => \E g : IsChain(s, frames, i, g)
  BY <1>1
<1>3. ~ \E g : IsChain(s, frames, n, g)
  BY <1>1
<1> HIDE DEF T
<1>4. n # 0
  BY <1>3, ChainBegins
<1>5. \E g : IsChain(s, frames, n - 1, g)
  BY <1>2, <1>4
<1> QED
  BY <1>2, <1>3, <1>4, <1>5, ChainGrows

(* AfterEach is the recursive function it is written as. *)
LEMMA AfterEachUnfolds ==
    ASSUME NEW s, NEW frames, Len(frames) \in Nat
    PROVE  IsChain(s, frames, Len(frames), Stream!AfterEach(s, frames))
<1>1. \E g : IsChain(s, frames, Len(frames), g)
  BY ChainExists
<1>2. IsChain(s, frames, Len(frames), CHOOSE g : IsChain(s, frames, Len(frames), g))
  BY <1>1
<1>3. Stream!AfterEach(s, frames) = CHOOSE g : IsChain(s, frames, Len(frames), g)
  BY DEF Stream!AfterEach, IsChain
<1> QED
  BY <1>2, <1>3

(* The offsets of the first n frames. *)
StoredIn(frames, n) ==
    {x \in 0..Limit - 1 : \E i \in 1..n : x \in Stream!Stored(frames[i])}

(* What these frames have added. *)
Adds(s, frames, n, t) ==
    /\ Sound(t) /\ t.conn = s.conn /\ t.complete = s.complete
    /\ DOMAIN t.data = DOMAIN s.data \cup StoredIn(frames, n)
    /\ Authentic(s) /\ (\A i \in 1..n : frames[i].kind # "misread") => Authentic(t)

LEMMA FramesAdd ==
    ASSUME NEW s, Sound(s), NEW frames \in Seq(AnyFrame)
    PROVE  Adds(s, frames, Len(frames), Stream!AfterEach(s, frames)[Len(frames)])
<1> DEFINE g == Stream!AfterEach(s, frames)
           N == Len(frames)
           T == {n \in 0..N : ~ Adds(s, frames, n, g[n])}
<1>1. N \in Nat /\ \A i \in 1..N : frames[i] \in AnyFrame
  BY ElementOfSeq
<1>2. g = [n \in 0..N |-> IF n = 0 THEN s ELSE Stream!WithFrame(g[n - 1], frames[n])]
  BY <1>1, AfterEachUnfolds DEF IsChain
<1> HIDE DEF g, N
<1>3. g[0] = s /\ \A n \in 1..N : g[n] = Stream!WithFrame(g[n - 1], frames[n])
  <2>1. 0 \in 0..N /\ \A n \in 1..N : n \in 0..N /\ n # 0
    BY <1>1
  <2> QED
    BY <1>2, <2>1
<1> SUFFICES ASSUME T # {} PROVE FALSE
  <2>1. N \in 0..N
    BY <1>1
  <2> QED
    BY <2>1 DEF g, N
<1>4. T \in SUBSET Nat
  BY <1>1
<1>5. PICK n \in T : \A i \in T : n <= i
  BY <1>4, Least
<1>6. n \in 0..N /\ ~ Adds(s, frames, n, g[n])
  BY <1>5
<1>7. n # 0
  <2>1. Adds(s, frames, 0, s)
    <3>1. StoredIn(frames, 0) = {}
      BY DEF StoredIn
    <3> QED
      BY <3>1 DEF Adds
  <2> QED
    BY <1>3, <1>6, <2>1
<1>8. n - 1 \in 0..N /\ n \in 1..N /\ n - 1 < n /\ n \in Nat
  BY <1>1, <1>6, <1>7
<1>9. Adds(s, frames, n - 1, g[n - 1])
  <2>1. n - 1 \notin T
    BY <1>5, <1>8
  <2> QED
    BY <1>8, <2>1
<1> HIDE DEF T
<1> DEFINE u == g[n - 1]
           t == g[n]
<1>10. t = Stream!WithFrame(u, frames[n])
  BY <1>3, <1>8
<1>11. Sound(u) /\ frames[n] \in AnyFrame
  BY <1>1, <1>8, <1>9 DEF Adds
<1>12. /\ Sound(t) /\ t.conn = u.conn /\ t.complete = u.complete
       /\ DOMAIN t.data = DOMAIN u.data \cup Stream!Stored(frames[n])
       /\ Authentic(u) /\ frames[n].kind # "misread" => Authentic(t)
  <2> HIDE DEF t, u
  <2> QED
    BY <1>10, <1>11, FrameAdds
<1> HIDE DEF t, u
<1>13. 1..n = 1..n - 1 \cup {n}
  BY <1>8
<1>14. Adds(s, frames, n - 1, u)
  BY <1>9 DEF u
<1>15. StoredIn(frames, n) = StoredIn(frames, n - 1) \cup Stream!Stored(frames[n])
  <2>1. Stream!Stored(frames[n]) \subseteq 0..Limit - 1
    BY <1>11, LimitIsNatural DEF Stream!Stored, AnyFrame
  <2> QED
    BY <1>13, <2>1 DEF StoredIn
<1>16. Adds(s, frames, n, t)
  <2>1. /\ Sound(t) /\ t.conn = s.conn /\ t.complete = s.complete
        /\ DOMAIN t.data = DOMAIN u.data \cup Stream!Stored(frames[n])
        /\ DOMAIN u.data
              = DOMAIN s.data \cup StoredIn(frames, n - 1)
    BY <1>12, <1>14 DEF Adds
  <2>2. Authentic(s) /\ (\A i \in 1..n : frames[i].kind # "misread") => Authentic(t)
    BY <1>12, <1>13, <1>14 DEF Adds
  <2>3. DOMAIN t.data = DOMAIN s.data \cup StoredIn(frames, n)
    BY <2>1, <1>15, Zenon
  <2> QED
    BY <2>1, <2>2, <2>3 DEF Adds
<1> QED
  BY <1>6, <1>16 DEF t

-----------------------------------------------------------------------------
(* The frames of one Initial, as add_frames parses them. *)

LEMMA SentTyped ==
    ASSUME NEW c \in Connections, NEW f \in Stream!Sent(c)
    PROVE  /\ f \in AnyFrame /\ f.kind \in {"crypto", "skipped", "other"}
           /\ f.offset + f.length <= HelloLen[c]
<1>1. HelloLen[c] \in Nat \ {0}
  BY ConnectionsAssumption DEF ConnectionsAssumption
<1>2. f \in Stream!FramesOf(c) /\ f.offset + f.length <= HelloLen[c]
  BY DEF Stream!Sent
<1>3. \A o, l \in Nat : Stream!Crypto(o, l) \in AnyFrame /\ Stream!Crypto(o, l).kind = "crypto"
  BY DEF Stream!Crypto, AnyFrame
<1>4. /\ Stream!Skipped \in AnyFrame /\ Stream!Skipped.kind = "skipped"
      /\ Stream!Other \in AnyFrame /\ Stream!Other.kind = "other"
  BY DEF Stream!Skipped, Stream!Other, AnyFrame
<1>5. f = Stream!Skipped \/ f = Stream!Other \/ \E o, l \in Nat : f = Stream!Crypto(o, l)
  BY <1>1, <1>2 DEF Stream!FramesOf
<1> QED
  BY <1>2, <1>3, <1>4, <1>5

LEMMA SentInOrder ==
    ASSUME NEW c \in Connections, NEW frames \in FrameLists[c]
    PROVE  /\ frames \in Seq(AnyFrame) /\ Len(frames) \in Nat
           /\ DOMAIN frames = 1..Len(frames)
           /\ \A i \in 1..Len(frames) :
                /\ frames[i] \in AnyFrame
                /\ frames[i].kind \in {"crypto", "skipped", "other"}
                /\ frames[i].offset + frames[i].length <= HelloLen[c]
<1>1. frames \in Seq(Stream!Sent(c))
  BY InitialsAssumption DEF InitialsAssumption
<1>2. /\ Len(frames) \in Nat /\ frames = [i \in 1..Len(frames) |-> frames[i]]
      /\ \A i \in 1..Len(frames) : frames[i] \in Stream!Sent(c)
  BY <1>1, ElementOfSeq, SeqDef
<1>3. \A i \in 1..Len(frames) : /\ frames[i] \in AnyFrame
                                /\ frames[i].kind \in {"crypto", "skipped", "other"}
                                /\ frames[i].offset + frames[i].length <= HelloLen[c]
  BY <1>2, SentTyped
<1> QED
  BY <1>2, <1>3, SeqDef

(* Whatever a cut-off tail is taken for, frames are parsed. *)
LEMMA ParsedTyped ==
    ASSUME NEW c \in Connections, NEW frames \in FrameLists[c],
           NEW misread \in Stream!Tails(frames)
    PROVE  Stream!Parsed(frames, misread) \in Seq(AnyFrame)
<1> DEFINE ends == {i \in DOMAIN frames : Stream!Stops(frames[i]) \/ Stream!CutOff(frames[i])}
           end == Stream!Min(ends)
           before == SubSeq(frames, 1, end - 1)
<1>1. frames \in Seq(AnyFrame) /\ Len(frames) \in Nat /\ DOMAIN frames = 1..Len(frames)
  BY SentInOrder
<1>2. misread \in Seq(AnyFrame)
  <2>1. \A o \in 0..Limit - 1 : [kind |-> "misread", offset |-> o, length |-> 1] \in AnyFrame
    BY LimitIsNatural DEF AnyFrame
  <2>2. \A o \in 0..Limit - 1 :
            <<[kind |-> "misread", offset |-> o, length |-> 1]>> \in Seq(AnyFrame)
    <3>1. \A f \in AnyFrame : <<f>> \in Seq(AnyFrame)
      OBVIOUS
    <3> QED
      BY <2>1, <3>1, Zenon
  <2>3. <<>> \in Seq(AnyFrame)
    BY EmptySeq
  <2> QED
    BY <2>2, <2>3 DEF Stream!Tails, Stream!Misreadings
<1>3. CASE ends = {}
  BY <1>1, <1>3 DEF Stream!Parsed
<1>4. CASE ends # {}
  <2>1. end \in ends /\ end \in 1..Len(frames)
    <3>1. ends \in SUBSET Nat /\ ends \in SUBSET (1..Len(frames))
      BY <1>1
    <3> HIDE DEF ends
    <3> QED
      BY <1>4, <3>1, MinOfSet
  <2> HIDE DEF ends, end
  <2>2. before \in Seq(AnyFrame)
    BY <1>1, <2>1, SubSeqProperties
  <2>3. <<frames[end]>> \in Seq(AnyFrame)
    BY <1>1, <2>1, ElementOfSeq
  <2>4. before \o <<frames[end]>> \o misread \in Seq(AnyFrame)
    BY <1>2, <2>2, <2>3, ConcatProperties
  <2>5. Stream!Parsed(frames, misread)
          = IF Stream!CutOff(frames[end]) THEN before \o <<frames[end]>> \o misread ELSE before
    BY <1>4 DEF Stream!Parsed, ends, end
  <2> QED
    BY <2>2, <2>4, <2>5
<1> QED
  BY <1>3, <1>4

(* A ClientHello within the limit is never cut off: what its frames cover is stored. *)
LEMMA CoveredIsStored ==
    ASSUME NEW c \in Connections, HelloLen[c] <= Limit, NEW frames \in FrameLists[c],
           NEW misread \in Stream!Tails(frames)
    PROVE  LET parsed == Stream!Parsed(frames, misread)
           IN  /\ \A i \in 1..Len(parsed) : parsed[i].kind # "misread"
               /\ StoredIn(parsed, Len(parsed)) = Stream!Covered(frames)
<1> DEFINE N == Len(frames)
           ends == {i \in DOMAIN frames : Stream!Stops(frames[i]) \/ Stream!CutOff(frames[i])}
           end == Stream!Min(ends)
           before == SubSeq(frames, 1, end - 1)
           parsed == Stream!Parsed(frames, misread)
<1>1. /\ frames \in Seq(AnyFrame) /\ N \in Nat /\ DOMAIN frames = 1..N
      /\ \A i \in 1..N : /\ frames[i] \in AnyFrame
                         /\ frames[i].kind \in {"crypto", "skipped", "other"}
                         /\ frames[i].offset + frames[i].length <= HelloLen[c]
  BY SentInOrder
<1>2. HelloLen[c] \in Nat /\ Limit \in Nat
  BY ConnectionsAssumption DEF ConnectionsAssumption
<1>3. \A i \in 1..N : /\ frames[i].offset \in Nat /\ frames[i].length \in Nat
                      /\ frames[i].offset + frames[i].length <= Limit
  BY <1>1, <1>2 DEF AnyFrame
<1>4. \A i \in 1..N : /\ Stream!Stops(frames[i]) <=> frames[i].kind = "other"
                      /\ ~Stream!CutOff(frames[i])
  BY <1>2, <1>3 DEF Stream!Stops, Stream!CutOff
<1>5. \A i \in 1..N : Stream!Stored(frames[i])
                        = frames[i].offset..frames[i].offset + frames[i].length - 1
  BY <1>2, <1>3 DEF Stream!Stored
<1>6. \A i \in 1..N : Stream!Stored(frames[i]) \subseteq 0..Limit - 1
  <2> SUFFICES ASSUME NEW i \in 1..N, NEW x \in Stream!Stored(frames[i])
               PROVE  x \in 0..Limit - 1
    OBVIOUS
  <2> HIDE DEF N
  <2>1. x \in frames[i].offset..frames[i].offset + frames[i].length - 1
    BY <1>5
  <2> QED
    BY <1>2, <1>3, <2>1
<1>7. ends \in SUBSET Nat /\ ends \in SUBSET (1..N)
  BY <1>1
<1>8. \A i \in 1..N : i \in ends <=> frames[i].kind = "other"
  BY <1>1, <1>4
(* The first m frames are the ones parsed, and the ones in front of any other. *)
<1> DEFINE First(m) == /\ m \in 0..N /\ Len(parsed) = m
                       /\ \A i \in 1..m : parsed[i] = frames[i]
                       /\ \A n \in 1..N : n \in 1..m <=> \A i \in 1..n : frames[i].kind # "other"
<1>9. \E m : First(m)
  <2>1. CASE ends = {}
    <3>1. parsed = frames
      BY <2>1 DEF Stream!Parsed
    <3>2. \A n \in 1..N : frames[n].kind # "other"
      BY <1>8, <2>1
    <3>3. \A n \in 1..N : \A i \in 1..n : i \in 1..N
      BY <1>1
    <3> HIDE DEF parsed, ends
    <3>4. First(N)
      BY <1>1, <3>1, <3>2, <3>3
    <3> QED
      BY <3>4
  <2>2. CASE ends # {}
    <3> HIDE DEF ends
    <3>1. end \in ends /\ \A i \in ends : end <= i
      BY <1>7, <2>2, MinOfSet
    <3>2. end \in 1..N /\ end - 1 \in 0..N
      <4> HIDE DEF end, N
      <4>1. end \in 1..N
        BY <1>7, <3>1
      <4> QED
        BY <1>1, <4>1
    <3>3. ~Stream!CutOff(frames[end])
      BY <1>4, <3>2
    <3>4. parsed = before
      BY <2>2, <3>3 DEF Stream!Parsed, ends
    <3> HIDE DEF end, parsed
    <3>5. /\ Len(before) = end - 1
          /\ \A i \in 1..end - 1 : before[i] = frames[i]
      <4>1. \A i \in 1..end - 1 : frames[i] \in AnyFrame
        BY <1>1, <3>2
      <4>2. /\ Len(before) = IF 1 <= end - 1 THEN end - 1 - 1 + 1 ELSE 0
            /\ \A i \in 1..end - 1 - 1 + 1 : before[i] = frames[1 + i - 1]
        BY <3>2, <4>1, SubSeqProperties
      <4>3. end - 1 - 1 + 1 = end - 1 /\ \A i \in 1..end - 1 : 1 + i - 1 = i
        BY <3>2
      <4> QED
        BY <3>2, <4>2, <4>3
    <3>6. \A n \in 1..N : n \in 1..end - 1 <=> \A i \in 1..n : frames[i].kind # "other"
      <4> SUFFICES ASSUME NEW n \in 1..N
                   PROVE  n \in 1..end - 1 <=> \A i \in 1..n : frames[i].kind # "other"
        OBVIOUS
      <4>1. CASE n < end
        <5>1. \A i \in 1..n : i \in 1..N /\ ~ (end <= i)
          BY <1>1, <3>2, <4>1
        <5>2. \A i \in 1..n : frames[i].kind # "other"
          BY <1>8, <3>1, <5>1
        <5> QED
          BY <3>2, <4>1, <5>2
      <4>2. CASE end <= n
        <5>1. end \in 1..n /\ frames[end].kind = "other" /\ n \notin 1..end - 1
          BY <1>8, <3>1, <3>2, <4>2
        <5> QED
          BY <5>1
      <4> QED
        BY <3>2, <4>1, <4>2
    <3>7. First(end - 1)
      BY <3>2, <3>4, <3>5, <3>6
    <3> QED
      BY <3>7
  <2> QED
    BY <2>1, <2>2
<1> HIDE DEF parsed
<1>10. PICK m : First(m)
  BY <1>9
<1>11. \A i \in 1..m : i \in 1..N /\ parsed[i] = frames[i]
  BY <1>1, <1>10
<1>12. \A i \in 1..Len(parsed) : parsed[i].kind # "misread"
  BY <1>1, <1>10, <1>11
<1>13. Stream!Covered(frames)
         = UNION {frames[n].offset..frames[n].offset + frames[n].length - 1 : n \in 1..m}
  <2>1. {n \in DOMAIN frames : \A i \in 1..n : frames[i].kind # "other"} = 1..m
    BY <1>1, <1>10, <1>11
  <2> QED
    BY <2>1 DEF Stream!Covered
<1>14. \A x : x \in Stream!Covered(frames)
                <=> \E i \in 1..m : x \in Stream!Stored(parsed[i])
  <2>1. \A x : x \in Stream!Covered(frames)
                 <=> \E i \in 1..m : x \in frames[i].offset..frames[i].offset + frames[i].length - 1
    <3> DEFINE S == 1..m
               R(n) == frames[n].offset..frames[n].offset + frames[n].length - 1
    <3>1. Stream!Covered(frames) = UNION {R(n) : n \in S}
      BY <1>13
    <3> SUFFICES ASSUME NEW x PROVE x \in Stream!Covered(frames) <=> \E i \in S : x \in R(i)
      OBVIOUS
    <3> HIDE DEF R, S
    <3> QED
      BY <3>1
  <2>2. \A i \in 1..m : Stream!Stored(parsed[i])
                          = frames[i].offset..frames[i].offset + frames[i].length - 1
    BY <1>5, <1>11
  <2> QED
    BY <2>1, <2>2, Zenon
<1>15. \A i \in 1..m : Stream!Stored(parsed[i]) \subseteq 0..Limit - 1
  BY <1>6, <1>11
<1>16. StoredIn(parsed, m) = Stream!Covered(frames)
  BY <1>14, <1>15 DEF StoredIn
<1> QED
  BY <1>10, <1>12, <1>16 DEF parsed

-----------------------------------------------------------------------------
(* The CryptoStream, and what the client has sent to be put into it. *)

StreamInv(s) ==
    /\ Sound(s) /\ s.conn \in Connections \cup {Nobody} /\ s.complete \in BOOLEAN
    /\ s.complete <=> Stream!Readable(s)
    /\ s.conn # Nobody /\ HelloLen[s.conn] <= Limit => Authentic(s)

(* The stream holds what c has sent (in given), until it has the name. *)
HoldsGiven(s, c, bytes) ==
    /\ s.conn # c => bytes = {}
    /\ s.conn = c /\ HelloLen[c] <= Limit =>
         /\ ~s.complete => DOMAIN s.data = bytes
         /\ s.complete => 0..HelloLen[c] - 1 \subseteq bytes

LEMMA BlankIsSound ==
    ASSUME NEW c \in Connections \cup {Nobody}
    PROVE  /\ StreamInv(Stream!Blank(c)) /\ HoldsGiven(Stream!Blank(c), c, {})
           /\ Stream!Blank(c).conn = c /\ ~Stream!Blank(c).complete
<1> DEFINE b == Stream!Blank(c)
<1>1. /\ b = [conn |-> c, data |-> <<>>, end_offset |-> 0, complete |-> FALSE]
      /\ b.conn = c /\ b.data = <<>> /\ b.end_offset = 0 /\ b.complete = FALSE
  BY DEF Stream!Blank
<1> HIDE DEF b
<1>2. DOMAIN b.data = {}
  BY <1>1
<1>3. 0..0 - 1 = {} /\ 0 \in 0..Limit
  BY LimitIsNatural
<1>4. Sound(b)
  BY <1>1, <1>2, <1>3 DEF Sound
<1>5. ~Stream!Readable(b)
  <2>1. c \in Named => HelloLen[c] \in Nat \ {0}
    BY ConnectionsAssumption DEF ConnectionsAssumption
  <2> QED
    BY <1>1, <2>1 DEF Stream!Readable
<1>6. Authentic(b)
  BY <1>2 DEF Authentic
<1>7. StreamInv(b)
  BY <1>1, <1>4, <1>5, <1>6 DEF StreamInv
<1>8. HoldsGiven(b, c, {})
  BY <1>1, <1>2 DEF HoldsGiven
<1> QED
  BY <1>1, <1>7, <1>8 DEF b

LEMMA AddFramesReads ==
    ASSUME NEW c \in Connections, NEW s, StreamInv(s), s.conn = c,
           NEW bytes, HoldsGiven(s, c, bytes),
           NEW frames \in FrameLists[c], NEW misread \in Stream!Tails(frames)
    PROVE  LET after == Stream!AddFrames(s, Stream!Parsed(frames, misread))
           IN  /\ StreamInv(after) /\ after.conn = c
               /\ HoldsGiven(after, c, bytes \cup Stream!Covered(frames))
<1> DEFINE parsed == Stream!Parsed(frames, misread)
           all == Stream!AfterEach(s, parsed)[Len(parsed)]
           after == Stream!AddFrames(s, parsed)
           within == HelloLen[c] <= Limit
<1>1. c # Nobody /\ HelloLen[c] \in Nat /\ Limit \in Nat
  BY ConnectionsAssumption DEF ConnectionsAssumption
<1>2. Sound(s) /\ (within => Authentic(s))
  BY <1>1 DEF StreamInv
<1>3. CASE s.complete
  <2>1. after = s
    BY <1>3 DEF Stream!AddFrames
  <2>2. HoldsGiven(s, c, bytes \cup Stream!Covered(frames))
    BY <1>3 DEF HoldsGiven
  <2> QED
    BY <2>1, <2>2
<1>4. CASE ~s.complete
  <2>1. Adds(s, parsed, Len(parsed), all)
    BY <1>2, ParsedTyped, FramesAdd
  <2>2. after = [all EXCEPT !.complete = Stream!Readable(all)]
    BY <1>4 DEF Stream!AddFrames
  <2>3. within => /\ \A i \in 1..Len(parsed) : parsed[i].kind # "misread"
                  /\ StoredIn(parsed, Len(parsed)) = Stream!Covered(frames)
    BY CoveredIsStored
  <2> HIDE DEF all, after, parsed, within
  <2>4. /\ Sound(all) /\ all.conn = c
        /\ DOMAIN all.data = DOMAIN s.data \cup StoredIn(parsed, Len(parsed))
        /\ within => Authentic(all)
    BY <1>2, <2>1, <2>3 DEF Adds
  <2>5. all = [conn |-> all.conn, data |-> all.data, end_offset |-> all.end_offset,
               complete |-> all.complete]
    BY <2>4 DEF Sound
  <2>6. after = [conn |-> all.conn, data |-> all.data, end_offset |-> all.end_offset,
                 complete |-> Stream!Readable(all)]
    BY <2>2, <2>5
  <2>7. /\ after.conn = c /\ after.data = all.data /\ after.end_offset = all.end_offset
        /\ after.complete = Stream!Readable(all)
    BY <2>4, <2>6
  <2>8. Stream!Readable(after) <=> Stream!Readable(all)
    BY <2>4, <2>7 DEF Stream!Readable
  <2>9. after.complete \in BOOLEAN /\ (after.complete <=> Stream!Readable(after))
    <3>1. Stream!Readable(all) \in BOOLEAN
      BY DEF Stream!Readable
    <3> QED
      BY <2>7, <2>8, <3>1, Zenon
  <2>10. Sound(after)
    BY <2>4, <2>6, <2>7 DEF Sound
  <2>11. within => Authentic(after)
    BY <2>4, <2>7 DEF Authentic
  <2>12. StreamInv(after)
    BY <2>7, <2>9, <2>10, <2>11 DEF StreamInv, within
  <2>13. within => DOMAIN after.data = bytes \cup Stream!Covered(frames)
    BY <1>4, <2>3, <2>4, <2>7 DEF HoldsGiven, within
  <2>14. after.complete => 0..HelloLen[c] - 1 \subseteq DOMAIN after.data
    <3> SUFFICES ASSUME after.complete PROVE 0..HelloLen[c] - 1 \subseteq DOMAIN after.data
      OBVIOUS
    <3>1. after.end_offset >= HelloLen[c]
      BY <2>7, <2>9 DEF Stream!Readable
    <3>2. after.end_offset \in Nat /\ 0..after.end_offset - 1 \subseteq DOMAIN after.data
      BY <1>1, <2>10 DEF Sound
    <3> QED
      BY <1>1, <3>1, <3>2
  <2>15. HoldsGiven(after, c, bytes \cup Stream!Covered(frames))
    BY <2>7, <2>13, <2>14 DEF HoldsGiven, within
  <2> QED
    BY <2>7, <2>12, <2>15 DEF after, parsed
<1> QED
  BY <1>3, <1>4 DEF StreamInv

LEMMA InitialReads ==
    ASSUME NEW c \in Connections, NEW s, StreamInv(s), NEW bytes, HoldsGiven(s, c, bytes),
           NEW frames \in FrameLists[c], NEW misread \in Stream!Tails(frames)
    PROVE  LET after == Stream!AddFrames(Stream!Adopt(s, c), Stream!Parsed(frames, misread))
           IN  /\ StreamInv(after) /\ after.conn = c
               /\ HoldsGiven(after, c, bytes \cup Stream!Covered(frames))
<1> DEFINE before == Stream!Adopt(s, c)
<1>1. StreamInv(before) /\ before.conn = c /\ HoldsGiven(before, c, bytes)
  <2>1. CASE s.conn = c
    BY <2>1 DEF Stream!Adopt
  <2>2. CASE s.conn # c
    <3>1. before = Stream!Blank(c) /\ bytes = {}
      BY <2>2 DEF Stream!Adopt, HoldsGiven
    <3> QED
      BY <3>1, BlankIsSound
  <2> QED
    BY <2>1, <2>2
<1> HIDE DEF before
<1>2. LET after == Stream!AddFrames(before, Stream!Parsed(frames, misread))
      IN  /\ StreamInv(after) /\ after.conn = c
          /\ HoldsGiven(after, c, bytes \cup Stream!Covered(frames))
  BY <1>1, AddFramesReads
<1> QED
  BY <1>2 DEF before

-----------------------------------------------------------------------------
(* The header of a datagram. *)

FieldsTyped(d) ==
    /\ {d.size, d.dcid, d.scid, d.token, d.token_width, d.length, d.length_width} \subseteq Nat
    /\ d.long \in BOOLEAN /\ d.fixed \in BOOLEAN

(* Whatever a header declares, the packet ends where the datagram does at the latest. *)
LEMMA PacketIsInside ==
    ASSUME NEW d, FieldsTyped(d) PROVE Inside(ParseQuic(d), d)
<1>1. {d.size, d.dcid, d.scid, d.token, d.token_width, d.length, d.length_width} \subseteq Nat
  BY DEF FieldsTyped
<1>2. Inside(Invalid, d)
  BY DEF Inside, Invalid
<1>3. \A type : Inside(Whole(d, type), d)
  BY <1>1 DEF Inside, Whole
<1>4. Inside(ParseLong(d), d)
  <2> DEFINE length_at == 7 + d.dcid + d.scid + d.token_width + d.token
             number_at == 6 + d.dcid + 1 + d.scid + d.token_width + d.token + d.length_width
             q(type) == [valid |-> TRUE, type |-> type, number_at |-> number_at,
                         end |-> number_at + d.length]
  <2>1. ASSUME NEW type,
               HoldsVarint(d, 6 + d.dcid + 1 + d.scid + d.token_width + d.token,
                           d.length_width, d.length)
        PROVE  Inside(q(type), d)
    <3>1. number_at <= number_at + d.length /\ number_at + d.length <= d.size
      BY <1>1, <2>1 DEF HoldsVarint
    <3> HIDE DEF number_at
    <3> QED
      BY <3>1 DEF Inside
  <2>2. \/ ParseLong(d) = Invalid
        \/ \E type : ParseLong(d) = Whole(d, type)
        \/ \E type : /\ ParseLong(d) = q(type)
                     /\ HoldsVarint(d, 6 + d.dcid + 1 + d.scid + d.token_width + d.token,
                                    d.length_width, d.length)
    <3> DEFINE type == TypeOf(d.version, d.bits)
               ids == /\ d.dcid <= MaxConnectionId /\ Holds(d, 5, d.dcid)
                      /\ d.scid <= MaxConnectionId /\ Holds(d, 6 + d.dcid, d.scid)
               fits == /\ HoldsVarint(d, 6 + d.dcid + 1 + d.scid, d.token_width, d.token)
                       /\ HoldsVarint(d, 6 + d.dcid + 1 + d.scid + d.token_width + d.token,
                                      d.length_width, d.length)
                       /\ d.length > 0
    <3>1. ParseLong(d) = CASE ~ids \/ type = "unknown" -> Invalid
                           [] type = "retry" -> Whole(d, type)
                           [] fits -> q(type)
                           [] OTHER -> Invalid
      BY DEF ParseLong
    <3>2. fits => HoldsVarint(d, 6 + d.dcid + 1 + d.scid + d.token_width + d.token,
                              d.length_width, d.length)
      OBVIOUS
    <3>3. type = "retry" => type # "unknown"
      OBVIOUS
    <3> HIDE DEF type, ids, fits, q
    <3> QED
      BY <3>1, <3>2, <3>3
  <2> HIDE DEF q
  <2> QED
    BY <1>2, <1>3, <2>1, <2>2
<1> QED
  BY <1>2, <1>3, <1>4 DEF ParseQuic

(* An Initial is made out, whatever the lengths of its fields. *)
LEMMA InitialIsParsed ==
    ASSUME NEW p \in Headers, NEW version \in {"v1", "v2"}
    PROVE  LET d == Datagram(p, version)
               q == ParseQuic(d)
           IN  /\ FieldsTyped(d) /\ Decryptable(q)
               /\ q.number_at = NumberAt(p) /\ q.end = NumberAt(p) + p.body
<1> DEFINE d == Datagram(p, version)
           at == NumberAt(p)
           q == [valid |-> TRUE, type |-> "initial", number_at |-> at, end |-> at + p.body]
<1>1. /\ MaxConnectionId \in Nat
      /\ p.dcid \in 0..MaxConnectionId /\ p.scid \in 0..MaxConnectionId
      /\ p.token \in Nat /\ p.token_width \in Nat /\ p.body \in Nat /\ p.body >= 20
      /\ p.length_width \in Nat /\ p.rest \in Nat
  BY HeaderAssumption, DatagramsAssumption
     DEF HeaderAssumption, DatagramsAssumption, MaxNumberLength, Tag
<1>2. at \in Nat /\ at = 7 + p.dcid + p.scid + p.token_width + p.token + p.length_width
  BY <1>1 DEF NumberAt
<1>3. /\ d.size = at + p.body + p.rest /\ d.long = TRUE /\ d.fixed = TRUE
      /\ d.version = version /\ d.bits = WireBits(version)
      /\ d.dcid = p.dcid /\ d.scid = p.scid
      /\ d.token = p.token /\ d.token_width = p.token_width
      /\ d.length = p.body /\ d.length_width = p.length_width
  BY DEF Datagram
<1> HIDE DEF d, at
<1>4. FieldsTyped(d)
  <2>1. d.size \in Nat
    BY <1>1, <1>2, <1>3
  <2>2. /\ d.dcid \in Nat /\ d.scid \in Nat /\ d.token \in Nat /\ d.token_width \in Nat
        /\ d.length \in Nat /\ d.length_width \in Nat
    BY <1>1, <1>3
  <2>3. d.long \in BOOLEAN /\ d.fixed \in BOOLEAN
    BY <1>3
  <2> QED
    BY <2>1, <2>2, <2>3, Zenon DEF FieldsTyped
<1>5. TypeOf(version, d.bits) = "initial" /\ version # "negotiation"
  <2>1. DOMAIN PacketTypes = {"v1", "v2"}
    BY DEF PacketTypes
  <2>2. CASE version = "v1"
    BY <1>3, <2>1, <2>2 DEF TypeOf, PacketTypes, WireBits
  <2>3. CASE version = "v2"
    BY <1>3, <2>1, <2>3 DEF TypeOf, PacketTypes, WireBits
  <2> QED
    BY <2>2, <2>3
<1>6. ~ (d.size < 7)
  BY <1>1, <1>2, <1>3
<1>7. /\ d.dcid <= MaxConnectionId /\ Holds(d, 5, d.dcid)
      /\ d.scid <= MaxConnectionId /\ Holds(d, 6 + d.dcid, d.scid)
  BY <1>1, <1>2, <1>3 DEF Holds
<1>8. /\ HoldsVarint(d, 6 + d.dcid + 1 + d.scid, d.token_width, d.token)
      /\ HoldsVarint(d, 6 + d.dcid + 1 + d.scid + d.token_width + d.token,
                     d.length_width, d.length)
      /\ d.length > 0
  BY <1>1, <1>2, <1>3 DEF HoldsVarint
<1>9. 6 + d.dcid + 1 + d.scid + d.token_width + d.token + d.length_width = at
  BY <1>1, <1>2, <1>3
<1>10. ParseLong(d) = q
  BY <1>3, <1>5, <1>7, <1>8, <1>9 DEF ParseLong
<1>11. ParseQuic(d) = q
  BY <1>3, <1>5, <1>6, <1>10 DEF ParseQuic
<1>12. Decryptable(q)
  BY <1>1, <1>2 DEF Decryptable, MaxNumberLength, Tag
<1> QED
  BY <1>4, <1>11, <1>12 DEF d, at

-----------------------------------------------------------------------------
(* Packet numbers. *)

LEMMA WindowsGrow ==
    ASSUME NEW length \in 1..4
    PROVE  /\ Window(length) \in Nat \ {0} /\ Half(length) \in Nat
           /\ Half(1) \in Nat \ {0} /\ Half(1) <= Half(length)
           /\ \A n \in Nat : Window(length) >= 2 * (n + 1) => n < Half(length)
<1> DEFINE two == ByteValues * ByteValues
           w == Window(length)
<1>1. ByteValues \in Nat /\ ByteValues >= 2
  BY HeaderAssumption DEF HeaderAssumption
<1>2. \A a \in Nat \ {0} : a * ByteValues \in Nat /\ a * ByteValues >= a
  BY <1>1
<1>3. two \in Nat /\ two >= ByteValues
  BY <1>1, <1>2
<1>4. two * ByteValues \in Nat /\ two * ByteValues >= two
  <2> HIDE DEF two
  <2> QED
    BY <1>1, <1>2, <1>3
<1>5. two * two \in Nat /\ two * two >= two
  <2>1. \A a, b \in Nat \ {0} : a * b \in Nat /\ a * b >= a
    OBVIOUS
  <2> HIDE DEF two
  <2> QED
    BY <1>1, <1>3, <2>1
<1>6. w \in Nat /\ w >= ByteValues /\ Window(1) = ByteValues
  <2>1. Window(length) = <<ByteValues, two, two * ByteValues, two * two>>[length]
    BY DEF Window
  <2>2. Window(1) = ByteValues
    BY DEF Window
  <2> HIDE DEF two
  <2>3. \/ w = ByteValues \/ w = two \/ w = two * ByteValues \/ w = two * two
    BY <2>1
  <2> QED
    BY <1>1, <1>3, <1>4, <1>5, <2>2, <2>3
<1> HIDE DEF w
<1>7. Half(length) = w \div 2 /\ Half(1) = ByteValues \div 2
  BY <1>6 DEF Half, w
<1>8. \A n \in Nat : w >= 2 * (n + 1) => n < w \div 2
  BY <1>6
<1>9. /\ w \div 2 \in Nat /\ ByteValues \div 2 \in Nat \ {0}
      /\ ByteValues \div 2 <= w \div 2
  BY <1>1, <1>6
<1> QED
  BY <1>1, <1>6, <1>7, <1>8, <1>9 DEF w

(* A number the server has acknowledged none before is recovered, unless the flow
   remembers a larger one that is not of the client's.                        *)
LEMMA NumberIsRecovered ==
    ASSUME NEW length \in 1..4, NEW n \in Nat, NEW seen \in Nat,
           Window(length) >= 2 * (n + 1), seen < Half(1) \/ seen <= n
    PROVE  Recovered(Truncated(n, length), length, seen) = n
<1> DEFINE w == Window(length)
           h == Half(length)
<1>1. /\ w \in Nat \ {0} /\ h \in Nat /\ Half(1) \in Nat /\ Half(1) <= h /\ n < h
      /\ h = w \div 2
  BY WindowsGrow DEF Half
<1> HIDE DEF w, h
<1>2. seen < h /\ n < w /\ seen < w
  BY <1>1
<1>3. n % w = n /\ seen % w = seen
  BY <1>1, <1>2
<1>4. seen - (seen % w) + (n % w) = n
  BY <1>3
<1>5. ~ (n + h <= seen) /\ ~ (n > seen + h)
  BY <1>1, <1>2
<1>6. Recovered(Truncated(n, length), length, seen)
        = CASE n + h <= seen /\ n + w < NumberLimit -> n + w
            [] n > seen + h /\ n >= w -> n - w
            [] OTHER -> n
  BY <1>4 DEF Recovered, Truncated, w, h
<1> QED
  BY <1>5, <1>6

-----------------------------------------------------------------------------
(* The inductive invariant *)

(* Nothing is acknowledged before the server's answer. *)
ClientInv ==
    /\ client \in [conn : Connections, next : Nat, acked : Nat \cup {Unacked},
                   answered : BOOLEAN]
    /\ ~client.answered => client.acked = Unacked

(* While the flow's packet number is fit for the client's, every number that is still
   to come can be told from those on the other side of the window.            *)
NumbersInv ==
    /\ largest \in Nat /\ trusted \in BOOLEAN
    /\ trusted => largest < Half(1) \/ largest < client.next

QuicInv ==
    /\ ClientInv /\ NumbersInv
    /\ StreamInv(stream) /\ HoldsGiven(stream, client.conn, given)
    /\ InitialsAreRead

LEMMA ClientTyped ==
    ASSUME ClientInv
    PROVE  /\ client = [conn |-> client.conn, next |-> client.next, acked |-> client.acked,
                        answered |-> client.answered]
           /\ client.conn \in Connections /\ client.next \in Nat
           /\ client.acked \in Int /\ client.answered \in BOOLEAN
           /\ client.acked \in Nat \cup {Unacked}
  BY DEF ClientInv, Unacked

LEMMA ConstantsTyped ==
    /\ Nobody \notin Connections /\ MaxNumber \in Nat /\ MaxSkip \in Nat
    /\ \A c \in Connections : Version[c] \in {"v1", "v2"}
    /\ \A p \in Headers : p.number_length \in 1..4
    /\ \A d \in Noise : FieldsTyped(d)
    /\ 0 < Half(1)
<1>1. \A c \in Connections : Version[c] \in {"v1", "v2"}
  BY InitialsAssumption DEF InitialsAssumption, PacketTypes
<1>2. \A p \in Headers : p.number_length \in 1..4
  BY DatagramsAssumption DEF DatagramsAssumption, MaxNumberLength
<1>3. \A d \in Noise : FieldsTyped(d)
  BY DatagramsAssumption DEF DatagramsAssumption, FieldsTyped
<1>4. 0 < Half(1)
  <2>1. 1 \in 1..4
    OBVIOUS
  <2> QED
    BY <2>1, WindowsGrow
<1> QED
  BY <1>1, <1>2, <1>3, <1>4, ConnectionsAssumption, InitialsAssumption
     DEF ConnectionsAssumption, InitialsAssumption

LEMMA QuicInvInit == Init => QuicInv
<1> SUFFICES ASSUME Init PROVE QuicInv
  OBVIOUS
<1>1. PICK c \in Connections : client = NewClient(c)
  BY DEF Init
<1>2. /\ stream = Stream!Blank(Nobody) /\ largest = 0 /\ trusted = TRUE /\ given = {}
      /\ last = [sent |-> "nothing", taken |-> "nothing", inside |-> TRUE]
  BY DEF Init, Stream!Init
<1>3. client.conn = c /\ client.conn # Nobody /\ ClientInv
  BY <1>1, ConstantsTyped DEF NewClient, ClientInv, Unacked
<1>4. StreamInv(stream) /\ stream.conn = Nobody
  BY <1>2, BlankIsSound
<1>5. HoldsGiven(stream, client.conn, given)
  BY <1>2, <1>3, <1>4 DEF HoldsGiven
<1>6. NumbersInv
  BY <1>2, ConstantsTyped DEF NumbersInv
<1>7. InitialsAreRead
  BY <1>2 DEF InitialsAreRead
<1> QED
  BY <1>3, <1>4, <1>5, <1>6, <1>7 DEF QuicInv

(* An Initial sent before the answer authenticates as long as the flow is trusted. *)
LEMMA DueIsRead ==
    ASSUME ClientInv, NumbersInv, NEW p \in Headers, NEW n \in Nat, n >= client.next,
           LongEnough(p.number_length, n), trusted, ~client.answered
    PROVE  Authenticates(ParseQuic(Datagram(p, Version[client.conn])), p, n)
<1>1. client.conn \in Connections /\ client.next \in Nat /\ client.acked = -1
  BY ClientTyped DEF ClientInv, Unacked
<1>2. p.number_length \in 1..4 /\ Version[client.conn] \in {"v1", "v2"}
  BY <1>1, ConstantsTyped
<1>3. Window(p.number_length) >= 2 * (n + 1)
  <2>1. n - client.acked = n + 1
    BY <1>1
  <2> QED
    BY <2>1 DEF LongEnough
<1>4. largest \in Nat /\ (largest < Half(1) \/ largest <= n)
  <2>1. largest < client.next => largest <= n
    BY <1>1 DEF NumbersInv
  <2> QED
    BY <2>1 DEF NumbersInv
<1>5. Recovered(Truncated(n, p.number_length), p.number_length, largest) = n
  BY <1>2, <1>3, <1>4, NumberIsRecovered
<1>6. LET q == ParseQuic(Datagram(p, Version[client.conn]))
      IN  Decryptable(q) /\ q.number_at = NumberAt(p) /\ q.end = NumberAt(p) + p.body
  BY <1>2, InitialIsParsed
<1> QED
  BY <1>5, <1>6 DEF Authenticates

LEMMA InitialKeeps ==
    ASSUME QuicInv, NEW n \in client.next..client.next + MaxSkip, NEW p \in Headers,
           Initial(n, p)
    PROVE  QuicInv'
<1> DEFINE c == client.conn
           d == Datagram(p, Version[c])
           q == ParseQuic(d)
           read == Authenticates(q, p, n)
           due == trusted /\ ~client.answered
<1>1. /\ LongEnough(p.number_length, n)
      /\ client' = [client EXCEPT !.next = n + 1]
      /\ largest' = IF read /\ n > largest THEN n ELSE largest
      /\ trusted' = (trusted \/ (read /\ n >= largest))
      /\ last' = [sent |-> IF due THEN "initial" ELSE "unreadable",
                  taken |-> IF read THEN "read" ELSE "passed", inside |-> Inside(q, d)]
  BY DEF Initial
<1>0. PICK frames \in FrameLists[c] :
        \E misread \in Stream!Tails(frames) :
          /\ IF read THEN Stream!Initial(c, frames, misread) ELSE UNCHANGED crypto
          /\ given' = IF read \/ due THEN given \cup Stream!Covered(frames) ELSE given
  BY DEF Initial
<1>2. PICK misread \in Stream!Tails(frames) :
        /\ IF read THEN Stream!Initial(c, frames, misread) ELSE UNCHANGED crypto
        /\ given' = IF read \/ due THEN given \cup Stream!Covered(frames) ELSE given
  BY <1>0
<1>3. /\ ClientInv /\ NumbersInv /\ StreamInv(stream) /\ HoldsGiven(stream, c, given)
      /\ client = [conn |-> c, next |-> client.next, acked |-> client.acked,
                   answered |-> client.answered]
      /\ c \in Connections /\ client.next \in Nat /\ client.answered \in BOOLEAN
      /\ client.acked \in Nat \cup {Unacked} /\ n \in Nat /\ n >= client.next
  BY ClientTyped, ConstantsTyped DEF QuicInv
<1>4. due => read
  BY <1>1, <1>3, DueIsRead
<1>5. Inside(q, d)
  <2>1. FieldsTyped(d)
    BY <1>3, ConstantsTyped, InitialIsParsed
  <2> QED
    BY <2>1, PacketIsInside
<1>6. read \in BOOLEAN
  BY DEF Authenticates
<1> HIDE DEF c, d, q, read, due
<1>7. ClientInv' /\ client'.conn = c /\ client'.next = n + 1
  <2>1. client' = [conn |-> c, next |-> n + 1, acked |-> client.acked,
                   answered |-> client.answered]
    BY <1>1, <1>3
  <2>2. ~client.answered => client.acked = Unacked
    BY <1>3 DEF ClientInv
  <2> QED
    BY <1>3, <2>1, <2>2 DEF ClientInv
<1>8. NumbersInv'
  <2>1. largest \in Nat /\ trusted \in BOOLEAN
        /\ (trusted => largest < Half(1) \/ largest < client.next)
    BY <1>3 DEF NumbersInv
  <2>2. largest' \in Nat /\ trusted' \in BOOLEAN
    BY <1>1, <1>3, <1>6, <2>1
  <2>3. CASE read /\ n >= largest
    <3>1. largest' = n
      BY <1>1, <1>3, <2>1, <2>3
    <3> QED
      BY <1>3, <1>7, <2>2, <3>1 DEF NumbersInv
  <2>4. CASE ~ (read /\ n >= largest)
    <3>1. largest' = largest /\ trusted' = trusted
      BY <1>1, <1>3, <2>1, <2>4
    <3>2. largest < client.next => largest < n + 1
      BY <1>3, <2>1
    <3> QED
      BY <1>7, <2>1, <2>2, <3>1, <3>2 DEF NumbersInv
  <2> QED
    BY <2>3, <2>4
<1>9. StreamInv(stream') /\ HoldsGiven(stream', c, given')
  <2>1. CASE read
    <3>1. stream' = Stream!AddFrames(Stream!Adopt(stream, c), Stream!Parsed(frames, misread))
      BY <1>2, <2>1 DEF Stream!Initial
    <3>2. given' = given \cup Stream!Covered(frames)
      BY <1>2, <2>1
    <3>3. frames \in FrameLists[c]
      BY <1>0
    <3>4. misread \in Stream!Tails(frames)
      BY <1>2
    <3> QED
      BY <1>3, <3>1, <3>2, <3>3, <3>4, InitialReads
  <2>2. CASE ~read
    <3>1. stream' = stream /\ given' = given
      BY <1>2, <1>4, <2>2 DEF crypto
    <3> QED
      BY <1>3, <3>1
  <2> QED
    BY <2>1, <2>2
<1>10. InitialsAreRead'
  BY <1>1, <1>4, <1>5 DEF InitialsAreRead
<1> QED
  <2>1. StreamInv(stream)' /\ HoldsGiven(stream, client.conn, given)'
    BY <1>7, <1>9
  <2> QED
    BY <1>7, <1>8, <1>10, <2>1 DEF QuicInv

LEMMA OtherKeeps == ASSUME QuicInv, NEW d \in Noise, Other(d) PROVE QuicInv'
<1>1. /\ last'.sent = "other" /\ last'.taken # "read"
      /\ last'.inside = Inside(ParseQuic(d), d)
      /\ stream' = stream /\ largest' = largest /\ client' = client
      /\ trusted' = trusted /\ given' = given
  BY DEF Other, crypto
<1>2. Inside(ParseQuic(d), d)
  BY ConstantsTyped, PacketIsInside
<1>3. InitialsAreRead'
  BY <1>1, <1>2 DEF InitialsAreRead
<1>4. ClientInv' /\ NumbersInv'
  BY <1>1 DEF QuicInv, ClientInv, NumbersInv
<1>5. StreamInv(stream)' /\ HoldsGiven(stream, client.conn, given)'
  BY <1>1 DEF QuicInv
<1> QED
  BY <1>3, <1>4, <1>5 DEF QuicInv

LEMMA AnsweredKeeps == ASSUME QuicInv, NEW acked \in 0..MaxNumber, Answered(acked) PROVE QuicInv'
<1>1. /\ client = [conn |-> client.conn, next |-> client.next, acked |-> client.acked,
                   answered |-> client.answered]
      /\ client.conn \in Connections /\ client.next \in Nat
  BY ClientTyped DEF QuicInv
<1>2. /\ client' = [client EXCEPT !.answered = TRUE, !.acked = acked]
      /\ stream' = stream /\ largest' = largest /\ trusted' = trusted /\ given' = given
      /\ last' = last
  BY DEF Answered, crypto
<1>3. client' = [conn |-> client.conn, next |-> client.next, acked |-> acked,
                 answered |-> TRUE]
  BY <1>1, <1>2
<1>4. ClientInv' /\ client'.conn = client.conn /\ client'.next = client.next
  <2>1. acked \in Nat
    BY ConstantsTyped
  <2> QED
    BY <1>1, <1>3, <2>1 DEF ClientInv
<1>5. NumbersInv'
  BY <1>2, <1>4 DEF QuicInv, NumbersInv
<1>6. StreamInv(stream)' /\ HoldsGiven(stream, client.conn, given)'
  BY <1>2, <1>4 DEF QuicInv
<1>7. InitialsAreRead'
  BY <1>2 DEF QuicInv, InitialsAreRead
<1> QED
  BY <1>4, <1>5, <1>6, <1>7 DEF QuicInv

LEMMA RetriedKeeps == ASSUME QuicInv, NEW c \in Connections, Retried(c) PROVE QuicInv'
<1>1. /\ client = [conn |-> client.conn, next |-> client.next, acked |-> client.acked,
                   answered |-> client.answered]
      /\ client.next \in Nat /\ client.acked \in Nat \cup {Unacked}
      /\ client.answered \in BOOLEAN
  BY ClientTyped DEF QuicInv
<1>2. /\ client' = [client EXCEPT !.conn = c] /\ c # stream.conn /\ given' = {}
      /\ stream' = stream /\ largest' = largest /\ trusted' = trusted /\ last' = last
  BY DEF Retried, Fresh, crypto
<1>3. client' = [conn |-> c, next |-> client.next, acked |-> client.acked,
                 answered |-> client.answered]
  BY <1>1, <1>2
<1>4. ClientInv' /\ client'.conn = c /\ client'.next = client.next
  <2>1. ~client.answered => client.acked = Unacked
    BY DEF QuicInv, ClientInv
  <2> QED
    BY <1>1, <1>3, <2>1 DEF ClientInv
<1>5. NumbersInv'
  BY <1>2, <1>4 DEF QuicInv, NumbersInv
<1>6. StreamInv(stream)' /\ HoldsGiven(stream, client.conn, given)'
  BY <1>2, <1>4 DEF QuicInv, HoldsGiven
<1>7. InitialsAreRead'
  BY <1>2 DEF QuicInv, InitialsAreRead
<1> QED
  BY <1>4, <1>5, <1>6, <1>7 DEF QuicInv

LEMMA ReconnectedKeeps == ASSUME QuicInv, NEW c \in Connections, Reconnected(c) PROVE QuicInv'
<1>1. /\ client' = [conn |-> c, next |-> 0, acked |-> Unacked, answered |-> FALSE]
      /\ c # stream.conn /\ given' = {} /\ trusted' = (largest < Half(1))
      /\ stream' = stream /\ largest' = largest /\ last' = last
  BY DEF Reconnected, Fresh, NewClient, crypto
<1>2. ClientInv' /\ client'.conn = c
  BY <1>1 DEF ClientInv
<1>3. NumbersInv'
  <2>1. trusted' \in BOOLEAN /\ (trusted' => largest' < Half(1))
    <3>1. trusted' => largest < Half(1)
      BY <1>1, Zenon
    <3>2. (largest < Half(1)) \in BOOLEAN
      OBVIOUS
    <3>3. trusted' \in BOOLEAN
      BY <1>1, <3>2, Zenon
    <3>4. largest' = largest
      BY <1>1, Zenon
    <3> QED
      BY <3>1, <3>3, <3>4, Zenon
  <2>2. largest' \in Nat
    BY <1>1 DEF QuicInv, NumbersInv
  <2> QED
    BY <2>1, <2>2, Zenon DEF NumbersInv
<1>4. StreamInv(stream)' /\ HoldsGiven(stream, client.conn, given)'
  BY <1>1, <1>2 DEF QuicInv, HoldsGiven
<1>5. InitialsAreRead'
  BY <1>1 DEF QuicInv, InitialsAreRead
<1> QED
  BY <1>2, <1>3, <1>4, <1>5 DEF QuicInv

LEMMA EntryLostKeeps == ASSUME QuicInv, EntryLost PROVE QuicInv'
<1>1. /\ stream' = Stream!Blank(Nobody) /\ largest' = 0 /\ trusted' = (client.next = 0)
      /\ given' = {} /\ client' = client /\ last' = last
  BY DEF EntryLost
<1>2. StreamInv(stream') /\ stream'.conn = Nobody
  BY <1>1, BlankIsSound
<1>3. ClientInv' /\ client.conn # Nobody
  BY <1>1, ClientTyped, ConstantsTyped DEF QuicInv, ClientInv
<1>4. NumbersInv'
  <2>1. largest' \in Nat /\ largest' < Half(1)
    BY <1>1, ConstantsTyped
  <2>2. trusted' \in BOOLEAN
    BY <1>1, Zenon
  <2> QED
    BY <2>1, <2>2, Zenon DEF NumbersInv
<1>5. StreamInv(stream)' /\ HoldsGiven(stream, client.conn, given)'
  BY <1>1, <1>2, <1>3 DEF HoldsGiven
<1>6. InitialsAreRead'
  BY <1>1 DEF QuicInv, InitialsAreRead
<1> QED
  BY <1>3, <1>4, <1>5, <1>6 DEF QuicInv

LEMMA QuicInvNext == QuicInv /\ [Next]_vars => QuicInv'
<1> SUFFICES ASSUME QuicInv, [Next]_vars PROVE QuicInv'
  OBVIOUS
<1>1. ASSUME SendInitial PROVE QuicInv'
  BY <1>1, InitialKeeps DEF SendInitial
<1>2. ASSUME NEW d \in Noise, Other(d) PROVE QuicInv'
  BY <1>2, OtherKeeps
<1>3. ASSUME NEW acked \in 0..MaxNumber, Answered(acked) PROVE QuicInv'
  BY <1>3, AnsweredKeeps
<1>4. ASSUME NEW c \in Connections, Retried(c) PROVE QuicInv'
  BY <1>4, RetriedKeeps
<1>5. ASSUME NEW c \in Connections, Reconnected(c) PROVE QuicInv'
  BY <1>5, ReconnectedKeeps
<1>6. ASSUME EntryLost PROVE QuicInv'
  BY <1>6, EntryLostKeeps
<1>7. ASSUME UNCHANGED vars PROVE QuicInv'
  <2>1. /\ stream' = stream /\ largest' = largest /\ client' = client
        /\ trusted' = trusted /\ given' = given /\ last' = last
    BY <1>7 DEF vars, crypto
  <2>2. ClientInv' /\ NumbersInv'
    BY <2>1 DEF QuicInv, ClientInv, NumbersInv
  <2>3. StreamInv(stream)' /\ HoldsGiven(stream, client.conn, given)'
    BY <2>1 DEF QuicInv
  <2>4. InitialsAreRead'
    BY <2>1 DEF QuicInv, InitialsAreRead
  <2> QED
    BY <2>2, <2>3, <2>4 DEF QuicInv
<1> QED
  BY <1>1, <1>2, <1>3, <1>4, <1>5, <1>6, <1>7 DEF Next

-----------------------------------------------------------------------------
(* Theorems *)

(* What the flow remembers of a client's QUIC connections, whatever it sends. *)
THEOREM QuicInvariant == Spec => []QuicInv
<1> QED
  BY QuicInvInit, QuicInvNext, PTL DEF Spec

(* parse_quic and reconstruct_packet_number: every Initial sent before the server's
   answer is read, and nothing else is, for headers and numbers of any length. *)
THEOREM EveryInitialIsRead == Spec => []InitialsAreRead
<1>1. QuicInv => InitialsAreRead
  BY DEF QuicInv
<1> QED
  BY <1>1, QuicInvariant, PTL

(* CryptoStream: what is handed to the ClientHello parser ends at the first missing
   byte, for any frames in any order, of any connections.                     *)
THEOREM PrefixEndsAtTheGap == Spec => []PrefixIsExact
<1>1. QuicInv => PrefixIsExact
  BY DEF QuicInv, StreamInv, Sound, PrefixIsExact, Stream!PrefixIsExact
<1> QED
  BY <1>1, QuicInvariant, PTL

(* adopt_connection and add_frames: no byte of another connection, or of another
   offset, is ever among those of a ClientHello within the limit.             *)
THEOREM BytesAreThePeers == Spec => []HoldsPeerBytes
<1>1. QuicInv => HoldsPeerBytes
  BY DEF QuicInv, StreamInv, Authentic, HoldsPeerBytes, Stream!HoldsPeerBytes
<1> QED
  BY <1>1, QuicInvariant, PTL

(* decide_udp: the name of a ClientHello within the limit is known as soon as every
   byte of it has been sent, however it is cut into frames, and not before.   *)
THEOREM NameWhenWhole == Spec => []ReadWhenWhole
<1>1. QuicInv => ReadWhenWhole
  <2> SUFFICES ASSUME QuicInv, stream.conn = client.conn, client.conn \in Named,
                      HelloLen[client.conn] <= Limit
               PROVE  stream.complete <=> 0..HelloLen[client.conn] - 1 \subseteq given
    BY DEF ReadWhenWhole
  <2> DEFINE length == HelloLen[client.conn]
  <2>1. length \in Nat /\ Limit \in Nat
    BY ClientTyped, ConnectionsAssumption DEF QuicInv, ConnectionsAssumption
  <2>2. /\ ~stream.complete => DOMAIN stream.data = given
        /\ stream.complete => 0..length - 1 \subseteq given
    BY DEF QuicInv, HoldsGiven
  <2>3. /\ stream.end_offset \in Nat /\ stream.end_offset \notin DOMAIN stream.data
        /\ stream.complete <=> stream.end_offset >= length
    BY <2>1 DEF QuicInv, StreamInv, Sound, Stream!Readable
  <2>4. ASSUME 0..length - 1 \subseteq DOMAIN stream.data PROVE stream.end_offset >= length
    <3>1. stream.end_offset \notin 0..length - 1
      BY <2>3, <2>4
    <3> QED
      BY <2>1, <2>3, <3>1
  <2> QED
    BY <2>2, <2>3, <2>4
<1> QED
  BY <1>1, QuicInvariant, PTL
=============================================================================
