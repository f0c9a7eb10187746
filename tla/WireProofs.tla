------------------------------ MODULE WireProofs ------------------------------
(* What holds of Wire for every packet, strategy and setting, for payloads of any
   length cut into any number of pieces, and for every order of delivery.      *)
EXTENDS Wire, FiniteSetTheorems, SequenceTheorems, WellFoundedInduction, TLAPS

(* Induction over the naturals goes through the least counterexample. *)
LEMMA LeastElement ==
    ASSUME NEW T \in SUBSET Nat, T # {} PROVE \E n \in T : \A m \in T : n <= m
<1>1. IsWellFoundedOn(OpToRel(<, Nat), Nat)
  BY NatLessThanWellFounded
<1>2. PICK n \in T : \A m \in T : ~ (<<m, n>> \in OpToRel(<, Nat))
  BY <1>1, WFMin
<1>3. \A m \in T : ~ (m < n)
  BY <1>2 DEF OpToRel
<1> QED
  BY <1>3

-----------------------------------------------------------------------------
(* Parts: one behind the other they are the first `end' bytes of the payload. *)

EndOf(part) == part[1] + part[2]

Tiles(parts, end) ==
    /\ parts \in Seq(Nat \X Nat) /\ Len(parts) \in Nat \ {0}
    /\ \A k \in 1..Len(parts) : parts[k][2] >= 1 /\ EndOf(parts[k]) <= end
    /\ \A k, l \in 1..Len(parts) : k < l => EndOf(parts[k]) <= parts[l][1]
    /\ \A n \in 0..end - 1 :
            \E k \in 1..Len(parts) : parts[k][1] <= n /\ n < EndOf(parts[k])

LEMMA OneTile ==
    ASSUME NEW end \in Nat \ {0} PROVE Tiles(<<<<0, end>>>>, end)
<1> DEFINE parts == <<<<0, end>>>>
<1>1. <<0, end>> \in Nat \X Nat
  OBVIOUS
<1>2. parts \in Seq(Nat \X Nat) /\ Len(parts) = 1 /\ parts[1] = <<0, end>>
  BY <1>1
<1> HIDE DEF parts
<1>3. parts[1][1] = 0 /\ parts[1][2] = end /\ EndOf(parts[1]) = end
  BY <1>2 DEF EndOf
<1>4. \A k \in 1..Len(parts) : k = 1
  BY <1>2
<1>5. \A n \in 0..end - 1 : parts[1][1] <= n /\ n < EndOf(parts[1])
  BY <1>3
<1>6. 1 \in 1..Len(parts)
  BY <1>2
<1>7. Tiles(parts, end)
  BY <1>2, <1>3, <1>4, <1>5, <1>6 DEF Tiles
<1> QED
  BY <1>7 DEF parts

(* A part is added where the others end. *)
LEMMA AnotherTile ==
    ASSUME NEW parts, NEW end \in Nat, Tiles(parts, end), NEW take \in Nat \ {0}
    PROVE  Tiles(Append(parts, <<end, take>>), end + take)
<1> DEFINE N == Len(parts)
           more == Append(parts, <<end, take>>)
<1>1. /\ parts \in Seq(Nat \X Nat) /\ N \in Nat \ {0}
      /\ \A k \in 1..N : parts[k][2] >= 1 /\ EndOf(parts[k]) <= end
      /\ \A k, l \in 1..N : k < l => EndOf(parts[k]) <= parts[l][1]
      /\ \A n \in 0..end - 1 : \E k \in 1..N : parts[k][1] <= n /\ n < EndOf(parts[k])
  BY DEF Tiles
<1>2. <<end, take>> \in Nat \X Nat
  OBVIOUS
<1>3. /\ more \in Seq(Nat \X Nat) /\ Len(more) = N + 1
      /\ \A k \in 1..N : more[k] = parts[k]
      /\ more[N + 1] = <<end, take>>
  BY <1>1, <1>2, AppendProperties
<1> HIDE DEF N, more
<1>4. \A k \in 1..N : parts[k][1] \in Nat /\ parts[k][2] \in Nat /\ EndOf(parts[k]) \in Nat
  <2>1. \A k \in 1..N : parts[k] \in Nat \X Nat
    BY <1>1, ElementOfSeq DEF N
  <2> QED
    BY <2>1 DEF EndOf
<1>5. more[N + 1][1] = end /\ more[N + 1][2] = take /\ EndOf(more[N + 1]) = end + take
  BY <1>3 DEF EndOf
<1>6. \A k \in 1..N + 1 : k \in 1..N \/ k = N + 1
  BY <1>1
<1>7. \A k \in 1..N + 1 : more[k][2] >= 1 /\ EndOf(more[k]) <= end + take
  <2> SUFFICES ASSUME NEW k \in 1..N + 1
               PROVE  more[k][2] >= 1 /\ EndOf(more[k]) <= end + take
    OBVIOUS
  <2>1. CASE k \in 1..N
    <3>1. /\ more[k] = parts[k] /\ parts[k][2] >= 1 /\ EndOf(parts[k]) <= end
          /\ EndOf(parts[k]) \in Nat
      BY <1>1, <1>3, <1>4, <2>1
    <3> QED
      BY <3>1
  <2>2. CASE k = N + 1
    BY <1>5, <2>2
  <2> QED
    BY <1>6, <2>1, <2>2
<1>12. N \in Nat
  BY <1>1
<1>8. \A k, l \in 1..N + 1 : k < l => EndOf(more[k]) <= more[l][1]
  <2> SUFFICES ASSUME NEW k \in 1..N + 1, NEW l \in 1..N + 1, k < l
               PROVE  EndOf(more[k]) <= more[l][1]
    OBVIOUS
  <2>0. k \in 1..N
    BY <1>12
  <2>1. k \in 1..N /\ more[k] = parts[k]
    BY <1>3, <2>0
  <2>2. CASE l \in 1..N
    <3>1. more[l] = parts[l]
      BY <1>3, <2>2
    <3>2. EndOf(parts[k]) <= parts[l][1]
      BY <1>1, <2>1, <2>2
    <3> QED
      BY <2>1, <3>1, <3>2
  <2>3. CASE l = N + 1
    BY <1>1, <1>5, <2>1, <2>3
  <2> QED
    BY <1>6, <2>2, <2>3
<1>9. \A n \in 0..end + take - 1 :
        \E k \in 1..N + 1 : more[k][1] <= n /\ n < EndOf(more[k])
  <2> SUFFICES ASSUME NEW n \in 0..end + take - 1
               PROVE  \E k \in 1..N + 1 : more[k][1] <= n /\ n < EndOf(more[k])
    OBVIOUS
  <2>1. CASE n < end
    <3>1. PICK k \in 1..N : parts[k][1] <= n /\ n < EndOf(parts[k])
      BY <1>1, <2>1
    <3>2. k \in 1..N + 1 /\ more[k] = parts[k]
      BY <1>1, <1>3
    <3> QED
      BY <3>1, <3>2
  <2>2. CASE end <= n
    <3>1. N + 1 \in 1..N + 1 /\ n < end + take
      BY <1>1
    <3> QED
      BY <1>5, <2>2, <3>1
  <2> QED
    BY <2>1, <2>2
<1>10. Len(more) \in Nat \ {0}
  BY <1>1, <1>3
<1>11. Tiles(more, end + take)
  <2>1. more \in Seq(Nat \X Nat) /\ Len(more) = N + 1
    BY <1>3
  <2>2. \A k \in 1..Len(more) : more[k][2] >= 1 /\ EndOf(more[k]) <= end + take
    BY <1>7, <2>1
  <2>3. \A k, l \in 1..Len(more) : k < l => EndOf(more[k]) <= more[l][1]
    BY <1>8, <2>1
  <2>4. \A n \in 0..end + take - 1 :
          \E k \in 1..Len(more) : more[k][1] <= n /\ n < EndOf(more[k])
    BY <1>9, <2>1
  <2> QED
    BY <1>10, <2>1, <2>2, <2>3, <2>4 DEF Tiles
<1> QED
  BY <1>11 DEF more

LEMMA TwoPartsTile ==
    ASSUME NEW length \in Nat, NEW cut \in 1..length - 1
    PROVE  Tiles(TwoParts(length, cut), length) /\ Len(TwoParts(length, cut)) = 2
<1>1. cut \in Nat \ {0} /\ length - cut \in Nat \ {0} /\ cut + (length - cut) = length
  OBVIOUS
<1>2. Tiles(<<<<0, cut>>>>, cut)
  BY <1>1, OneTile
<1>3. Tiles(Append(<<<<0, cut>>>>, <<cut, length - cut>>), cut + (length - cut))
  BY <1>1, <1>2, AnotherTile
<1>4. Append(<<<<0, cut>>>>, <<cut, length - cut>>) = TwoParts(length, cut)
  <2>1. ASSUME NEW S, NEW a \in S, NEW b \in S PROVE Append(<<a>>, b) = <<a, b>>
    <3>1. <<a>> \in Seq(S) /\ <<a, b>> \in Seq(S) /\ Len(<<a>>) = 1 /\ Len(<<a, b>>) = 2
      OBVIOUS
    <3>2. /\ Append(<<a>>, b) \in Seq(S) /\ Len(Append(<<a>>, b)) = 2
          /\ Append(<<a>>, b)[1] = a /\ Append(<<a>>, b)[2] = b
      BY <3>1, AppendProperties
    <3>3. \A i \in 1..2 : Append(<<a>>, b)[i] = <<a, b>>[i]
      BY <3>2
    <3> QED
      BY <3>1, <3>2, <3>3, SeqEqual
  <2>2. <<0, cut>> \in Nat \X Nat /\ <<cut, length - cut>> \in Nat \X Nat
    BY <1>1
  <2> QED
    BY <2>1, <2>2 DEF TwoParts
<1>5. Len(TwoParts(length, cut)) = 2
  BY DEF TwoParts
<1> QED
  BY <1>1, <1>3, <1>4, <1>5

(* The rest is shared between the slots that are left. *)
Share(bytes, slots) == (bytes + slots - 1) \div slots

LEMMA ShareFits ==
    ASSUME NEW bytes \in Nat \ {0}, NEW slots \in Nat \ {0}
    PROVE  /\ Share(bytes, slots) \in 1..bytes
           /\ slots = 1 => Share(bytes, slots) = bytes
<1> DEFINE sum == bytes + slots - 1
           q == sum \div slots
<1>1. sum \in Nat /\ sum >= slots /\ q \in Nat
  OBVIOUS
<1>2. slots * q <= sum /\ sum < slots * q + slots
  OBVIOUS
<1> HIDE DEF q
<1>3. q >= 1
  <2> SUFFICES ASSUME q = 0 PROVE FALSE
    BY <1>1
  <2>1. slots * q = 0
    OBVIOUS
  <2> QED
    BY <1>1, <1>2, <2>1
<1>4. q <= bytes
  <2> SUFFICES ASSUME q >= bytes + 1 PROVE FALSE
    BY <1>1
  <2>1. slots * q >= slots * (bytes + 1)
    <3> DEFINE d == q - (bytes + 1)
    <3>1. d \in Nat /\ q = (bytes + 1) + d
      BY <1>1
    <3> HIDE DEF d
    <3>2. slots * ((bytes + 1) + d) = slots * (bytes + 1) + slots * d
      BY <3>1
    <3>3. slots * d \in Nat /\ slots * (bytes + 1) \in Nat
      BY <3>1
    <3> QED
      BY <3>1, <3>2, <3>3
  <2>2. slots * (bytes + 1) = slots * bytes + slots
    OBVIOUS
  <2>3. slots * bytes >= bytes
    OBVIOUS
  <2> DEFINE large == slots * q
             small == slots * bytes
  <2>4. large \in Int /\ small \in Int
    BY <1>1
  <2>5. large >= small + slots /\ small >= bytes /\ large <= sum
    BY <1>2, <2>1, <2>2, <2>3
  <2> HIDE DEF large, small
  <2> QED
    BY <2>4, <2>5
<1>5. slots = 1 => q = bytes
  BY DEF q
<1> QED
  BY <1>1, <1>3, <1>4, <1>5 DEF Share, q

(* The parts once there are i + 1 of them, or no more bytes. *)
OneMore(length, count, i, before) ==
    LET offset == before[Len(before)][1] + before[Len(before)][2]
    IN  IF offset < length THEN Append(before, <<offset, Share(length - offset, count - i)>>)
        ELSE before

IsRest(length, first, count, m, g) ==
    g = [i \in 0..m |-> IF i = 0 THEN <<<<0, first>>>> ELSE OneMore(length, count, i, g[i - 1])]

LEMMA RestExists ==
    ASSUME NEW length, NEW first, NEW count, NEW m \in Nat
    PROVE  \E g : IsRest(length, first, count, m, g)
<1> DEFINE T == {n \in Nat : ~ \E g : IsRest(length, first, count, n, g)}
<1> SUFFICES ASSUME T # {} PROVE FALSE
  OBVIOUS
<1>1. PICK n \in T : \A i \in T : n <= i
  BY LeastElement
<1>2. n \in Nat /\ \A i \in Nat : i < n => \E g : IsRest(length, first, count, i, g)
  BY <1>1
<1>3. ~ \E g : IsRest(length, first, count, n, g)
  BY <1>1
<1> HIDE DEF T
<1>4. n # 0
  <2> SUFFICES ASSUME n = 0 PROVE FALSE
    OBVIOUS
  <2> DEFINE g == [i \in 0..0 |-> <<<<0, first>>>>]
  <2>1. \A i \in 0..0 :
          <<<<0, first>>>> = IF i = 0 THEN <<<<0, first>>>>
                             ELSE OneMore(length, count, i, g[i - 1])
    OBVIOUS
  <2> HIDE DEF g
  <2>2. [i \in 0..0 |-> <<<<0, first>>>>]
          = [i \in 0..0 |-> IF i = 0 THEN <<<<0, first>>>>
                            ELSE OneMore(length, count, i, g[i - 1])]
    BY <2>1
  <2>3. IsRest(length, first, count, 0, g)
    BY <2>2 DEF g, IsRest
  <2> QED
    BY <1>3, <2>3
<1>5. PICK g : IsRest(length, first, count, n - 1, g)
  BY <1>2, <1>4
<1> DEFINE h == [i \in 0..n |-> IF i < n THEN g[i] ELSE OneMore(length, count, n, g[n - 1])]
<1>6. \A i \in 0..n : h[i] = IF i = 0 THEN <<<<0, first>>>> ELSE OneMore(length, count, i, h[i - 1])
  <2> SUFFICES ASSUME NEW i \in 0..n
               PROVE  h[i] = IF i = 0 THEN <<<<0, first>>>>
                             ELSE OneMore(length, count, i, h[i - 1])
    OBVIOUS
  <2>1. CASE i < n
    <3>1. /\ i \in 0..n - 1 /\ h[i] = g[i]
          /\ i # 0 => i - 1 \in 0..n /\ i - 1 < n /\ h[i - 1] = g[i - 1]
      BY <1>2, <2>1
    <3>2. g[i] = IF i = 0 THEN <<<<0, first>>>> ELSE OneMore(length, count, i, g[i - 1])
      BY <1>5, <3>1 DEF IsRest
    <3> QED
      BY <3>1, <3>2
  <2>2. CASE i = n
    <3>1. h[i] = OneMore(length, count, n, g[n - 1]) /\ h[n - 1] = g[n - 1]
      BY <1>2, <1>4, <2>2
    <3> QED
      BY <1>4, <2>2, <3>1
  <2> QED
    BY <1>2, <2>1, <2>2
<1>7. h = [i \in 0..n |-> h[i]]
  OBVIOUS
<1> HIDE DEF h
<1>8. IsRest(length, first, count, n, h)
  BY <1>6, <1>7 DEF IsRest
<1> QED
  BY <1>3, <1>8

LEMMA ManyPartsTile ==
    ASSUME NEW length \in Nat, length >= 2, NEW cut \in Int, NEW segments \in Int
    PROVE  /\ Tiles(ManyParts(length, cut, segments), length)
           /\ ManyParts(length, cut, segments)[1] = <<0, Most(1, Least(cut, length - 1))>>
<1> DEFINE count == Least(Most(2, Least(segments, 16)), length)
           first == Most(1, Least(cut, length - 1))
           g == CHOOSE f : IsRest(length, first, count, count - 1, f)
           Cut(i, end) == /\ Tiles(g[i], end) /\ EndOf(g[i][Len(g[i])]) = end
                          /\ g[i][1] = <<0, first>>
           T == {i \in 0..count - 1 : ~ \E end \in 1..length :
                                          Cut(i, end) /\ (i = count - 1 => end = length)}
<1>1. count \in Nat /\ count >= 2 /\ first \in 1..length - 1
  BY DEF Least, Most
<1> HIDE DEF count, first
<1>2. \E f : IsRest(length, first, count, count - 1, f)
  BY <1>1, RestExists
<1>3. IsRest(length, first, count, count - 1, g)
  BY <1>2
<1>4. ManyParts(length, cut, segments) = g[count - 1]
  BY DEF ManyParts, IsRest, OneMore, Share, count, first
<1> HIDE DEF g
<1>5. g = [i \in 0..count - 1 |-> IF i = 0 THEN <<<<0, first>>>>
                                  ELSE OneMore(length, count, i, g[i - 1])]
  BY <1>3 DEF IsRest
<1>6. 0 \in 0..count - 1 /\ g[0] = <<<<0, first>>>>
  BY <1>1, <1>5
<1>7. \A i \in 1..count - 1 : g[i] = OneMore(length, count, i, g[i - 1])
  <2> SUFFICES ASSUME NEW i \in 1..count - 1 PROVE g[i] = OneMore(length, count, i, g[i - 1])
    OBVIOUS
  <2>1. i \in 0..count - 1 /\ i # 0
    BY <1>1
  <2> QED
    BY <1>5, <2>1
<1> SUFFICES ASSUME T # {} PROVE FALSE
  <2>1. count - 1 \in 0..count - 1
    BY <1>1
  <2> QED
    BY <1>4, <2>1 DEF first
<1>8. T \in SUBSET Nat
  BY <1>1
<1>9. PICK n \in T : \A i \in T : n <= i
  BY <1>8, LeastElement
<1>10. n \in 0..count - 1 /\ ~ \E end \in 1..length : Cut(n, end) /\ (n = count - 1 => end = length)
  BY <1>9
<1>11. n # 0
  <2> SUFFICES ASSUME n = 0 PROVE FALSE
    OBVIOUS
  <2>1. Tiles(g[0], first)
    BY <1>1, <1>6, OneTile
  <2>2. EndOf(g[0][Len(g[0])]) = first
    BY <1>1, <1>6 DEF EndOf
  <2>3. first \in 1..length /\ n # count - 1
    BY <1>1
  <2>4. g[0][1] = <<0, first>>
    BY <1>6
  <2> QED
    BY <1>10, <2>1, <2>2, <2>3, <2>4
<1>12. n \in 1..count - 1 /\ n - 1 \in 0..count - 1 /\ n - 1 < n /\ n - 1 # count - 1
  BY <1>1, <1>10, <1>11
<1>13. PICK end \in 1..length : Cut(n - 1, end)
  <2>1. n - 1 \notin T
    BY <1>9, <1>12
  <2> QED
    BY <1>12, <2>1
<1> HIDE DEF T
<1> DEFINE parts == g[n - 1]
           take == Share(length - end, count - n)
<1>14. /\ Tiles(parts, end) /\ EndOf(parts[Len(parts)]) = end
       /\ parts[Len(parts)][1] + parts[Len(parts)][2] = end
       /\ parts[1] = <<0, first>>
  BY <1>13 DEF EndOf
<1>15. g[n] = IF end < length THEN Append(parts, <<end, take>>) ELSE parts
  BY <1>7, <1>12, <1>14 DEF OneMore
<1> HIDE DEF parts, take
<1>16. CASE end < length
  <2>1. length - end \in Nat \ {0} /\ count - n \in Nat \ {0}
    BY <1>1, <1>12, <1>16
  <2>2. take \in 1..length - end /\ (count - n = 1 => take = length - end)
    BY <2>1, ShareFits DEF take
  <2>3. end \in Nat /\ take \in Nat \ {0} /\ end + take \in 1..length
    BY <1>16, <2>2
  <2>4. n = count - 1 => end + take = length
    BY <1>1, <2>2, <2>3
  <2>5. g[n] = Append(parts, <<end, take>>)
    BY <1>15, <1>16
  <2>6. Tiles(g[n], end + take)
    BY <1>14, <2>3, <2>5, AnotherTile
  <2>7. EndOf(g[n][Len(g[n])]) = end + take
    <3>1. parts \in Seq(Nat \X Nat) /\ <<end, take>> \in Nat \X Nat
      BY <1>14, <2>3 DEF Tiles
    <3>2. g[n][Len(g[n])] = <<end, take>>
      BY <2>5, <3>1, AppendProperties
    <3> QED
      BY <3>2 DEF EndOf
  <2>8. g[n][1] = <<0, first>>
    <3>1. parts \in Seq(Nat \X Nat) /\ <<end, take>> \in Nat \X Nat /\ 1 \in 1..Len(parts)
      BY <1>14, <2>3 DEF Tiles
    <3> QED
      BY <1>14, <2>5, <3>1, AppendProperties
  <2> QED
    BY <1>10, <2>3, <2>4, <2>6, <2>7, <2>8
<1>17. CASE end = length
  BY <1>10, <1>13, <1>15, <1>17 DEF parts
<1> QED
  BY <1>16, <1>17

(* No part crosses the cut: the first ends there. *)
Separates(parts, cut) ==
    \A k \in 1..Len(parts) : EndOf(parts[k]) <= cut \/ cut <= parts[k][1]

LEMMA FirstSeparates ==
    ASSUME NEW parts, NEW length, Tiles(parts, length), NEW cut \in Nat, parts[1] = <<0, cut>>
    PROVE  Separates(parts, cut)
<1> SUFFICES ASSUME NEW k \in 1..Len(parts)
             PROVE  EndOf(parts[k]) <= cut \/ cut <= parts[k][1]
  BY DEF Separates
<1>1. EndOf(parts[1]) = cut
  BY DEF EndOf
<1>2. CASE k = 1
  BY <1>1, <1>2
<1>3. CASE k # 1
  <2>1. 1 \in 1..Len(parts) /\ 1 < k
    BY <1>3 DEF Tiles
  <2> QED
    BY <1>1, <2>1 DEF Tiles
<1> QED
  BY <1>2, <1>3

LEMMA PartsTile ==
    ASSUME NEW j, j.length \in Nat \ {0}, j.split \in Int, j.segments \in Nat,
           j.strategy \in Splitting \cup WholeStrategies
    PROVE  /\ Parts(j) = <<>> \/ Tiles(Parts(j), j.length)
           /\ j.strategy \in WholeStrategies => Parts(j) = <<<<0, j.length>>>>
           /\ j.strategy \in Splitting /\ SplitOffset(j) \in 1..j.length - 1
                => Tiles(Parts(j), j.length) /\ Separates(Parts(j), SplitOffset(j))
<1> DEFINE cut == SplitOffset(j)
<1>1. cut \in Int
  BY DEF SplitOffset, Least
<1> HIDE DEF cut
<1>2. CASE j.strategy \in TwoPartStrategies
  <2>1. /\ Parts(j) = IF cut \in 1..j.length - 1 THEN TwoParts(j.length, cut) ELSE <<>>
        /\ j.strategy \notin WholeStrategies
    BY <1>2 DEF Parts, cut, TwoPartStrategies, ManyPartStrategies, WholeStrategies
  <2>2. CASE cut \in 1..j.length - 1
    <3>1. Tiles(TwoParts(j.length, cut), j.length)
      BY <2>2, TwoPartsTile
    <3>2. TwoParts(j.length, cut)[1] = <<0, cut>> /\ cut \in Nat
      BY <2>2 DEF TwoParts
    <3>3. Separates(TwoParts(j.length, cut), cut)
      BY <3>1, <3>2, FirstSeparates
    <3> QED
      BY <2>1, <2>2, <3>1, <3>3 DEF cut
  <2> QED
    BY <2>1, <2>2 DEF cut
<1>3. CASE j.strategy \in ManyPartStrategies
  <2>1. /\ Parts(j) = IF j.length >= 2 THEN ManyParts(j.length, cut, j.segments) ELSE <<>>
        /\ j.strategy \notin WholeStrategies
    BY <1>3 DEF Parts, cut, TwoPartStrategies, ManyPartStrategies, WholeStrategies
  <2>2. CASE j.length >= 2
    <3>1. j.length \in Nat /\ j.segments \in Int
      OBVIOUS
    <3> DEFINE parts == ManyParts(j.length, cut, j.segments)
    <3>2. /\ Tiles(parts, j.length)
          /\ parts[1] = <<0, Most(1, Least(cut, j.length - 1))>>
      BY <1>1, <2>2, <3>1, ManyPartsTile
    <3> HIDE DEF parts
    <3>3. cut \in 1..j.length - 1 => Separates(parts, cut)
      <4> SUFFICES ASSUME cut \in 1..j.length - 1 PROVE Separates(parts, cut)
        OBVIOUS
      <4>1. Most(1, Least(cut, j.length - 1)) = cut /\ cut \in Nat
        BY DEF Most, Least
      <4> QED
        BY <3>2, <4>1, FirstSeparates
    <3> QED
      BY <2>1, <2>2, <3>2, <3>3 DEF cut, parts
  <2>3. CASE j.length < 2
    <3>1. ~(cut \in 1..j.length - 1)
      BY <1>1, <2>3
    <3> QED
      BY <2>1, <2>3, <3>1 DEF cut
  <2> QED
    BY <2>2, <2>3
<1>4. CASE j.strategy \in WholeStrategies
  <2>1. Parts(j) = <<<<0, j.length>>>>
    BY <1>4 DEF Parts, TwoPartStrategies, ManyPartStrategies, WholeStrategies
  <2>2. j.strategy \notin Splitting
    BY <1>4 DEF Splitting, TwoPartStrategies, ManyPartStrategies, WholeStrategies
  <2> QED
    BY <2>1, <2>2, OneTile
<1> QED
  BY <1>2, <1>3, <1>4 DEF Splitting

-----------------------------------------------------------------------------
(* Frames: every edit keeps the headers of the job's shape. *)

Kept(f, j) ==
    /\ DOMAIN f = {"version", "ihl", "exts", "fragment", "doff", "proto", "size", "declared",
                   "udp_length", "ttl", "port", "sequence", "flags", "body", "header_sum", "sum"}
    /\ f.version = j.shape.version /\ f.ihl = j.shape.ihl /\ f.exts = j.shape.exts
    /\ f.fragment = j.shape.fragment /\ f.doff = j.shape.doff /\ f.proto = j.protocol

Begin(j) == IF j.shape.version = 4 THEN j.shape.ihl ELSE ExtensionsEnd(j.shape.exts)
Payload(j) == Begin(j) + (IF j.protocol = "tcp" THEN j.shape.doff ELSE UdpHeader)

LEMMA KeptFields ==
    ASSUME NEW f, NEW j, Kept(f, j)
    PROVE  /\ TransportAt(f) = Begin(j) /\ PayloadAt(f) = Payload(j)
           /\ f.proto = j.protocol /\ f.exts = j.shape.exts
<1>1. /\ f.version = j.shape.version /\ f.ihl = j.shape.ihl /\ f.exts = j.shape.exts
      /\ f.proto = j.protocol /\ f.doff = j.shape.doff
  BY DEF Kept
<1> QED
  BY <1>1 DEF TransportAt, PayloadAt, Begin, Payload

LEMMA CapturedKept ==
    ASSUME NEW j
    PROVE  LET f == Captured(j)
           IN  /\ Kept(f, j)
               /\ f.size = Payload(j) + j.length
               /\ f.declared = f.size + j.shape.missing
               /\ f.udp_length = UdpHeader + j.length + j.shape.udp_missing
               /\ f.port = "client" /\ f.sequence = j.sequence /\ f.flags = j.flags
               /\ f.body = Body(FALSE, 0, j.length)
               /\ f.header_sum = HeaderContents(f) /\ f.sum = Contents(f)
<1> DEFINE plain == [version |-> j.shape.version, ihl |-> j.shape.ihl, exts |-> j.shape.exts,
                  fragment |-> j.shape.fragment, doff |-> j.shape.doff,
                  proto |-> j.protocol, size |-> 0, declared |-> 0, udp_length |-> 0,
                  ttl |-> OriginalTtl, port |-> "client", sequence |-> j.sequence,
                  flags |-> j.flags, body |-> Body(FALSE, 0, j.length),
                  header_sum |-> Inverted, sum |-> Inverted]
           size == PayloadAt(plain) + j.length
           sized == [plain EXCEPT !.size = size, !.declared = size + j.shape.missing,
                               !.udp_length = UdpHeader + j.length + j.shape.udp_missing]
           f == [sized EXCEPT !.header_sum = HeaderContents(sized), !.sum = Contents(sized)]
<1>1. Captured(j) = f
  BY DEF Captured
<1>2. Kept(plain, j)
  BY DEF Kept
<1>3. size = Payload(j) + j.length
  BY <1>2, KeptFields
<1> HIDE DEF size
<1>4. sized = [plain EXCEPT !.size = size, !.declared = size + j.shape.missing,
                               !.udp_length = UdpHeader + j.length + j.shape.udp_missing]
  OBVIOUS
<1>5. f = [sized EXCEPT !.header_sum = HeaderContents(sized), !.sum = Contents(sized)]
  OBVIOUS
<1> DEFINE As(g, h, s) ==
             /\ Kept(g, j) /\ g.size = size /\ g.declared = size + j.shape.missing
             /\ g.udp_length = UdpHeader + j.length + j.shape.udp_missing
             /\ g.ttl = OriginalTtl /\ g.port = "client" /\ g.sequence = j.sequence
             /\ g.flags = j.flags /\ g.body = Body(FALSE, 0, j.length)
             /\ g.header_sum = h /\ g.sum = s
<1>10. /\ plain.ttl = OriginalTtl /\ plain.port = "client" /\ plain.sequence = j.sequence
       /\ plain.flags = j.flags /\ plain.body = Body(FALSE, 0, j.length)
       /\ plain.header_sum = Inverted /\ plain.sum = Inverted
  OBVIOUS
<1> HIDE DEF f, sized, plain
<1>11. As(sized, Inverted, Inverted)
  BY <1>2, <1>4, <1>10 DEF Kept
<1>12. As(f, HeaderContents(sized), Contents(sized))
  BY <1>5, <1>11 DEF Kept
<1>6. Kept(f, j) /\ Kept(sized, j)
  BY <1>11, <1>12
<1>7. HeaderContents(f) = HeaderContents(sized)
  BY <1>11, <1>12 DEF HeaderContents
<1>8. Contents(f) = Contents(sized)
  <2>1. TransportAt(f) = Begin(j) /\ TransportAt(sized) = Begin(j)
    BY <1>6, KeptFields
  <2> QED
    BY <1>11, <1>12, <2>1 DEF Contents
<1> DEFINE goal == /\ Kept(f, j)
               /\ f.size = Payload(j) + j.length
               /\ f.declared = f.size + j.shape.missing
               /\ f.udp_length = UdpHeader + j.length + j.shape.udp_missing
               /\ f.port = "client" /\ f.sequence = j.sequence /\ f.flags = j.flags
               /\ f.body = Body(FALSE, 0, j.length)
               /\ f.header_sum = HeaderContents(f) /\ f.sum = Contents(f)
<1>9. goal
  BY <1>3, <1>12, <1>7, <1>8
<1> QED
  BY <1>1, <1>9

(* With another body: the IP length is the size. *)
LEMMA WithBodyKept ==
    ASSUME NEW j, NEW f, Kept(f, j), NEW body
    PROVE  LET g == WithBody(f, body)
           IN  /\ Kept(g, j) /\ g.size = Payload(j) + body.size /\ g.declared = g.size
               /\ g.body = body /\ g.port = f.port /\ g.sequence = f.sequence
               /\ g.flags = f.flags
<1> DEFINE size == Payload(j) + body.size
           edited == [f EXCEPT !.size = size, !.body = body]
           lengths == IF edited.proto = "udp" /\ edited.exts = <<>>
                      THEN edited.size - TransportAt(edited) ELSE edited.udp_length
           g == [edited EXCEPT !.declared = edited.size, !.udp_length = lengths]
<1>1. PayloadAt(f) = Payload(j)
  BY KeptFields
<1>2. WithBody(f, body) = g
  BY <1>1 DEF WithBody, SetIpLengths
<1>5. edited = [f EXCEPT !.size = size, !.body = body]
  OBVIOUS
<1>6. g = [edited EXCEPT !.declared = edited.size, !.udp_length = lengths]
  OBVIOUS
<1> HIDE DEF size, edited, lengths, g
<1>3. Kept(edited, j) /\ edited.size = size /\ edited.body = body
      /\ edited.port = f.port /\ edited.sequence = f.sequence /\ edited.flags = f.flags
  BY <1>5 DEF Kept
<1>4. Kept(g, j) /\ g.size = size /\ g.declared = size /\ g.body = body
      /\ g.port = f.port /\ g.sequence = f.sequence /\ g.flags = f.flags
  BY <1>3, <1>6 DEF Kept
<1> QED
  BY <1>2, <1>4 DEF size

(* The repair makes the checksums right. *)
LEMMA FixupKept ==
    ASSUME NEW j, NEW f, Kept(f, j)
    PROVE  LET g == Fixup(f)
           IN  /\ Kept(g, j) /\ g.size = f.size /\ g.declared = f.declared
               /\ g.body = f.body /\ g.port = f.port /\ g.sequence = f.sequence
               /\ g.flags = f.flags
               /\ j.protocol = "udp" => g.udp_length = f.declared - Begin(j)
               /\ g.header_sum = HeaderContents(g) /\ g.sum = Contents(g)
<1> DEFINE length == IF f.proto = "udp" THEN f.declared - TransportAt(f) ELSE f.udp_length
           lengths == [f EXCEPT !.udp_length = length]
           header == [lengths EXCEPT !.header_sum = HeaderContents(lengths)]
           g == [header EXCEPT !.sum = Contents(header)]
           Same(h) == /\ Kept(h, j) /\ h.size = f.size /\ h.declared = f.declared
                      /\ h.ttl = f.ttl /\ h.body = f.body /\ h.port = f.port
                      /\ h.sequence = f.sequence /\ h.flags = f.flags
                      /\ h.udp_length = length
<1>1. Fixup(f) = g
  BY DEF Fixup, HeaderFixed
<1>2. TransportAt(f) = Begin(j) /\ f.proto = j.protocol
  BY KeptFields
<1>3. j.protocol = "udp" => length = f.declared - Begin(j)
  BY <1>2
<1> HIDE DEF length
<1>4. Same(lengths)
  BY DEF Kept
<1> HIDE DEF lengths
<1>5. Same(header) /\ header.header_sum = HeaderContents(lengths)
  BY <1>4 DEF Kept
<1> HIDE DEF header
<1>6. Same(g) /\ g.header_sum = header.header_sum /\ g.sum = Contents(header)
  BY <1>5 DEF Kept
<1> HIDE DEF g
<1>7. g.header_sum = HeaderContents(g)
  BY <1>4, <1>5, <1>6 DEF HeaderContents
<1>8. g.sum = Contents(g)
  <2>1. TransportAt(g) = Begin(j) /\ TransportAt(header) = Begin(j)
    BY <1>5, <1>6, KeptFields
  <2> QED
    BY <1>5, <1>6, <2>1 DEF Contents
<1> QED
  BY <1>1, <1>3, <1>6, <1>7, <1>8

(* Another TTL changes nothing the transport checksum covers. *)
LEMMA LimitKept ==
    ASSUME NEW j, NEW f, Kept(f, j), NEW ttl
    PROVE  LET g == SetHopLimit(f, ttl)
           IN  /\ Kept(g, j) /\ g.size = f.size /\ g.declared = f.declared
               /\ g.body = f.body /\ g.port = f.port /\ g.sequence = f.sequence
               /\ g.flags = f.flags /\ g.udp_length = f.udp_length
               /\ g.sum = f.sum /\ Contents(g) = Contents(f)
               /\ g.header_sum = HeaderContents(g)
<1> DEFINE limited == [f EXCEPT !.ttl = ttl]
           g == [limited EXCEPT !.header_sum = HeaderContents(limited)]
           Same(h) == /\ Kept(h, j) /\ h.size = f.size /\ h.declared = f.declared
                      /\ h.body = f.body /\ h.port = f.port /\ h.sequence = f.sequence
                      /\ h.flags = f.flags /\ h.udp_length = f.udp_length
                      /\ h.sum = f.sum /\ h.ttl = ttl
<1>1. SetHopLimit(f, ttl) = g
  BY DEF SetHopLimit, HeaderFixed
<1>2. Same(limited)
  BY DEF Kept
<1> HIDE DEF limited
<1>3. Same(g) /\ g.header_sum = HeaderContents(limited)
  BY <1>2 DEF Kept
<1> HIDE DEF g
<1>4. g.header_sum = HeaderContents(g)
  BY <1>2, <1>3 DEF HeaderContents
<1>5. Contents(g) = Contents(f)
  <2>1. TransportAt(g) = Begin(j) /\ TransportAt(f) = Begin(j)
    BY <1>3, KeptFields
  <2> QED
    BY <1>3, <2>1 DEF Contents
<1> QED
  BY <1>1, <1>3, <1>4, <1>5

LEMMA SegmentKept ==
    ASSUME NEW j, NEW f, Kept(f, j), NEW body, NEW sequence, NEW flags
    PROVE  LET g == MakeSegment(f, body, sequence, flags)
           IN  /\ Kept(g, j) /\ g.size = Payload(j) + body.size /\ g.declared = g.size
               /\ g.body = body /\ g.sequence = sequence /\ g.flags = flags
               /\ g.header_sum = HeaderContents(g) /\ g.sum = Contents(g)
<1> DEFINE with == WithBody(f, body)
           edited == [with EXCEPT !.sequence = sequence, !.flags = flags]
           g == Fixup(edited)
<1>1. MakeSegment(f, body, sequence, flags) = g
  BY DEF MakeSegment
<1>2. /\ Kept(with, j) /\ with.size = Payload(j) + body.size
      /\ with.declared = with.size /\ with.body = body
  BY WithBodyKept
<1> HIDE DEF with
<1>3. /\ Kept(edited, j) /\ edited.size = with.size /\ edited.declared = with.size
      /\ edited.body = body /\ edited.sequence = sequence /\ edited.flags = flags
  BY <1>2 DEF Kept
<1> HIDE DEF edited
<1>4. /\ Kept(g, j) /\ g.size = edited.size /\ g.declared = edited.declared
      /\ g.body = edited.body /\ g.sequence = edited.sequence /\ g.flags = edited.flags
      /\ g.header_sum = HeaderContents(g) /\ g.sum = Contents(g)
  BY <1>3, FixupKept
<1> HIDE DEF g
<1> QED
  BY <1>1, <1>2, <1>3, <1>4

-----------------------------------------------------------------------------
(* What goes out for a TCP packet *)

TypedTcp(j) ==
    /\ j.protocol = "tcp" /\ j.length \in Nat \ {0} /\ j.sequence \in SeqNumber
    /\ j.strategy \in Splitting \cup WholeStrategies /\ j.split \in Int
    /\ j.segments \in Nat /\ j.repeats \in Nat /\ j.noise \in Nat
    /\ Payload(j) \in Nat /\ (j.shape.whole => j.shape.missing = 0)
    /\ j.length <= Window /\ 2 * j.length < SeqSpace /\ Window + j.length <= SeqSpace
    /\ Window + j.length < BadSequence /\ 2 * (BadSequence + j.noise) <= SeqSpace

IsReal(p, j, part) ==
    /\ p.body = Body(FALSE, part[1], part[2])
    /\ p.sequence = Plus(j.sequence, part[1])
    /\ p.flags = IF EndOf(part) = j.length THEN j.flags ELSE j.flags \ {"FIN", "PSH"}
    /\ j.shape.whole => Sound(p) /\ PayloadLength(p) = part[2]

IsDecoy(p, j) ==
    /\ p.body.trick = TRUE
    /\ "SYN" \notin p.flags /\ "FIN" \notin p.flags
    /\ j.badsum => ~Sound(p)
    /\ j.badseq => p.sequence = Plus(j.sequence, BadSequence + j.noise)

LEMMA CapturedIsReal ==
    ASSUME NEW j, TypedTcp(j) PROVE IsReal(Captured(j), j, <<0, j.length>>)
<1> DEFINE f == Captured(j)
<1>1. /\ Kept(f, j) /\ f.size = Payload(j) + j.length
      /\ f.declared = f.size + j.shape.missing
      /\ f.sequence = j.sequence /\ f.flags = j.flags
      /\ f.body = Body(FALSE, 0, j.length)
      /\ f.header_sum = HeaderContents(f) /\ f.sum = Contents(f)
  BY CapturedKept
<1> HIDE DEF f
<1>2. PayloadAt(f) = Payload(j) /\ f.proto = "tcp"
  BY <1>1, KeptFields DEF TypedTcp
<1>3. j.shape.whole => Sound(f) /\ PayloadLength(f) = j.length
  BY <1>1, <1>2 DEF Sound, HeaderSumRight, SumRight, PayloadLength, TypedTcp
<1>4. f.sequence = Plus(j.sequence, 0) /\ EndOf(<<0, j.length>>) = j.length
  BY <1>1, SeqAssumption DEF TypedTcp, Plus, SeqNumber, EndOf
<1>5. IsReal(f, j, <<0, j.length>>)
  BY <1>1, <1>3, <1>4 DEF IsReal
<1> QED
  BY <1>5 DEF f

LEMMA SegmentIsReal ==
    ASSUME NEW j, TypedTcp(j), NEW part \in Nat \X Nat
    PROVE  IsReal(Segment(j, part), j, part)
<1> DEFINE body == Body(FALSE, part[1], part[2])
           flags == IF part[1] + part[2] = j.length THEN j.flags ELSE j.flags \ {"FIN", "PSH"}
           f == MakeSegment(Captured(j), body, Plus(j.sequence, part[1]), flags)
<1>1. Segment(j, part) = f
  BY DEF Segment
<1>2. Kept(Captured(j), j)
  BY CapturedKept
<1>3. body.size = part[2] /\ part[2] \in Nat
  BY DEF Body
<1> HIDE DEF body, flags
<1>4. /\ Kept(f, j) /\ f.size = Payload(j) + body.size /\ f.declared = f.size
      /\ f.body = body /\ f.sequence = Plus(j.sequence, part[1]) /\ f.flags = flags
      /\ f.header_sum = HeaderContents(f) /\ f.sum = Contents(f)
  BY <1>2, SegmentKept
<1> HIDE DEF f
<1>5. PayloadAt(f) = Payload(j) /\ f.proto = "tcp"
  BY <1>4, KeptFields DEF TypedTcp
<1>6. f.declared = Payload(j) + part[2] /\ f.size = f.declared
  BY <1>3, <1>4
<1>7. PayloadLength(f) = part[2]
  BY <1>3, <1>5, <1>6 DEF PayloadLength, TypedTcp
<1>8. Sound(f)
  BY <1>3, <1>4, <1>6 DEF Sound, HeaderSumRight, SumRight, TypedTcp
<1>9. IsReal(f, j, part)
  BY <1>4, <1>7, <1>8 DEF IsReal, EndOf, body, flags
<1> QED
  BY <1>1, <1>9

LEMMA DecoyIsDecoy ==
    ASSUME NEW j PROVE IsDecoy(Decoy(j), j)
<1> DEFINE body == DecoyBody(j)
           sequence == IF j.badseq THEN Plus(j.sequence, BadSequence + j.noise) ELSE j.sequence
           flags == j.flags \ {"SYN", "FIN", "RST"}
           made == MakeSegment(Captured(j), body, sequence, flags)
           limited == SetHopLimit(made, j.ttl)
           poisoned == [limited EXCEPT !.sum = Inverted]
<1>1. Decoy(j) = IF j.badsum THEN poisoned ELSE limited
  BY DEF Decoy, Poison
<1>2. Kept(Captured(j), j)
  BY CapturedKept
<1>3. Kept(made, j) /\ made.body = body /\ made.sequence = sequence /\ made.flags = flags
  BY <1>2, SegmentKept
<1>4. body.trick = TRUE
  BY DEF DecoyBody, Body
<1> HIDE DEF made
<1>5. /\ Kept(limited, j) /\ limited.body = body /\ limited.sequence = sequence
      /\ limited.flags = flags
  BY <1>3, LimitKept
<1> HIDE DEF limited
<1>6. /\ poisoned.body = body /\ poisoned.sequence = sequence
      /\ poisoned.flags = flags /\ poisoned.sum = Inverted
  BY <1>5 DEF Kept
<1> HIDE DEF poisoned, body
<1>7. \A f : Contents(f) # Inverted
  <2>1. \A f : "port" \in DOMAIN Contents(f)
    BY DEF Contents
  <2>2. "port" \notin DOMAIN Inverted
    BY DEF Inverted
  <2> QED
    BY <2>1, <2>2
<1>8. ~Sound(poisoned)
  BY <1>6, <1>7 DEF Sound, SumRight
<1> QED
  BY <1>1, <1>4, <1>5, <1>6, <1>8 DEF IsDecoy

(* Every part of the payload is in one packet; the other packets are decoys. *)
Carries(j, packets, parts, place) ==
    /\ Tiles(parts, j.length)
    /\ j.strategy \in WholeStrategies => Len(parts) = 1
    /\ (/\ Parses(Captured(j)) /\ j.strategy \in Splitting
        /\ SplitOffset(j) \in 1..j.length - 1) => Separates(parts, SplitOffset(j))
    /\ place \in [1..Len(parts) -> DOMAIN packets]
    /\ \A k, l \in 1..Len(parts) : place[k] = place[l] => k = l
    /\ \A k \in 1..Len(parts) : IsReal(packets[place[k]], j, parts[k])
    /\ \A i \in DOMAIN packets :
         (\A k \in 1..Len(parts) : place[k] # i) => IsDecoy(packets[i], j)

LEMMA AloneCarries ==
    ASSUME NEW j, TypedTcp(j), ~Parses(Captured(j)) \/ Parts(j) = <<>>
    PROVE  \E parts, place : Carries(j, <<Captured(j)>>, parts, place)
<1> DEFINE packets == <<Captured(j)>>
           parts == <<<<0, j.length>>>>
           place == [k \in 1..1 |-> 1]
<1>1. Tiles(parts, j.length)
  BY OneTile DEF TypedTcp
<1>2. Len(parts) = 1 /\ parts[1] = <<0, j.length>>
  OBVIOUS
<1>3. DOMAIN packets = 1..1 /\ packets[1] = Captured(j)
  OBVIOUS
<1>4. place \in [1..1 -> 1..1] /\ place[1] = 1 /\ \A k \in 1..1 : k = 1
  OBVIOUS
<1>5. IsReal(Captured(j), j, <<0, j.length>>)
  BY CapturedIsReal
<1> HIDE DEF packets, parts, place
<1>6. \A i \in DOMAIN packets : place[1] = i
  BY <1>3, <1>4
<1>7. ~(/\ Parses(Captured(j)) /\ j.strategy \in Splitting
        /\ SplitOffset(j) \in 1..j.length - 1)
  <2>1. ~Tiles(<<>>, j.length)
    BY DEF Tiles
  <2> QED
    BY <2>1, PartsTile DEF TypedTcp
<1>8. Carries(j, packets, parts, place)
  BY <1>1, <1>2, <1>3, <1>4, <1>5, <1>6, <1>7 DEF Carries
<1> QED
  BY <1>8 DEF packets

LEMMA Repeated ==
    ASSUME NEW S, NEW decoys \in Seq(S), Len(decoys) \in {0, 1}, NEW segments \in Seq(S),
           NEW repeats \in Nat
    PROVE  LET all == WithRepeats(decoys, segments, repeats)
               d == Len(decoys)
               m == Len(segments)
           IN  /\ all \in Seq(S) /\ Len(all) >= d + m
               /\ \A i \in 1..Len(all) :
                    IF d < i /\ i <= d + m THEN all[i] = segments[i - d]
                    ELSE d = 1 /\ all[i] = decoys[1]
<1> DEFINE again == Most(repeats, 1) - 1
           d == Len(decoys)
           m == Len(segments)
           late == [n \in 1..again * Len(decoys) |-> decoys[(n - 1) \div again + 1]]
           front == decoys \o segments
           all == front \o late
<1>1. again \in Nat /\ d \in {0, 1} /\ m \in Nat
  <2>1. again \in Nat
    BY DEF Most
  <2>2. Len(decoys) \in Nat /\ Len(segments) \in Nat
    BY LenProperties
  <2> QED
    BY <2>1, <2>2, Zenon
<1>2. WithRepeats(decoys, segments, repeats) = all
  BY DEF WithRepeats
<1> HIDE DEF again
<1>3. /\ late \in Seq(S) /\ Len(late) = again * d
      /\ \A n \in 1..again * d : late[n] = decoys[1] /\ d = 1
  <2>1. CASE d = 0
    <3>1. again * d = 0 /\ 1..0 = {}
      BY <1>1, <2>1
    <3>2. late = [n \in 1..0 |-> decoys[(n - 1) \div again + 1]]
      BY <3>1
    <3>3. late \in Seq(S) /\ Len(late) = 0
      BY <3>1, <3>2
    <3> QED
      BY <3>1, <3>3
  <2>2. CASE d = 1
    <3>1. again * d = again /\ decoys[1] \in S
      BY <1>1, <2>2
    <3>2. \A n \in 1..again : (n - 1) \div again + 1 = 1
      <4> SUFFICES ASSUME NEW n \in 1..again PROVE (n - 1) \div again + 1 = 1
        OBVIOUS
      <4>1. n - 1 \in 0..again - 1 /\ again \in Nat \ {0}
        BY <1>1
      <4>2. \A a \in Nat \ {0} : \A b \in 0..a - 1 : b \div a = 0
        <5> SUFFICES ASSUME NEW a \in Nat \ {0}, NEW b \in 0..a - 1 PROVE b \div a = 0
          OBVIOUS
        <5> QED
          OBVIOUS
      <4> QED
        BY <4>1, <4>2
    <3>3. late = [n \in 1..again |-> decoys[(n - 1) \div again + 1]]
      BY <3>1
    <3>4. \A n \in 1..again : late[n] = decoys[1]
      BY <3>2, <3>3
    <3>5. late = [n \in 1..again |-> decoys[1]]
      BY <3>2, <3>3
    <3>6. \A v \in S : [n \in 1..again |-> v] \in Seq(S) /\ Len([n \in 1..again |-> v]) = again
      BY <1>1
    <3> HIDE DEF late
    <3>7. late \in Seq(S) /\ Len(late) = again
      BY <3>1, <3>5, <3>6
    <3> QED
      BY <2>2, <3>1, <3>4, <3>7
  <2> QED
    BY <1>1, <2>1, <2>2
<1>4. /\ front \in Seq(S) /\ Len(front) = d + m
      /\ \A i \in 1..d + m : front[i] = IF i <= d THEN decoys[i] ELSE segments[i - d]
  BY ConcatProperties
<1> HIDE DEF front, late, d, m
<1> DEFINE tail == again * d
<1>5. tail \in Nat /\ Len(late) = tail
  BY <1>1, <1>3
<1> HIDE DEF tail
<1>6. /\ all \in Seq(S) /\ Len(all) = d + m + tail
      /\ \A i \in 1..d + m + tail :
           all[i] = IF i <= d + m THEN front[i] ELSE late[i - (d + m)]
  <2>1. /\ front \o late \in Seq(S) /\ Len(front \o late) = Len(front) + Len(late)
        /\ \A i \in 1..Len(front) + Len(late) :
             (front \o late)[i] = IF i <= Len(front) THEN front[i] ELSE late[i - Len(front)]
    BY <1>3, <1>4, ConcatProperties
  <2> QED
    BY <1>4, <1>5, <2>1
<1>7. \A n \in 1..tail : late[n] = decoys[1] /\ d = 1
  BY <1>3 DEF tail
<1>8. \A i \in 1..Len(all) : IF d < i /\ i <= d + m THEN all[i] = segments[i - d]
                             ELSE d = 1 /\ all[i] = decoys[1]
  <2> SUFFICES ASSUME NEW i \in 1..Len(all)
               PROVE  IF d < i /\ i <= d + m THEN all[i] = segments[i - d]
                      ELSE d = 1 /\ all[i] = decoys[1]
    OBVIOUS
  <2>0. all[i] = IF i <= d + m THEN front[i] ELSE late[i - (d + m)]
    BY <1>6
  <2> HIDE DEF all
  <2>1. CASE i <= d
    <3>1. i = 1 /\ d = 1 /\ i \in 1..d + m
      BY <1>1, <1>5, <1>6, <2>1
    <3>2. all[i] = decoys[i]
      BY <1>1, <1>4, <2>0, <2>1, <3>1
    <3> QED
      BY <3>1, <3>2
  <2>2. CASE d < i /\ i <= d + m
    <3>1. i \in 1..d + m /\ ~(i <= d)
      BY <1>1, <1>5, <1>6, <2>2
    <3> QED
      BY <1>4, <2>0, <2>2, <3>1
  <2>3. CASE d + m < i
    <3>1. i - (d + m) \in 1..tail /\ ~(i <= d + m)
      BY <1>1, <1>5, <1>6, <2>3
    <3>2. all[i] = decoys[1] /\ d = 1
      BY <1>7, <2>0, <3>1
    <3> QED
      BY <3>1, <3>2
  <2> QED
    BY <1>1, <1>5, <1>6, <2>1, <2>2, <2>3
<1>9. Len(all) >= d + m
  BY <1>1, <1>5, <1>6
<1> HIDE DEF all
<1> QED
  BY <1>2, <1>6, <1>8, <1>9 DEF d, m

LEMMA SegmentsCarry ==
    ASSUME NEW j, TypedTcp(j), Tiles(Parts(j), j.length)
    PROVE  \E parts, place :
             Carries(j, WithRepeats(Decoys(j), InTransmissionOrder(j, Parts(j)), j.repeats),
                     parts, place)
<1> DEFINE parts == Parts(j)
           m == Len(parts)
           reversed == j.strategy \in Reversing
           order == [n \in 1..m |-> IF reversed THEN m + 1 - n ELSE n]
           segments == InTransmissionOrder(j, parts)
           decoys == Decoys(j)
           d == Len(decoys)
           all == WithRepeats(decoys, segments, j.repeats)
           S == {Decoy(j)} \cup {Segment(j, part) : part \in Nat \X Nat}
           place == [k \in 1..m |-> d + order[k]]
<1>1. parts \in Seq(Nat \X Nat) /\ m \in Nat \ {0} /\ \A k \in 1..m : parts[k] \in Nat \X Nat
  BY ElementOfSeq DEF Tiles
<1>2. j.strategy \in WholeStrategies => m = 1
  <2>1. j.strategy \in WholeStrategies => parts = <<<<0, j.length>>>>
    BY PartsTile DEF TypedTcp
  <2> QED
    BY <2>1
<1>3. /\ Tiles(parts, j.length)
      /\ (/\ Parses(Captured(j)) /\ j.strategy \in Splitting
          /\ SplitOffset(j) \in 1..j.length - 1) => Separates(parts, SplitOffset(j))
  BY PartsTile DEF TypedTcp
<1>4. decoys \in Seq(S) /\ d \in {0, 1} /\ (d = 1 => decoys[1] = Decoy(j))
  <2>1. decoys = <<>> \/ decoys = <<Decoy(j)>>
    BY DEF Decoys
  <2>2. Decoy(j) \in S
    OBVIOUS
  <2> HIDE DEF S, decoys
  <2>3. <<>> \in Seq(S) /\ Len(<<>>) = 0
    BY EmptySeq
  <2>4. /\ <<Decoy(j)>> \in Seq(S) /\ Len(<<Decoy(j)>>) = 1
        /\ <<Decoy(j)>>[1] = Decoy(j)
    BY <2>2
  <2>5. CASE decoys = <<>>
    BY <2>3, <2>5
  <2>6. CASE decoys = <<Decoy(j)>>
    BY <2>4, <2>6
  <2> QED
    BY <2>1, <2>5, <2>6
<1>5. segments = [n \in 1..m |-> Segment(j, parts[order[n]])]
  <2>1. DOMAIN parts = 1..m
    BY <1>1
  <2>2. \A n \in 1..m : order[n] = IF reversed THEN m + 1 - n ELSE n
    OBVIOUS
  <2>3. segments = [n \in DOMAIN parts |->
                      Segment(j, parts[IF reversed THEN m + 1 - n ELSE n])]
    BY DEF InTransmissionOrder
  <2> HIDE DEF parts, m, reversed, order, segments
  <2> QED
    BY <2>1, <2>2, <2>3
<1> HIDE DEF parts, reversed, segments, decoys
<1> HIDE DEF m
<1>6. /\ \A n \in 1..m : order[n] \in 1..m /\ order[order[n]] = n
      /\ \A k, l \in 1..m : order[k] = order[l] => k = l
  <2>1. \A n \in 1..m : order[n] = IF reversed THEN m + 1 - n ELSE n
    OBVIOUS
  <2> HIDE DEF order
  <2>2. \A n \in 1..m : order[n] \in 1..m
    BY <1>1, <2>1
  <2>3. \A n \in 1..m : order[order[n]] = n
    BY <1>1, <2>1, <2>2
  <2> QED
    BY <2>2, <2>3
<1> HIDE DEF order
<1>7. /\ \A n \in 1..m : segments[n] = Segment(j, parts[order[n]])
      /\ segments \in Seq(S) /\ Len(segments) = m
  <2>1. \A n \in 1..m : Segment(j, parts[order[n]]) \in S
    BY <1>1, <1>6
  <2>2. \A n \in 1..m : segments[n] = Segment(j, parts[order[n]])
    BY <1>5
  <2> HIDE DEF S
  <2>3. segments \in [1..m -> S]
    BY <1>5, <2>1
  <2>4. \A s \in [1..m -> S] : s \in Seq(S) /\ Len(s) = m
    BY <1>1
  <2> QED
    BY <2>2, <2>3, <2>4
<1> HIDE DEF S
<1>8. /\ all \in Seq(S) /\ Len(all) >= d + m
      /\ \A i \in 1..Len(all) :
           IF d < i /\ i <= d + m THEN all[i] = segments[i - d] ELSE d = 1 /\ all[i] = decoys[1]
  <2>1. j.repeats \in Nat
    BY DEF TypedTcp
  <2>2. decoys \in Seq(S) /\ Len(decoys) \in {0, 1} /\ segments \in Seq(S)
    BY <1>4, <1>7
  <2>3. /\ all \in Seq(S) /\ Len(all) >= Len(decoys) + Len(segments)
        /\ \A i \in 1..Len(all) :
             IF Len(decoys) < i /\ i <= Len(decoys) + Len(segments)
             THEN all[i] = segments[i - Len(decoys)]
             ELSE Len(decoys) = 1 /\ all[i] = decoys[1]
    BY <2>1, <2>2, Repeated
  <2> HIDE DEF all
  <2> QED
    BY <1>7, <2>3
<1>9. DOMAIN all = 1..Len(all) /\ Len(all) \in Nat
  BY <1>8
<1> HIDE DEF all, d
<1>10. \A k \in 1..m : place[k] = d + order[k]
  OBVIOUS
<1> HIDE DEF place
<1>11. \A k \in 1..m : place[k] \in DOMAIN all /\ d < place[k] /\ place[k] <= d + m
  <2> SUFFICES ASSUME NEW k \in 1..m
               PROVE  place[k] \in DOMAIN all /\ d < place[k] /\ place[k] <= d + m
    OBVIOUS
  <2>1. place[k] = d + order[k] /\ order[k] \in 1..m
    BY <1>6, <1>10
  <2>2. d < place[k] /\ place[k] <= d + m /\ place[k] \in Nat \ {0}
    BY <1>1, <1>4, <2>1
  <2>3. Len(all) \in Nat /\ Len(all) >= d + m /\ d + m \in Nat
    BY <1>1, <1>4, <1>8, <1>9
  <2>4. place[k] \in 1..Len(all)
    BY <2>2, <2>3
  <2> QED
    BY <1>9, <2>2, <2>4
<1>12. place \in [1..m -> DOMAIN all]
  BY <1>11 DEF place
<1>13. \A k, l \in 1..m : place[k] = place[l] => k = l
  <2> SUFFICES ASSUME NEW k \in 1..m, NEW l \in 1..m, place[k] = place[l] PROVE k = l
    OBVIOUS
  <2>1. order[k] \in 1..m /\ order[l] \in 1..m /\ d + order[k] = d + order[l]
    BY <1>6, <1>10
  <2>2. order[k] = order[l]
    BY <1>1, <1>4, <2>1
  <2> QED
    BY <1>6, <2>2
<1>14. \A k \in 1..m : IsReal(all[place[k]], j, parts[k])
  <2> SUFFICES ASSUME NEW k \in 1..m PROVE IsReal(all[place[k]], j, parts[k])
    OBVIOUS
  <2>1. all[place[k]] = segments[place[k] - d]
    BY <1>8, <1>9, <1>11
  <2>2. order[k] \in 1..m /\ place[k] - d = order[k]
    BY <1>1, <1>4, <1>6, <1>10
  <2>3. segments[order[k]] = Segment(j, parts[k])
    BY <1>6, <1>7, <2>2
  <2>4. parts[k] \in Nat \X Nat
    BY <1>1
  <2> QED
    BY <2>1, <2>2, <2>3, <2>4, SegmentIsReal
<1>15. \A i \in DOMAIN all : (\A k \in 1..m : place[k] # i) => IsDecoy(all[i], j)
  <2> SUFFICES ASSUME NEW i \in DOMAIN all, \A k \in 1..m : place[k] # i
               PROVE  IsDecoy(all[i], j)
    OBVIOUS
  <2>1. ~(d < i /\ i <= d + m)
    <3> SUFFICES ASSUME d < i, i <= d + m PROVE FALSE
      OBVIOUS
    <3>1. i - d \in 1..m /\ i \in Nat
      BY <1>1, <1>4, <1>9
    <3>2. order[i - d] \in 1..m /\ order[order[i - d]] = i - d
      BY <1>6, <3>1
    <3>3. place[order[i - d]] = d + (i - d)
      BY <1>10, <3>2
    <3>4. d + (i - d) = i
      BY <1>4, <3>1
    <3> QED
      BY <3>2, <3>3, <3>4
  <2>2. all[i] = Decoy(j)
    BY <1>4, <1>8, <1>9, <2>1
  <2> QED
    BY <2>2, DecoyIsDecoy
<1>16. Carries(j, all, parts, place)
  BY <1>2, <1>3, <1>12, <1>13, <1>14, <1>15 DEF Carries, m
<1> QED
  BY <1>16 DEF all, decoys, segments, parts

LEMMA PacketsCarry ==
    ASSUME NEW j, TypedTcp(j) PROVE \E parts, place : Carries(j, Packets(j), parts, place)
<1>1. Parts(j) = <<>> \/ Tiles(Parts(j), j.length)
  BY PartsTile DEF TypedTcp
<1>2. Packets(j) = IF ~Parses(Captured(j)) \/ Parts(j) = <<>> THEN <<Captured(j)>>
                   ELSE WithRepeats(Decoys(j), InTransmissionOrder(j, Parts(j)), j.repeats)
  BY DEF Packets, TcpPackets, TypedTcp
<1>3. CASE ~Parses(Captured(j)) \/ Parts(j) = <<>>
  BY <1>2, <1>3, AloneCarries
<1>4. CASE Parses(Captured(j)) /\ Parts(j) # <<>>
  BY <1>1, <1>2, <1>4, SegmentsCarry
<1> QED
  BY <1>3, <1>4

-----------------------------------------------------------------------------
(* The inductive invariant *)

TypedUdp(j) ==
    /\ j.protocol = "udp" /\ j.length \in Nat \ {0} /\ j.delta \in Int
    /\ j.repeats \in Nat /\ Begin(j) \in Nat
    /\ Payload(j) \in Nat /\ Payload(j) + j.length <= MaxDatagram
    /\ j.shape.whole => j.shape.missing = 0 /\ j.shape.udp_missing = 0

JobInv ==
    /\ out = Packets(job)
    /\ IF Tcp(job) THEN TypedTcp(job) ELSE TypedUdp(job)

PendingInv == pending \subseteq DOMAIN out /\ (~job.shape.whole => pending = {})

(* The server never takes a byte of a decoy, or one the payload does not have. *)
TcpInv ==
    /\ fooled = FALSE
    /\ Tcp(job) => got \subseteq Offsets(job) /\ open \in BOOLEAN

Arrived == Real \ pending
EndsPayload(i) == out[i].body.offset + out[i].body.size = job.length

(* It has exactly what arrived, wherever that begins. *)
StreamInv ==
    Tcp(job) /\ job.shape.whole =>
        /\ \A n \in Offsets(job) : n \in got <=> \E i \in Arrived : n \in Covered(i)
        /\ open <=> ~Opening(job) \/ Arrived # {}
        /\ fin = IF "FIN" \in job.flags /\ (\E i \in Arrived : EndsPayload(i))
                 THEN job.length ELSE NoFin

DatagramInv ==
    ~Tcp(job) /\ job.shape.whole =>
        \A n : n \in got <=> \E i \in Arrived : n \in 0..PayloadLength(out[i]) - 1

LEMMA JobsAreTyped ==
    ASSUME NEW j \in Jobs
    PROVE  IF Tcp(j) THEN TypedTcp(Hinted(j)) /\ Tcp(Hinted(j)) ELSE TypedUdp(j)
<1>1. /\ j \in IF Tcp(j) THEN TcpJob(j) ELSE UdpJob(j)
      /\ j.shape.doff \in Nat /\ TransportAt(Captured(j)) \in Nat
      /\ {j.shape.missing, j.shape.udp_missing} \subseteq Int
      /\ PayloadAt(Captured(j)) + j.length <= MaxDatagram
      /\ j.shape.whole => j.shape.missing = 0 /\ j.shape.udp_missing = 0
  BY JobsAssumption DEF JobsAssumption
<1>2. TransportAt(Captured(j)) = Begin(j) /\ PayloadAt(Captured(j)) = Payload(j)
  BY CapturedKept, KeptFields
<1>3. Payload(j) \in Nat
  BY <1>1, <1>2 DEF Payload, UdpHeader
<1>4. CASE Tcp(j)
  <2> DEFINE h == Hinted(j)
  <2>1. j \in TcpJob(j)
    BY <1>1, <1>4
  <2>2. /\ h.protocol = "tcp" /\ h.length = j.length /\ h.sequence = j.sequence
        /\ h.strategy = j.strategy /\ h.split = j.split /\ h.segments = j.segments
        /\ h.repeats = j.repeats /\ h.noise = j.noise /\ h.shape = j.shape
    BY <2>1 DEF TcpJob, Hinted
  <2>3. /\ j.protocol = "tcp" /\ j.length \in Nat \ {0} /\ j.sequence \in SeqNumber
        /\ j.strategy \in Splitting \cup WholeStrategies /\ j.split \in Int
        /\ j.segments \in Nat /\ j.repeats \in Nat /\ j.noise \in Nat
    BY <2>1 DEF TcpJob
  <2>4. /\ j.length <= Window /\ 2 * j.length < SeqSpace /\ Window + j.length <= SeqSpace
        /\ Window + j.length < BadSequence /\ 2 * (BadSequence + j.noise) <= SeqSpace
    BY <1>4, NumbersAssumption DEF NumbersAssumption
  <2> HIDE DEF h
  <2>5. Payload(h) = Payload(j)
    BY <2>2, <2>3 DEF Payload, Begin
  <2>6. TypedTcp(h) /\ Tcp(h)
    BY <1>1, <1>3, <2>2, <2>3, <2>4, <2>5 DEF TypedTcp, Tcp
  <2> QED
    BY <1>4, <2>6 DEF h
<1>5. CASE ~Tcp(j)
  <2>1. j \in UdpJob(j)
    BY <1>1, <1>5
  <2>2. j.protocol = "udp" /\ j.length \in Nat \ {0} /\ j.delta \in Int /\ j.repeats \in Nat
    BY <2>1 DEF UdpJob
  <2> QED
    BY <1>1, <1>2, <1>3, <1>5, <2>2 DEF TypedUdp
<1> QED
  BY <1>4, <1>5

-----------------------------------------------------------------------------
(* The server's TCP *)

(* Distances between sequence numbers are exact. *)
LEMMA Distance ==
    ASSUME NEW s \in SeqNumber, NEW a \in 0..SeqSpace - 1, NEW b \in 0..SeqSpace - 1
    PROVE  /\ Plus(s, a) \in SeqNumber
           /\ Behind(Plus(s, a), Plus(s, b)) = IF a >= b THEN a - b ELSE a - b + SeqSpace
BY SeqAssumption DEF Plus, Behind, SeqNumber

LEMMA TwoSteps ==
    ASSUME NEW s \in SeqNumber, NEW a \in Nat, NEW b \in Nat, a + b < SeqSpace
    PROVE  Plus(Plus(s, a), b) = Plus(s, a + b)
BY SeqAssumption DEF Plus, SeqNumber

LEMMA ExpectedIsNext ==
    ASSUME job.length \in Nat, got \subseteq Offsets(job)
    PROVE  /\ Expected \in 0..job.length /\ Expected \notin got
           /\ \A m \in 0..Expected - 1 : m \in got
<1> DEFINE T == {n \in 0..job.length : n \notin got}
<1>1. job.length \in T /\ T \in SUBSET Nat
  BY DEF Offsets
<1>2. PICK n \in T : \A m \in T : n <= m
  BY <1>1, LeastElement
<1>3. n \notin got /\ n \in 0..job.length
  BY <1>2
<1>4. \A m \in 0..n - 1 : m \in got
  BY <1>2, <1>3
<1> QED
  BY <1>3, <1>4 DEF Expected

(* A decoy the guards let through is refused: its checksum is wrong, or its number lies
   beyond the window; and it opens no connection.                              *)
LEMMA DecoyIsRefused ==
    ASSUME TypedTcp(job), got \subseteq Offsets(job), NEW p, IsDecoy(p, job),
           job.badseq \/ job.badsum
    PROVE  ~Accepts(p)
<1>1. CASE job.badsum
  BY <1>1 DEF IsDecoy, Accepts
<1>2. CASE job.badseq
  <2> DEFINE far == BadSequence + job.noise
             syn == IF Opening(job) THEN 1 ELSE 0
  <2>1. Expected \in 0..job.length
    BY ExpectedIsNext DEF TypedTcp
  <2>2. /\ job.length \in Nat \ {0} /\ job.sequence \in SeqNumber /\ job.noise \in Nat
        /\ Window + job.length < BadSequence /\ 2 * far <= SeqSpace
        /\ Window + job.length <= SeqSpace /\ 2 * job.length < SeqSpace
        /\ Window \in Nat /\ SeqSpace \in Nat \ {0} /\ BadSequence \in Nat
    BY SeqAssumption, WindowAssumption, TransformAssumption DEF TypedTcp, TransformAssumption
  <2>3. p.sequence = Plus(job.sequence, far) /\ "SYN" \notin p.flags
    BY <1>2 DEF IsDecoy
  <2>4. syn \in {0, 1} /\ Origin = Plus(job.sequence, syn)
    BY DEF Origin
  <2> HIDE DEF syn
  <2>5. far \in 0..SeqSpace - 1 /\ far >= Window + job.length + 1 /\ syn + Expected < SeqSpace
    BY <2>1, <2>2, <2>4
  <2> HIDE DEF far
  <2>6. DataSequence(p) = Plus(job.sequence, far)
    <3>1. Plus(Plus(job.sequence, far), 0) = Plus(job.sequence, far + 0)
      BY <2>2, <2>5, TwoSteps
    <3>2. DataSequence(p) = Plus(p.sequence, 0)
      BY <2>3 DEF DataSequence
    <3> QED
      BY <2>3, <2>5, <3>1, <3>2
  <2>7. Plus(Origin, Expected) = Plus(job.sequence, syn + Expected)
    <3>1. syn \in Nat /\ Expected \in Nat
      BY <2>1, <2>4
    <3>2. Plus(Plus(job.sequence, syn), Expected) = Plus(job.sequence, syn + Expected)
      BY <2>2, <2>5, <3>1, TwoSteps
    <3> QED
      BY <2>4, <3>2
  <2>8. Ahead(p) = far - (syn + Expected)
    <3>1. syn + Expected \in 0..SeqSpace - 1 /\ far >= syn + Expected
      BY <2>1, <2>2, <2>4, <2>5
    <3> QED
      BY <2>2, <2>5, <2>6, <2>7, <3>1, Distance DEF Ahead
  <2>9. ~InWindow(p)
    BY <2>1, <2>2, <2>4, <2>5, <2>8 DEF InWindow, far
  <2> QED
    BY <2>3, <2>9 DEF Accepts
<1> QED
  BY <1>1, <1>2

(* A real segment is accepted, and put where it belongs. *)
LEMMA RealIsAccepted ==
    ASSUME TypedTcp(job), job.shape.whole, got \subseteq Offsets(job),
           NEW p, NEW part \in Nat \X Nat, part[2] >= 1,
           EndOf(part) <= job.length, IsReal(p, job, part),
           open <=> ~Opening(job)
    PROVE  /\ Accepts(p) /\ Placed(p) = part[1] /\ PayloadLength(p) = part[2]
<1> DEFINE o == part[1]
           syn == IF Opening(job) THEN 1 ELSE 0
<1>1. Expected \in 0..job.length
  BY ExpectedIsNext DEF TypedTcp
<1>2. /\ job.length \in Nat \ {0} /\ job.sequence \in SeqNumber
      /\ job.length <= Window /\ Window + job.length <= SeqSpace /\ 2 * job.length < SeqSpace
      /\ Window \in Nat /\ SeqSpace \in Nat \ {0}
  BY SeqAssumption, WindowAssumption DEF TypedTcp
<1>3. o \in Nat /\ part[2] \in Nat /\ o + part[2] <= job.length
  BY DEF EndOf
<1>4. /\ p.sequence = Plus(job.sequence, o) /\ ("SYN" \in p.flags <=> Opening(job))
      /\ Sound(p) /\ PayloadLength(p) = part[2]
  BY DEF IsReal, Opening, Tcp, TypedTcp
<1>5. syn \in {0, 1} /\ Origin = Plus(job.sequence, syn) /\ DataSequence(p) = Plus(p.sequence, syn)
  BY <1>4 DEF Origin, DataSequence
<1> HIDE DEF o, syn
<1>6. /\ syn + o \in 0..SeqSpace - 1 /\ syn + Expected \in 0..SeqSpace - 1
  BY <1>1, <1>2, <1>3, <1>5
<1>7. DataSequence(p) = Plus(job.sequence, syn + o)
  <2>1. Plus(Plus(job.sequence, o), syn) = Plus(job.sequence, o + syn)
    BY <1>2, <1>3, <1>5, <1>6, TwoSteps
  <2>2. o + syn = syn + o
    BY <1>3, <1>5
  <2> QED
    BY <1>4, <1>5, <2>1, <2>2
<1>8. Plus(Origin, Expected) = Plus(job.sequence, syn + Expected)
  BY <1>1, <1>2, <1>5, <1>6, TwoSteps
<1>9. Ahead(p) = IF o >= Expected THEN o - Expected ELSE o - Expected + SeqSpace
  <2>1. Ahead(p) = IF syn + o >= syn + Expected THEN (syn + o) - (syn + Expected)
                   ELSE (syn + o) - (syn + Expected) + SeqSpace
    BY <1>2, <1>6, <1>7, <1>8, Distance DEF Ahead
  <2> QED
    BY <1>1, <1>3, <1>5, <2>1
<1>10. InWindow(p) /\ Placed(p) = o
  <2>1. CASE o >= Expected
    <3>1. Ahead(p) = o - Expected /\ Ahead(p) < Window
      BY <1>1, <1>2, <1>3, <1>9, <2>1
    <3> QED
      BY <1>1, <1>3, <3>1 DEF InWindow, Placed
  <2>2. CASE o < Expected
    <3>1. Ahead(p) = o - Expected + SeqSpace
      BY <1>1, <1>3, <1>9, <2>2
    <3>2. ~(Ahead(p) < Window) /\ 2 * Ahead(p) > SeqSpace
      BY <1>1, <1>2, <1>3, <3>1
    <3> QED
      BY <1>1, <1>2, <1>3, <3>1, <3>2 DEF InWindow, Placed
  <2> QED
    BY <1>1, <1>3, <2>1, <2>2
<1>11. Accepts(p)
  BY <1>4, <1>10 DEF Accepts
<1> QED
  BY <1>4, <1>10, <1>11 DEF o

LEMMA EachPacket ==
    ASSUME JobInv, Tcp(job), NEW i \in DOMAIN out
    PROVE  /\ out[i].body.trick \in BOOLEAN
           /\ out[i].body.trick = TRUE => IsDecoy(out[i], job)
<1>1. TypedTcp(job) /\ out = Packets(job)
  BY DEF JobInv
<1>2. PICK parts, place : Carries(job, out, parts, place)
  BY <1>1, PacketsCarry
<1>3. CASE \A k \in 1..Len(parts) : place[k] # i
  BY <1>2, <1>3 DEF Carries, IsDecoy
<1>4. CASE \E k \in 1..Len(parts) : place[k] = i
  <2>1. PICK k \in 1..Len(parts) : place[k] = i
    BY <1>4
  <2>2. out[i].body = Body(FALSE, parts[k][1], parts[k][2])
    BY <1>2, <2>1 DEF Carries, IsReal
  <2> QED
    BY <2>2 DEF Body
<1> QED
  BY <1>3, <1>4

LEMMA DeliverKeepsDecoysOut ==
    ASSUME JobInv, PendingInv, TcpInv, NEW i \in DOMAIN out, Deliver(i)
    PROVE  JobInv' /\ PendingInv' /\ TcpInv'
<1> DEFINE p == out[i]
           bytes == IF Accepts(p) THEN (Placed(p)..Placed(p) + PayloadLength(p) - 1) \ got
                    ELSE {}
           trick == p.body.trick
<1>1. /\ Tcp(job) /\ i \in pending /\ (trick => job.badseq \/ job.badsum)
      /\ pending' = pending \ {i} /\ open' = (open \/ Accepts(p))
      /\ got' = got \cup (bytes \cap Offsets(job))
      /\ fooled' = (fooled \/ (trick /\ bytes # {}))
      /\ job' = job /\ out' = out
  BY DEF Deliver
<1>2. JobInv' /\ PendingInv'
  BY <1>1 DEF JobInv, PendingInv
<1>3. trick \in BOOLEAN /\ (trick = TRUE => IsDecoy(p, job))
  BY <1>1, EachPacket
<1>4. trick = TRUE => ~Accepts(p)
  <2> HIDE DEF p, trick
  <2>1. TypedTcp(job) /\ got \subseteq Offsets(job)
    BY <1>1 DEF JobInv, TcpInv
  <2> QED
    BY <1>1, <1>3, <2>1, DecoyIsRefused
<1>5. fooled' = FALSE
  <2>1. bytes = {} \/ trick = FALSE
    BY <1>3, <1>4, Zenon
  <2>2. fooled = FALSE
    BY <1>1 DEF TcpInv
  <2> HIDE DEF bytes, trick
  <2> QED
    BY <1>1, <2>1, <2>2, Zenon
<1>6. open' \in BOOLEAN
  BY <1>1, Zenon
<1>7. got' \subseteq Offsets(job)
  <2> HIDE DEF bytes
  <2> QED
    BY <1>1 DEF TcpInv
<1> HIDE DEF p, bytes, trick
<1>8. TcpInv'
  BY <1>1, <1>5, <1>6, <1>7 DEF TcpInv
<1> QED
  BY <1>2, <1>8

(* The same for the other steps, which touch none of this. *)
LEMMA OthersKeepDecoysOut ==
    ASSUME JobInv, PendingInv, TcpInv, NEW i \in DOMAIN out,
           DeliverDatagram(i) \/ Expire(i)
    PROVE  JobInv' /\ PendingInv' /\ TcpInv'
<1>1. CASE DeliverDatagram(i)
  <2>1. /\ ~Tcp(job) /\ job' = job /\ out' = out /\ pending' = pending \ {i}
        /\ fooled' = fooled
    BY <1>1 DEF DeliverDatagram
  <2> QED
    BY <2>1 DEF JobInv, PendingInv, TcpInv
<1>2. CASE Expire(i)
  <2>1. /\ job' = job /\ out' = out /\ pending' = pending \ {i}
        /\ got' = got /\ open' = open /\ fooled' = fooled
    BY <1>2 DEF Expire, server
  <2> QED
    BY <2>1 DEF JobInv, PendingInv, TcpInv
<1> QED
  BY <1>1, <1>2

SafeInv == JobInv /\ PendingInv /\ TcpInv

LEMMA InitSafe == Init => SafeInv
<1> SUFFICES ASSUME Init PROVE SafeInv
  OBVIOUS
<1>1. /\ out = Packets(job) /\ pending = IF job.shape.whole THEN DOMAIN out ELSE {}
      /\ open = ~Opening(job) /\ got = {} /\ fooled = FALSE
  BY DEF Init
<1>2. PICK j \in Jobs : job = IF j.protocol = "tcp" THEN Hinted(j) ELSE j
  BY DEF Init
<1>3. IF Tcp(job) THEN TypedTcp(job) ELSE TypedUdp(job)
  BY <1>2, JobsAreTyped DEF Tcp
<1>4. open \in BOOLEAN
  BY <1>1, Zenon DEF Opening
<1>5. PendingInv
  BY <1>1 DEF PendingInv
<1>6. TcpInv
  BY <1>1, <1>4 DEF TcpInv
<1> QED
  BY <1>1, <1>3, <1>5, <1>6 DEF SafeInv, JobInv

LEMMA NextSafe == SafeInv /\ [Next]_vars => SafeInv'
<1> SUFFICES ASSUME SafeInv, [Next]_vars PROVE SafeInv'
  OBVIOUS
<1> USE DEF SafeInv
<1>1. CASE Next
  <2>1. PICK i \in DOMAIN out : Deliver(i) \/ DeliverDatagram(i) \/ Expire(i)
    BY <1>1 DEF Next
  <2> QED
    BY <2>1, DeliverKeepsDecoysOut, OthersKeepDecoysOut
<1>2. CASE UNCHANGED vars
  BY <1>2 DEF vars, server, JobInv, PendingInv, TcpInv
<1> QED
  BY <1>1, <1>2

LEMMA WireSafe == Spec => []SafeInv
<1> QED
  BY InitSafe, NextSafe, PTL DEF Spec

(* "A synthetic decoy must be rejected by the real server": whatever the settings, the
   cut and the order of arrival, no byte of a decoy that is not left to its TTL is
   ever taken for the stream's.                                                *)
THEOREM DecoysAreRefused == Spec => []DecoysRefused
<1>1. SafeInv => DecoysRefused
  BY DEF SafeInv, TcpInv, DecoysRefused
<1> QED
  BY <1>1, WireSafe, PTL

-----------------------------------------------------------------------------
(* What is not a whole packet *)

(* Lengths that end inside the headers leave no room for them. *)
LEMMA NoRoom ==
    ASSUME NEW at \in Nat, NEW header \in Nat, NEW l \in Nat, NEW m \in Int, NEW um \in Int
    PROVE  /\ l + m < 0 => ~(header <= at + header + l + m - at)
           /\ l + um \notin 0..l + m =>
                header + l + um \notin header..at + header + l + m - at
<1> QED
  OBVIOUS

(* The parser accepts none of it. *)
LEMMA IncompleteNeverParses ==
    ASSUME NEW j, Incomplete(j), j.length \in Nat, Payload(j) \in Nat, Begin(j) \in Nat,
           j.protocol \in {"tcp", "udp"}, j.shape.doff \in Nat, j.shape.ihl \in Nat,
           j.shape.missing \in Int, j.shape.udp_missing \in Int,
           j.shape.exts \in Seq([kind : STRING, length : Nat])
    PROVE  ~Parses(Captured(j))
<1> DEFINE f == Captured(j)
<1>1. /\ Kept(f, j) /\ f.size = Payload(j) + j.length /\ f.declared = f.size + j.shape.missing
      /\ f.udp_length = UdpHeader + j.length + j.shape.udp_missing
      /\ TransportAt(f) = Begin(j)
  BY CapturedKept, KeptFields
<1>2. /\ f.version = j.shape.version /\ f.ihl = j.shape.ihl /\ f.exts = j.shape.exts
      /\ f.fragment = j.shape.fragment /\ f.proto = j.protocol /\ f.doff = j.shape.doff
  BY <1>1 DEF Kept
<1> HIDE DEF f
<1>3. SUFFICES ASSUME Parses(f) PROVE FALSE
  BY DEF f
<1>4. /\ TransportFits(f)
      /\ (f.version = 4 /\ Ip4Fits(f) /\ Ip4Whole(f)) \/ (f.version = 6 /\ Ip6Fits(f))
  BY <1>3 DEF Parses
<1>5. Payload(j) = Begin(j) + (IF j.protocol = "tcp" THEN j.shape.doff ELSE UdpHeader)
  BY DEF Payload
<1>6. f.declared = Payload(j) + j.length + j.shape.missing
  BY <1>1
<1>14. PICK d \in Int, at \in Nat, u \in Int, l \in Nat, m \in Int, um \in Int :
          /\ d = f.declared /\ at = TransportAt(f) /\ u = f.udp_length /\ l = j.length
          /\ m = j.shape.missing /\ um = j.shape.udp_missing
  <2>1. f.declared \in Int /\ f.udp_length \in Int
    BY <1>1, <1>6 DEF UdpHeader
  <2> QED
    BY <1>1, <2>1
<1>7. CASE j.shape.missing > 0
  BY <1>1, <1>4, <1>7 DEF Ip4Fits, Ip6Fits
<1>8. CASE j.length + j.shape.missing < 0
  <2>1. CASE f.proto = "tcp"
    <3>2. f.doff <= f.declared - TransportAt(f)
      BY <1>4, <2>1, Zenon DEF TransportFits
    <3>3. Payload(j) = Begin(j) + j.shape.doff /\ f.doff = j.shape.doff
      BY <1>2, <1>5, <2>1, Zenon
    <3>1. f.doff <= d - at /\ Payload(j) = at + f.doff /\ f.doff \in Nat
      BY <1>1, <1>14, <3>2, <3>3
    <3>4. d = at + f.doff + l + m /\ l + m < 0
      BY <1>6, <1>8, <1>14, <3>1, Zenon
    <3> QED
      BY <3>1, <3>4, NoRoom
  <2>2. CASE f.proto = "udp"
    <3>2. f.udp_length \in UdpHeader..f.declared - TransportAt(f)
      BY <1>4, <2>2, Zenon DEF TransportFits
    <3>3. Payload(j) = Begin(j) + UdpHeader
      BY <1>2, <1>5, <2>2, Zenon
    <3>1. u \in UdpHeader..d - at /\ Payload(j) = at + UdpHeader
      BY <1>1, <1>14, <3>2, <3>3, Zenon
    <3>4. d = at + UdpHeader + l + m /\ l + m < 0
      BY <1>6, <1>8, <1>14, <3>1, Zenon
    <3>5. UdpHeader <= d - at
      BY <1>14, <3>1 DEF UdpHeader
    <3> QED
      BY <3>4, <3>5, NoRoom DEF UdpHeader
  <2> QED
    BY <1>2, <2>1, <2>2
<1>9. CASE j.shape.version = 4 /\ (j.shape.fragment # "none" \/ j.shape.ihl < Ip4Header)
  BY <1>2, <1>4, <1>9 DEF Ip4Fits, Ip4Whole, Ip4Header
<1>10. CASE j.shape.version = 6 /\ Len(j.shape.exts) >= MaxExtensions
  <2>1. Len(f.exts) < MaxExtensions
    BY <1>2, <1>4, <1>10 DEF Ip6Fits, ExtensionsFit
  <2>2. Len(j.shape.exts) \in Nat /\ MaxExtensions \in Nat
    BY LayoutAssumption DEF LayoutAssumption
  <2> QED
    BY <1>2, <1>10, <2>1, <2>2
<1>11. CASE /\ j.shape.version = 6
            /\ \E e \in ToSet(j.shape.exts) : e.kind = "fragment" \/ e.length < 8
  <2>1. PICK e \in ToSet(j.shape.exts) : e.kind = "fragment" \/ e.length < 8
    BY <1>11
  <2>2. e.kind # "fragment" /\ e.length >= 8
    BY <1>2, <1>4, <1>11, <2>1 DEF Ip6Fits, ExtensionsFit
  <2>3. PICK n \in DOMAIN j.shape.exts : e = j.shape.exts[n]
    BY <2>1 DEF ToSet
  <2>4. e.length \in Nat
    <3>1. n \in 1..Len(j.shape.exts)
      BY <2>3, LenProperties
    <3>2. j.shape.exts[n] \in [kind : STRING, length : Nat]
      BY <3>1, ElementOfSeq
    <3> QED
      BY <2>3, <3>2
  <2> QED
    BY <2>1, <2>2, <2>4
<1>12. CASE Tcp(j) /\ j.shape.doff < TcpHeader
  BY <1>2, <1>4, <1>12 DEF TransportFits, Tcp, TcpHeader
<1>13. CASE ~Tcp(j) /\ j.length + j.shape.udp_missing \notin 0..j.length + j.shape.missing
  <2>5. f.udp_length \in UdpHeader..f.declared - TransportAt(f)
    BY <1>2, <1>4, <1>13, Zenon DEF TransportFits, Tcp
  <2>1. u \in UdpHeader..d - at
    BY <1>14, <2>5, Zenon
  <2>2. Payload(j) = at + UdpHeader
    BY <1>1, <1>5, <1>13, <1>14, Zenon DEF Tcp
  <2>3. d = at + UdpHeader + l + m /\ u = UdpHeader + l + um
    BY <1>1, <1>6, <1>14, <2>2 DEF UdpHeader
  <2>4. l + um \notin 0..l + m
    BY <1>13, <1>14
  <2>6. UdpHeader \in Nat
    BY DEF UdpHeader
  <2> QED
    BY <2>1, <2>3, <2>4, <2>6, NoRoom
<1> QED
  BY <1>7, <1>8, <1>9, <1>10, <1>11, <1>12, <1>13 DEF Incomplete

(* A fragment, a frame cut short or one whose headers make no sense goes out byte for
   byte as it came, whatever the strategy: src/packet.cpp:433.                 *)
THEOREM PartsAreUntouched == Spec => []UntouchedUnlessWhole
<1>1. Init => UntouchedUnlessWhole
  <2> SUFFICES ASSUME Init, ~job.shape.whole PROVE out = <<Captured(job)>>
    BY DEF UntouchedUnlessWhole
  <2>1. out = Packets(job)
    BY DEF Init
  <2>2. PICK j \in Jobs : job = IF j.protocol = "tcp" THEN Hinted(j) ELSE j
    BY DEF Init
  <2>3. /\ j \in IF Tcp(j) THEN TcpJob(j) ELSE UdpJob(j)
        /\ j.shape.doff \in Nat /\ TransportAt(Captured(j)) \in Nat
        /\ {j.shape.missing, j.shape.udp_missing} \subseteq Int
    BY JobsAssumption DEF JobsAssumption
  <2>4. /\ j.shape.ihl \in Nat /\ j.shape.exts \in Seq([kind : STRING, length : Nat])
        /\ ~j.shape.whole => Incomplete(j)
    BY ShapesAssumption DEF ShapesAssumption
  <2>5. j.protocol \in {"tcp", "udp"} /\ j.length \in Nat
    BY <2>3 DEF Tcp, TcpJob, UdpJob
  <2>6. job.shape = j.shape /\ job.length = j.length /\ job.protocol = j.protocol
    <3>1. CASE Tcp(j)
      <4>1. j \in TcpJob(j)
        BY <2>3, <3>1
      <4> QED
        BY <2>2, <3>1, <4>1 DEF Tcp, TcpJob, Hinted
    <3>2. CASE ~Tcp(j)
      BY <2>2, <3>2 DEF Tcp
    <3> QED
      BY <3>1, <3>2
  <2>7. Incomplete(job)
    <3>1. Incomplete(j)
      BY <2>4, <2>6
    <3> QED
      BY <2>6, <3>1 DEF Incomplete, Tcp
  <2>8. Begin(job) \in Nat /\ Payload(job) \in Nat
    <3>1. TransportAt(Captured(j)) = Begin(j)
      BY CapturedKept, KeptFields
    <3>2. Begin(job) = Begin(j)
      BY <2>6 DEF Begin
    <3> QED
      BY <2>3, <2>6, <3>1, <3>2 DEF Payload, UdpHeader
  <2>9. ~Parses(Captured(job))
    BY <2>3, <2>4, <2>5, <2>6, <2>7, <2>8, IncompleteNeverParses
  <2> QED
    BY <2>1, <2>9 DEF Packets
<1>2. UntouchedUnlessWhole /\ [Next]_vars => UntouchedUnlessWhole'
  <2> SUFFICES ASSUME UntouchedUnlessWhole, [Next]_vars PROVE UntouchedUnlessWhole'
    OBVIOUS
  <2>1. UNCHANGED <<job, out>>
    BY DEF Next, Deliver, DeliverDatagram, Expire, vars
  <2> QED
    BY <2>1 DEF UntouchedUnlessWhole
<1> QED
  BY <1>1, <1>2, PTL DEF Spec

(* A byte is in the packet that carries its part, and in no other real one. *)
LEMMA OneCarrier ==
    ASSUME JobInv, Tcp(job), NEW n \in Offsets(job)
    PROVE  \E i \in Real : \A l \in Real : n \in Covered(l) <=> l = i
<1>1. TypedTcp(job) /\ out = Packets(job)
  BY DEF JobInv
<1>2. PICK parts, place : Carries(job, out, parts, place)
  BY <1>1, PacketsCarry
<1> DEFINE m == Len(parts)
<1>3. /\ Tiles(parts, job.length) /\ m \in Nat \ {0}
      /\ \A k \in 1..m : parts[k] \in Nat \X Nat
      /\ \A k, l \in 1..m : k < l => EndOf(parts[k]) <= parts[l][1]
  BY <1>2, ElementOfSeq DEF Carries, Tiles
<1>4. \A k \in 1..m : /\ place[k] \in Real
                      /\ Covered(place[k]) = parts[k][1]..EndOf(parts[k]) - 1
  <2> SUFFICES ASSUME NEW k \in 1..m
               PROVE  /\ place[k] \in Real
                      /\ Covered(place[k]) = parts[k][1]..EndOf(parts[k]) - 1
    OBVIOUS
  <2>1. place[k] \in DOMAIN out /\ out[place[k]].body = Body(FALSE, parts[k][1], parts[k][2])
    BY <1>2 DEF Carries, IsReal
  <2>2. /\ out[place[k]].body.trick = FALSE /\ out[place[k]].body.offset = parts[k][1]
        /\ out[place[k]].body.size = parts[k][2]
    BY <2>1 DEF Body
  <2>3. place[k] \in Real
    BY <2>1, <2>2 DEF Real
  <2>4. Covered(place[k]) = parts[k][1]..parts[k][1] + parts[k][2] - 1
    BY <2>2 DEF Covered
  <2>5. parts[k][1] + (parts[k][2] - 1) = EndOf(parts[k]) - 1
    BY <1>3 DEF EndOf
  <2> QED
    BY <2>3, <2>4, <2>5
<1>5. \A l \in Real : \E k \in 1..m : place[k] = l
  BY <1>2 DEF Carries, IsDecoy, Real
<1>6. PICK k \in 1..m : parts[k][1] <= n /\ n < EndOf(parts[k])
  BY <1>3 DEF Tiles, Offsets
<1> HIDE DEF m
<1>7. \A l \in 1..m : parts[l][1] \in Nat /\ EndOf(parts[l]) \in Nat
  BY <1>3 DEF EndOf
<1>8. n \in Nat
  BY <1>1 DEF Offsets, TypedTcp
<1>9. \A l \in 1..m : n \in parts[l][1]..EndOf(parts[l]) - 1 <=> l = k
  <2> SUFFICES ASSUME NEW l \in 1..m
               PROVE  n \in parts[l][1]..EndOf(parts[l]) - 1 <=> l = k
    OBVIOUS
  <2>1. CASE l < k
    <3>1. EndOf(parts[l]) <= parts[k][1]
      BY <1>3, <2>1
    <3> QED
      BY <1>6, <1>7, <1>8, <2>1, <3>1
  <2>2. CASE k < l
    <3>1. EndOf(parts[k]) <= parts[l][1]
      BY <1>3, <2>2
    <3> QED
      BY <1>6, <1>7, <1>8, <2>2, <3>1
  <2>3. CASE l = k
    BY <1>6, <1>7, <1>8, <2>3
  <2> QED
    BY <1>3, <2>1, <2>2, <2>3
<1>10. \A l \in Real : n \in Covered(l) <=> l = place[k]
  <2> SUFFICES ASSUME NEW l \in Real PROVE n \in Covered(l) <=> l = place[k]
    OBVIOUS
  <2>1. PICK a \in 1..m : place[a] = l
    BY <1>5
  <2>2. n \in Covered(l) <=> a = k
    BY <1>4, <1>9, <2>1
  <2>3. a = k <=> place[a] = place[k]
    BY <1>2 DEF Carries, m
  <2> QED
    BY <2>1, <2>2, <2>3
<1> QED
  BY <1>4, <1>10

(* Every byte of the payload is sent once, however the packet is cut
   (src/strategy.cpp): the real segments neither overlap nor leave a gap.      *)
THEOREM EachByteIsSentOnce == Spec => []SentOnce
<1>1. SafeInv => SentOnce
  <2> SUFFICES ASSUME SafeInv, Tcp(job), NEW n \in Offsets(job)
               PROVE  Cardinality({i \in Real : n \in Covered(i)}) = 1
    BY DEF SentOnce
  <2>1. PICK i \in Real : \A l \in Real : n \in Covered(l) <=> l = i
    BY OneCarrier DEF SafeInv
  <2>2. {l \in Real : n \in Covered(l)} = {i}
    BY <2>1
  <2> QED
    BY <2>2, FS_Singleton
<1> QED
  BY <1>1, WireSafe, PTL

-----------------------------------------------------------------------------
(* What the server has when all has arrived *)

(* A SYN that carries data is not cut: it is given to no splitting strategy. *)
SynIsWhole == Opening(job) => job.strategy \in WholeStrategies

WireInv == SafeInv /\ SynIsWhole /\ StreamInv

(* A real segment that is under way will be accepted for what it is. *)
LEMMA PendingIsAccepted ==
    ASSUME WireInv, Tcp(job), NEW i \in pending \cap Real
    PROVE  /\ Accepts(out[i])
           /\ Placed(out[i])..Placed(out[i]) + PayloadLength(out[i]) - 1 = Covered(i)
           /\ "FIN" \in out[i].flags <=> "FIN" \in job.flags /\ EndsPayload(i)
           /\ EndsPayload(i) => Placed(out[i]) + PayloadLength(out[i]) = job.length
<1>1. /\ TypedTcp(job) /\ out = Packets(job) /\ pending \subseteq DOMAIN out
      /\ job.shape.whole /\ got \subseteq Offsets(job) /\ open \in BOOLEAN
      /\ open <=> ~Opening(job) \/ Arrived # {}
  BY DEF WireInv, SafeInv, JobInv, PendingInv, TcpInv, StreamInv
<1>2. PICK parts, place : Carries(job, out, parts, place)
  BY <1>1, PacketsCarry
<1>3. \A l \in Real : \E k \in 1..Len(parts) : place[k] = l
  BY <1>2 DEF Carries, IsDecoy, Real
<1>4. PICK k \in 1..Len(parts) : place[k] = i
  BY <1>3
<1> DEFINE part == parts[k]
           p == out[i]
<1>5. /\ part \in Nat \X Nat /\ part[2] >= 1 /\ EndOf(part) <= job.length
      /\ IsReal(p, job, part)
  BY <1>2, <1>4, ElementOfSeq DEF Carries, Tiles
<1>6. open <=> ~Opening(job)
  <2> SUFFICES ASSUME Opening(job) PROVE Arrived = {}
    BY <1>1
  <2>1. Len(parts) = 1
    BY <1>2 DEF Carries, WireInv, SynIsWhole
  <2>2. \A l \in Real : l = i
    BY <1>3, <1>4, <2>1
  <2> QED
    BY <2>2 DEF Arrived
<1> HIDE DEF part, p
<1>7. Accepts(p) /\ Placed(p) = part[1] /\ PayloadLength(p) = part[2]
  BY <1>1, <1>5, <1>6, RealIsAccepted
<1>8. p.body.offset = part[1] /\ p.body.size = part[2]
  BY <1>5 DEF IsReal, Body
<1>9. Placed(p)..Placed(p) + PayloadLength(p) - 1 = Covered(i)
  BY <1>7, <1>8 DEF Covered, p
<1>10. EndsPayload(i) <=> part[1] + part[2] = job.length
  BY <1>8 DEF EndsPayload, p
<1>11. "FIN" \in p.flags <=> "FIN" \in job.flags /\ EndsPayload(i)
  BY <1>5, <1>10 DEF IsReal, EndOf
<1>12. EndsPayload(i) => Placed(p) + PayloadLength(p) = job.length
  BY <1>7, <1>10
<1> QED
  BY <1>7, <1>9, <1>11, <1>12 DEF p

LEMMA DeliverKeepsStream ==
    ASSUME WireInv, NEW i \in DOMAIN out, Deliver(i) PROVE StreamInv'
<1> DEFINE p == out[i]
           bytes == IF Accepts(p) THEN (Placed(p)..Placed(p) + PayloadLength(p) - 1) \ got
                    ELSE {}
<1>1. /\ Tcp(job) /\ i \in pending /\ (p.body.trick => job.badseq \/ job.badsum)
      /\ pending' = pending \ {i} /\ open' = (open \/ Accepts(p))
      /\ got' = got \cup (bytes \cap Offsets(job))
      /\ fin' = IF Accepts(p) /\ "FIN" \in p.flags THEN Placed(p) + PayloadLength(p) ELSE fin
      /\ job' = job /\ out' = out
  BY DEF Deliver
<1>2. /\ TypedTcp(job) /\ pending \subseteq DOMAIN out /\ job.shape.whole
      /\ got \subseteq Offsets(job) /\ open \in BOOLEAN
  BY <1>1 DEF WireInv, SafeInv, JobInv, PendingInv, TcpInv
<1>3. /\ \A n \in Offsets(job) : n \in got <=> \E l \in Arrived : n \in Covered(l)
      /\ open <=> ~Opening(job) \/ Arrived # {}
      /\ fin = IF "FIN" \in job.flags /\ (\E l \in Arrived : EndsPayload(l))
               THEN job.length ELSE NoFin
  BY <1>1, <1>2 DEF WireInv, StreamInv
<1> DEFINE After == Real \ (pending \ {i})
<1>4. SUFFICES /\ \A n \in Offsets(job) : n \in got' <=> \E l \in After : n \in Covered(l)
               /\ open' <=> ~Opening(job) \/ After # {}
               /\ fin' = IF "FIN" \in job.flags /\ (\E l \in After : EndsPayload(l))
                         THEN job.length ELSE NoFin
  <2>1. Arrived' = After /\ Tcp(job') /\ job'.shape.whole
    BY <1>1, <1>2 DEF Arrived, Real
  <2>2. Offsets(job)' = Offsets(job) /\ Opening(job)' = Opening(job)
    BY <1>1
  <2>3. \A l : Covered(l)' = Covered(l) /\ (EndsPayload(l)' <=> EndsPayload(l))
    BY <1>1 DEF Covered, EndsPayload
  <2> HIDE DEF After
  <2> QED
    BY <1>1, <2>1, <2>2, <2>3 DEF StreamInv
<1>5. CASE p.body.trick = TRUE
  <2>1. ~Accepts(p)
    <3>1. IsDecoy(p, job)
      BY <1>1, <1>2, <1>5, EachPacket DEF WireInv, SafeInv
    <3> HIDE DEF p
    <3> QED
      BY <1>1, <1>2, <1>5, <3>1, DecoyIsRefused
  <2>2. i \notin Real
    BY <1>5 DEF Real
  <2>3. After = Arrived
    BY <2>2 DEF Arrived
  <2>4. got' = got /\ fin' = fin
    BY <1>1, <2>1
  <2>5. open' = open
    <3> HIDE DEF p, bytes
    <3> QED
      BY <1>1, <1>2, <2>1, Zenon
  <2> HIDE DEF After
  <2> QED
    BY <1>3, <2>3, <2>4, <2>5
<1>6. CASE p.body.trick = FALSE
  <2>1. i \in pending \cap Real
    BY <1>1, <1>6 DEF Real
  <2>2. /\ Accepts(p) /\ Placed(p)..Placed(p) + PayloadLength(p) - 1 = Covered(i)
        /\ "FIN" \in p.flags <=> "FIN" \in job.flags /\ EndsPayload(i)
        /\ EndsPayload(i) => Placed(p) + PayloadLength(p) = job.length
    BY <1>1, <2>1, PendingIsAccepted
  <2>3. After = Arrived \cup {i}
    BY <2>1 DEF Arrived
  <2>4. got' = got \cup (Covered(i) \cap Offsets(job))
    BY <1>1, <2>2
  <2> HIDE DEF After, p, bytes
  <2>5. open' = TRUE
    BY <1>1, <2>2, Zenon
  <2>6. \A n \in Offsets(job) : n \in got' <=> \E l \in After : n \in Covered(l)
    BY <1>3, <2>3, <2>4
  <2>7. fin' = IF "FIN" \in job.flags /\ (\E l \in After : EndsPayload(l))
               THEN job.length ELSE NoFin
    <3>1. fin' = IF "FIN" \in job.flags /\ EndsPayload(i) THEN job.length ELSE fin
      BY <1>1, <2>2
    <3>2. (\E l \in After : EndsPayload(l)) <=> EndsPayload(i) \/ \E l \in Arrived : EndsPayload(l)
      BY <2>3
    <3> QED
      BY <1>3, <3>1, <3>2
  <2> QED
    BY <2>3, <2>5, <2>6, <2>7
<1>7. p.body.trick \in BOOLEAN
  BY <1>1, EachPacket DEF WireInv, SafeInv
<1> QED
  BY <1>5, <1>6, <1>7

LEMMA NextStream == WireInv /\ [Next]_vars => StreamInv'
<1> SUFFICES ASSUME WireInv, [Next]_vars PROVE StreamInv'
  OBVIOUS
<1>1. ASSUME job' = job, out' = out, got' = got, open' = open, fin' = fin,
             Real \ pending' = Arrived
      PROVE  StreamInv'
  <2>1. Arrived' = Arrived
    BY <1>1 DEF Arrived, Real
  <2>2. \A l : Covered(l)' = Covered(l) /\ (EndsPayload(l)' <=> EndsPayload(l))
    BY <1>1 DEF Covered, EndsPayload
  <2> QED
    BY <1>1, <2>1, <2>2 DEF WireInv, StreamInv
<1>2. ASSUME NEW i \in DOMAIN out, Expire(i) PROVE StreamInv'
  <2>1. /\ out[i].body.trick /\ pending' = pending \ {i} /\ job' = job /\ out' = out
        /\ got' = got /\ open' = open /\ fin' = fin
    BY <1>2 DEF Expire, server
  <2>2. i \notin Real
    BY <2>1 DEF Real
  <2>3. Real \ pending' = Arrived
    BY <2>1, <2>2 DEF Arrived
  <2> QED
    BY <1>1, <2>1, <2>3
<1>3. ASSUME NEW i \in DOMAIN out, DeliverDatagram(i) PROVE StreamInv'
  BY <1>3 DEF DeliverDatagram, StreamInv
<1>4. CASE UNCHANGED vars
  BY <1>1, <1>4 DEF vars, server, Arrived
<1>5. CASE Next
  <2>1. PICK i \in DOMAIN out : Deliver(i) \/ DeliverDatagram(i) \/ Expire(i)
    BY <1>5 DEF Next
  <2> QED
    BY <1>2, <1>3, <2>1, DeliverKeepsStream
<1> QED
  BY <1>4, <1>5

LEMMA WireInvariant ==
    ASSUME \A j \in Jobs : Opening(j) => j.strategy \in WholeStrategies
    PROVE  Spec => []WireInv
<1>1. Init => WireInv
  <2> SUFFICES ASSUME Init PROVE WireInv
    OBVIOUS
  <2>1. /\ pending = IF job.shape.whole THEN DOMAIN out ELSE {}
        /\ open = ~Opening(job) /\ got = {} /\ fin = NoFin
    BY DEF Init
  <2>2. job.shape.whole => Arrived = {}
    BY <2>1 DEF Arrived, Real
  <2>3. open <=> ~Opening(job)
    BY <2>1, Zenon
  <2>4. StreamInv
    BY <2>1, <2>2, <2>3 DEF StreamInv
  <2>5. SynIsWhole
    <3>1. PICK j \in Jobs : job = IF j.protocol = "tcp" THEN Hinted(j) ELSE j
      BY DEF Init
    <3>2. CASE ~Tcp(j)
      BY <3>1, <3>2 DEF Tcp, Opening, SynIsWhole
    <3>3. CASE Tcp(j)
      <4>1. j \in TcpJob(j) /\ job = Hinted(j)
        BY <3>1, <3>3, JobsAssumption DEF JobsAssumption, Tcp
      <4>2. job.protocol = j.protocol /\ job.flags = j.flags /\ job.strategy = j.strategy
        BY <4>1 DEF Hinted, TcpJob
      <4> QED
        BY <3>1, <4>2 DEF Tcp, Opening, SynIsWhole
    <3> QED
      BY <3>2, <3>3
  <2> QED
    BY <2>4, <2>5, InitSafe DEF WireInv
<1>2. WireInv /\ [Next]_vars => WireInv'
  <2> SUFFICES ASSUME WireInv, [Next]_vars PROVE WireInv'
    OBVIOUS
  <2>1. job' = job
    BY DEF Next, Deliver, DeliverDatagram, Expire, vars
  <2>2. SynIsWhole'
    BY <2>1 DEF WireInv, SynIsWhole
  <2> QED
    BY <2>2, NextSafe, NextStream DEF WireInv
<1> QED
  BY <1>1, <1>2, PTL DEF Spec

(* "The server reassembles the stream normally; only the order and the boundaries
   change" (include/zc/strategy.hpp:8-9).  A SYN with data is excepted: its flag
   would stay on every piece it is cut into.                                   *)
THEOREM PayloadIsRebuilt ==
    ASSUME \A j \in Jobs : Opening(j) => j.strategy \in WholeStrategies
    PROVE  Spec => []StreamComplete
<1>1. WireInv => StreamComplete
  <2> SUFFICES ASSUME WireInv, Tcp(job), Followed
               PROVE  /\ got = Offsets(job)
                      /\ fin = (IF "FIN" \in job.flags THEN job.length ELSE NoFin)
    BY DEF StreamComplete
  <2>1. Arrived = Real /\ job.shape.whole
    BY DEF Followed, Arrived
  <2>2. /\ JobInv /\ got \subseteq Offsets(job) /\ job.length \in Nat \ {0}
        /\ \A n \in Offsets(job) : n \in got <=> \E i \in Real : n \in Covered(i)
        /\ fin = IF "FIN" \in job.flags /\ (\E i \in Real : EndsPayload(i))
                 THEN job.length ELSE NoFin
    BY <2>1 DEF WireInv, SafeInv, JobInv, TcpInv, StreamInv, TypedTcp
  <2>3. \A n \in Offsets(job) : n \in got
    BY <2>2, OneCarrier
  <2>4. \E i \in Real : EndsPayload(i)
    <3>1. TypedTcp(job) /\ out = Packets(job)
      BY <2>2 DEF JobInv
    <3>2. PICK parts, place : Carries(job, out, parts, place)
      BY <3>1, PacketsCarry
    <3>3. job.length - 1 \in 0..job.length - 1
      BY <2>2
    <3>4. PICK k \in 1..Len(parts) : job.length - 1 < EndOf(parts[k])
      BY <3>2, <3>3 DEF Carries, Tiles
    <3>5. /\ parts[k] \in Nat \X Nat /\ EndOf(parts[k]) <= job.length
          /\ IsReal(out[place[k]], job, parts[k]) /\ place[k] \in DOMAIN out
      BY <3>2, ElementOfSeq DEF Carries, Tiles
    <3>6. EndOf(parts[k]) = job.length
      BY <2>2, <3>4, <3>5 DEF EndOf
    <3>7. place[k] \in Real /\ EndsPayload(place[k])
      BY <3>5, <3>6 DEF IsReal, Real, EndsPayload, EndOf, Body
    <3> QED
      BY <3>7
  <2> QED
    BY <2>2, <2>3, <2>4
<1> QED
  BY <1>1, WireInvariant, PTL

-----------------------------------------------------------------------------
(* Datagrams *)

(* The datagram that is not a decoy: no larger than one can be, and with no less of
   the payload than it is trimmed to.                                          *)
IsDatagram(p, j) ==
    /\ p.body.trick = FALSE /\ p.port = "client" /\ p.size <= MaxDatagram
    /\ j.shape.whole =>
         /\ Sound(p) /\ PayloadLength(p) \in Nat \ {0}
         /\ j.delta >= 0 => PayloadLength(p) >= j.length
         /\ j.delta <= 0 => PayloadLength(p) <= j.length

CarriesDatagram(j, packets, i) ==
    /\ i \in DOMAIN packets /\ IsDatagram(packets[i], j)
    /\ \A l \in DOMAIN packets :
         l # i => packets[l].body.trick = TRUE /\ packets[l].port = "decoy"

LEMMA CapturedIsDatagram ==
    ASSUME NEW j, TypedUdp(j) PROVE IsDatagram(Captured(j), j)
<1> DEFINE f == Captured(j)
<1>1. /\ Kept(f, j) /\ f.size = Payload(j) + j.length
      /\ f.declared = f.size + j.shape.missing
      /\ f.udp_length = UdpHeader + j.length + j.shape.udp_missing
      /\ f.port = "client" /\ f.body = Body(FALSE, 0, j.length)
      /\ f.header_sum = HeaderContents(f) /\ f.sum = Contents(f)
  BY CapturedKept
<1> HIDE DEF f
<1>2. f.proto = "udp" /\ f.body.trick = FALSE
  BY <1>1, KeptFields DEF TypedUdp, Body
<1>3. j.shape.whole => Sound(f) /\ PayloadLength(f) = j.length
  BY <1>1, <1>2 DEF Sound, HeaderSumRight, SumRight, PayloadLength, TypedUdp, UdpHeader
<1>4. f.size <= MaxDatagram /\ j.length \in Nat \ {0} /\ j.length >= j.length
  BY <1>1 DEF TypedUdp
<1>5. IsDatagram(f, j)
  BY <1>1, <1>2, <1>3, <1>4 DEF IsDatagram
<1> QED
  BY <1>5 DEF f

LEMMA RealIsDatagram ==
    ASSUME NEW j, TypedUdp(j) PROVE IsDatagram(UdpReal(j), j)
<1> DEFINE f == Captured(j)
           size == UdpSize(j)
           body == Body(FALSE, 0, size - Payload(j))
           edited == WithBody(f, body)
           g == Fixup(edited)
<1>1. Kept(f, j) /\ f.size = Payload(j) + j.length /\ f.port = "client"
  BY CapturedKept
<1>2. PayloadAt(f) = Payload(j)
  BY <1>1, KeptFields
<1>3. UdpReal(j) = IF j.delta # 0 /\ Parses(edited) THEN g ELSE f
  BY <1>2 DEF UdpReal
<1>4. /\ Payload(j) \in Nat /\ j.length \in Nat \ {0} /\ j.delta \in Int
      /\ Payload(j) + j.length <= MaxDatagram /\ MaxDatagram \in Nat
  BY LayoutAssumption DEF TypedUdp, LayoutAssumption
<1>5. /\ size \in Nat /\ size <= MaxDatagram /\ size - Payload(j) \in Nat \ {0}
      /\ j.delta >= 0 => size - Payload(j) >= j.length
      /\ j.delta <= 0 => size - Payload(j) <= j.length
  <2>1. size = IF j.delta > 0
               THEN Payload(j) + j.length
                      + Least(j.delta, MaxDatagram - (Payload(j) + j.length))
               ELSE (Payload(j) + j.length) - Least(-j.delta, j.length - 1)
    BY <1>1 DEF UdpSize
  <2> HIDE DEF size
  <2> QED
    BY <1>4, <2>1 DEF Least
<1>6. body.trick = FALSE /\ body.size = size - Payload(j)
  BY DEF Body
<1> HIDE DEF f, size, body
<1>7. /\ Kept(edited, j) /\ edited.size = Payload(j) + body.size
      /\ edited.declared = edited.size /\ edited.body = body /\ edited.port = f.port
  BY <1>1, WithBodyKept
<1> HIDE DEF edited
<1>8. /\ Kept(g, j) /\ g.size = edited.size /\ g.declared = edited.declared
      /\ g.body = edited.body /\ g.port = edited.port
      /\ j.protocol = "udp" => g.udp_length = edited.declared - Begin(j)
      /\ g.header_sum = HeaderContents(g) /\ g.sum = Contents(g)
  BY <1>7, FixupKept
<1> HIDE DEF g
<1>9. g.proto = "udp" /\ Payload(j) = Begin(j) + UdpHeader
  BY <1>8, KeptFields DEF TypedUdp, Payload
<1>10. g.size = size /\ g.declared = size
  BY <1>4, <1>5, <1>6, <1>7, <1>8
<1>11. Sound(g)
  BY <1>5, <1>8, <1>10 DEF Sound, HeaderSumRight, SumRight
<1>12. PayloadLength(g) = size - Payload(j)
  <2>1. g.udp_length = size - Begin(j)
    BY <1>7, <1>8, <1>10 DEF TypedUdp
  <2>2. PayloadLength(g) = g.udp_length - UdpHeader
    BY <1>9 DEF PayloadLength
  <2>3. Begin(j) \in Nat
    BY DEF TypedUdp
  <2> QED
    BY <1>4, <1>5, <1>9, <2>1, <2>2, <2>3 DEF UdpHeader
<1>13. IsDatagram(g, j)
  BY <1>1, <1>5, <1>6, <1>7, <1>8, <1>10, <1>11, <1>12 DEF IsDatagram
<1> QED
  BY <1>3, <1>13, CapturedIsDatagram DEF f

LEMMA DecoyIsAside ==
    ASSUME NEW j PROVE UdpDecoy(j).body.trick = TRUE /\ UdpDecoy(j).port = "decoy"
<1> DEFINE f == Captured(j)
           body == Body(TRUE, 0, DecoySize(j))
           faked == [f EXCEPT !.size = PayloadAt(f) + DecoySize(j), !.port = "decoy",
                              !.body = body]
           limited == SetHopLimit(faked, j.ttl)
<1>1. Kept(f, j)
  BY CapturedKept
<1>2. body.trick = TRUE
  BY DEF Body
<1> HIDE DEF f, body
<1>3. Kept(faked, j) /\ faked.port = "decoy" /\ faked.body = body
  BY <1>1 DEF Kept
<1>4. UdpDecoy(j) = Fixup(limited)
  BY DEF UdpDecoy, f, body
<1> HIDE DEF faked
<1>5. Kept(limited, j) /\ limited.port = "decoy" /\ limited.body = body
  BY <1>3, LimitKept
<1> HIDE DEF limited
<1> QED
  BY <1>2, <1>4, <1>5, FixupKept

LEMMA DatagramIsSent ==
    ASSUME NEW j, TypedUdp(j) PROVE \E i : CarriesDatagram(j, Packets(j), i)
<1>1. Packets(j) = IF ~Parses(Captured(j)) THEN <<Captured(j)>>
                   ELSE Append(UdpDecoys(j), UdpReal(j))
  BY DEF Packets, UdpPackets, TypedUdp
<1>2. CASE ~Parses(Captured(j))
  <2>1. DOMAIN <<Captured(j)>> = 1..1 /\ <<Captured(j)>>[1] = Captured(j)
    OBVIOUS
  <2>2. CarriesDatagram(j, <<Captured(j)>>, 1)
    BY <2>1, CapturedIsDatagram DEF CarriesDatagram
  <2> QED
    BY <1>1, <1>2, <2>2
<1>3. CASE Parses(Captured(j))
  <2> DEFINE decoys == UdpDecoys(j)
             S == {UdpDecoy(j), UdpReal(j)}
             all == Append(decoys, UdpReal(j))
             wanted == j.initial /\ j.ttl > 0 /\ j.length + DecoySize(j) <= MaxDatagram
             n == IF wanted THEN Most(1, j.repeats) ELSE 0
  <2>1. decoys = [l \in 1..n |-> UdpDecoy(j)] /\ n \in Nat
    BY DEF UdpDecoys, Most, TypedUdp
  <2> HIDE DEF n, decoys
  <2>2. decoys \in [1..n -> S] /\ \A l \in 1..n : decoys[l] = UdpDecoy(j)
    BY <2>1
  <2>3. \A s \in [1..n -> S] : s \in Seq(S) /\ Len(s) = n
    BY <2>1
  <2>4. /\ all \in Seq(S) /\ Len(all) = n + 1 /\ all[n + 1] = UdpReal(j)
        /\ \A l \in 1..n : all[l] = UdpDecoy(j)
    BY <2>2, <2>3, AppendProperties
  <2> HIDE DEF all
  <2>5. DOMAIN all = 1..n + 1
    BY <2>4
  <2>6. \A l \in DOMAIN all : l # n + 1 => l \in 1..n
    BY <2>1, <2>5
  <2>7. n + 1 \in DOMAIN all
    BY <2>1, <2>5
  <2>8. CarriesDatagram(j, all, n + 1)
    BY <2>4, <2>6, <2>7, DecoyIsAside, RealIsDatagram DEF CarriesDatagram
  <2> QED
    BY <1>1, <1>3, <2>8 DEF all, decoys
<1> QED
  BY <1>2, <1>3

UdpInv == SafeInv /\ DatagramInv

LEMMA DatagramStep == UdpInv /\ [Next]_vars => DatagramInv'
<1> SUFFICES ASSUME UdpInv, [Next]_vars PROVE DatagramInv'
  OBVIOUS
<1>1. /\ out = Packets(job) /\ pending \subseteq DOMAIN out
      /\ ~job.shape.whole => pending = {}
      /\ ~Tcp(job) => TypedUdp(job)
      /\ ~Tcp(job) /\ job.shape.whole =>
            \A n : n \in got <=> \E i \in Arrived : n \in 0..PayloadLength(out[i]) - 1
  BY DEF UdpInv, SafeInv, JobInv, PendingInv, DatagramInv
<1>2. ASSUME job' = job, out' = out, got' = got, Real \ pending' = Arrived
      PROVE  DatagramInv'
  <2>1. Arrived' = Arrived
    BY <1>2 DEF Arrived, Real
  <2> QED
    BY <1>1, <1>2, <2>1 DEF DatagramInv
<1>3. ASSUME NEW i \in DOMAIN out, Expire(i) PROVE DatagramInv'
  <2>1. /\ out[i].body.trick /\ pending' = pending \ {i} /\ job' = job /\ out' = out
        /\ got' = got
    BY <1>3 DEF Expire, server
  <2>2. i \notin Real
    BY <2>1 DEF Real
  <2>3. Real \ pending' = Arrived
    BY <2>1, <2>2 DEF Arrived
  <2> QED
    BY <1>2, <2>1, <2>3
<1>4. ASSUME NEW i \in DOMAIN out, Deliver(i) PROVE DatagramInv'
  BY <1>4 DEF Deliver, DatagramInv
<1>5. ASSUME NEW i \in DOMAIN out, DeliverDatagram(i) PROVE DatagramInv'
  <2>1. /\ ~Tcp(job) /\ i \in pending /\ pending' = pending \ {i}
        /\ got' = IF out[i].port = "client" /\ Sound(out[i])
                  THEN got \cup 0..PayloadLength(out[i]) - 1 ELSE got
        /\ job' = job /\ out' = out
    BY <1>5 DEF DeliverDatagram
  <2>2. PICK last : CarriesDatagram(job, out, last)
    BY <1>1, <2>1, DatagramIsSent
  <2>3. job.shape.whole
    BY <1>1, <2>1
  <2>4. CASE i = last
    <3>1. /\ out[i].port = "client" /\ Sound(out[i])
          /\ i \in Real
      BY <2>2, <2>3, <2>4 DEF CarriesDatagram, IsDatagram, Real
    <3>2. Arrived' = Arrived \cup {i}
      BY <1>1, <2>1, <3>1 DEF Arrived, Real
    <3> QED
      BY <1>1, <2>1, <2>3, <3>1, <3>2 DEF DatagramInv
  <2>5. CASE i # last
    <3>1. out[i].port = "decoy" /\ i \notin Real
      BY <2>2, <2>5 DEF CarriesDatagram, Real
    <3>2. Real \ pending' = Arrived
      BY <2>1, <3>1 DEF Arrived
    <3>3. got' = got
      BY <2>1, <3>1
    <3> QED
      BY <1>2, <2>1, <3>2, <3>3
  <2> QED
    BY <2>4, <2>5
<1>6. CASE UNCHANGED vars
  BY <1>2, <1>6 DEF vars, server, Arrived
<1>7. CASE Next
  <2>1. PICK i \in DOMAIN out : Deliver(i) \/ DeliverDatagram(i) \/ Expire(i)
    BY <1>7 DEF Next
  <2> QED
    BY <1>3, <1>4, <1>5, <2>1
<1> QED
  BY <1>6, <1>7

(* A datagram leaves once, whole unless it is trimmed, which "must never reduce the
   payload to nothing" (src/strategy.cpp:423), and no larger than one can be.  *)
THEOREM DatagramArrivesWhole == Spec => []DatagramSurvives
<1>1. Init => UdpInv
  <2> SUFFICES ASSUME Init PROVE DatagramInv
    BY InitSafe DEF UdpInv
  <2>1. got = {} /\ (job.shape.whole => pending = DOMAIN out)
    BY DEF Init
  <2>2. job.shape.whole => Arrived = {}
    BY <2>1 DEF Arrived, Real
  <2> QED
    BY <2>1, <2>2 DEF DatagramInv
<1>2. UdpInv /\ [Next]_vars => UdpInv'
  BY NextSafe, DatagramStep DEF UdpInv
<1>3. UdpInv => DatagramSurvives
  <2> SUFFICES ASSUME UdpInv, ~Tcp(job), Followed
               PROVE  /\ Cardinality(Real) = 1
                      /\ 0 \in got /\ \A i \in Real : out[i].size <= MaxDatagram
                      /\ job.delta >= 0 => Offsets(job) \subseteq got
                      /\ job.delta <= 0 => got \subseteq Offsets(job)
    BY DEF DatagramSurvives
  <2>1. /\ job.shape.whole /\ Arrived = Real /\ TypedUdp(job) /\ out = Packets(job)
        /\ \A n : n \in got <=> \E i \in Arrived : n \in 0..PayloadLength(out[i]) - 1
    BY DEF UdpInv, SafeInv, JobInv, DatagramInv, Followed, Arrived
  <2>2. PICK last : CarriesDatagram(job, out, last)
    BY <2>1, DatagramIsSent
  <2> DEFINE length == PayloadLength(out[last])
  <2>3. /\ out[last].size <= MaxDatagram /\ length \in Nat \ {0}
        /\ job.delta >= 0 => length >= job.length
        /\ job.delta <= 0 => length <= job.length
    BY <2>1, <2>2 DEF CarriesDatagram, IsDatagram
  <2>4. Real = {last}
    BY <2>2 DEF CarriesDatagram, IsDatagram, Real
  <2>5. \A n : n \in got <=> n \in 0..length - 1
    BY <2>1, <2>4
  <2> HIDE DEF length
  <2>6. Cardinality(Real) = 1
    BY <2>4, FS_Singleton
  <2> QED
    BY <2>1, <2>3, <2>4, <2>5, <2>6 DEF Offsets, TypedUdp
<1> QED
  BY <1>1, <1>2, <1>3, PTL DEF Spec

-----------------------------------------------------------------------------
(* Walks: from every place a parser goes on to one further behind, or halts. *)

Goes(w, from, end, V, next, step, first) ==
    /\ w \in [from..end -> V]
    /\ \A p \in from..end :
        w[p] = step[p][IF next[p] \in p + 1..end THEN w[next[p]] ELSE first]

(* There is a function that holds what is found from every place on. *)
LEMMA WalkRuns ==
    ASSUME NEW from \in Int, NEW end \in Int, from <= end, NEW V, NEW first \in V,
           NEW next \in [from..end -> Int], NEW step \in [from..end -> [V -> V]]
    PROVE  \E w : Goes(w, from, end, V, next, step, first)
<1> DEFINE Runs(n) == \E w : Goes(w, end + 1 - n, end, V, next, step, first)
           Bad == {n \in 0..end + 1 - from : ~Runs(n)}
<1>1. SUFFICES ASSUME Bad # {} PROVE FALSE
  <2>1. end + 1 - from \in 0..end + 1 - from /\ end + 1 - (end + 1 - from) = from
    OBVIOUS
  <2>2. Runs(end + 1 - from)
    BY <1>1, <2>1
  <2> QED
    BY <2>1, <2>2
<1>2. PICK n \in Bad : \A i \in Bad : n <= i
  <2>1. Bad \in SUBSET Nat
    OBVIOUS
  <2> HIDE DEF Bad
  <2> QED
    BY <1>1, <2>1, LeastElement
<1>3. n \in 0..end + 1 - from /\ ~Runs(n)
  BY <1>2
<1>4. n # 0
  <2>1. 0 \notin Bad
    <3>1. end + 1 - 0 = end + 1 /\ end + 1..end = {}
      OBVIOUS
    <3> DEFINE w == [p \in {} |-> first]
    <3>2. w \in [{} -> V]
      OBVIOUS
    <3>3. Goes(w, end + 1, end, V, next, step, first)
      BY <3>1, <3>2 DEF Goes
    <3> QED
      BY <3>1, <3>3
  <2> QED
    BY <1>2, <2>1
<1>5. Runs(n - 1)
  <2>1. n - 1 \in 0..end + 1 - from /\ ~(n <= n - 1)
    BY <1>3, <1>4
  <2> HIDE DEF Runs
  <2> QED
    BY <1>2, <2>1
<1> DEFINE lo == end + 1 - n
<1>6. lo \in from..end /\ end + 1 - (n - 1) = lo + 1
  BY <1>3, <1>4
<1>7. PICK w : Goes(w, lo + 1, end, V, next, step, first)
  BY <1>5, <1>6
<1> HIDE DEF Bad, lo
<1> DEFINE rest == IF next[lo] \in lo + 1..end THEN w[next[lo]] ELSE first
           more == [p \in lo..end |-> IF p = lo THEN step[lo][rest] ELSE w[p]]
<1>8. rest \in V
  BY <1>7 DEF Goes
<1>9. step[lo][rest] \in V
  BY <1>6, <1>8
<1>10. \A p \in lo..end : p # lo => p \in lo + 1..end
  BY <1>6
<1>11. more \in [lo..end -> V]
  BY <1>7, <1>9, <1>10 DEF Goes
<1>12. ASSUME NEW p \in lo..end
       PROVE  more[p] = step[p][IF next[p] \in p + 1..end THEN more[next[p]] ELSE first]
  <2>1. \A q \in p + 1..end : q \in lo..end /\ q # lo
    BY <1>6
  <2>2. next[p] \in p + 1..end => more[next[p]] = w[next[p]]
    BY <2>1
  <2>3. CASE p = lo
    BY <2>2, <2>3
  <2>4. CASE p # lo
    BY <1>7, <1>10, <2>2, <2>4 DEF Goes
  <2> QED
    BY <2>3, <2>4
<1>13. Goes(more, lo, end, V, next, step, first)
  BY <1>11, <1>12 DEF Goes
<1> QED
  BY <1>3, <1>13 DEF lo

(* What holds of a place if it holds of all behind it holds of every place. *)
LEMMA WalkKeeps ==
    ASSUME NEW from \in Int, NEW end \in Int, NEW GoodAt,
           \A p \in from..end : (\A q \in p + 1..end : q \in GoodAt) => p \in GoodAt
    PROVE  \A p \in from..end : p \in GoodAt
<1> DEFINE Bad == {n \in Nat : end - n \in from..end /\ end - n \notin GoodAt}
<1>1. SUFFICES ASSUME Bad # {} PROVE FALSE
  <2>1. ASSUME NEW p \in from..end PROVE p \in GoodAt
    <3>1. end - p \in Nat /\ end - (end - p) = p
      OBVIOUS
    <3> QED
      BY <1>1, <3>1
  <2> QED
    BY <2>1
<1>2. PICK n \in Bad : \A i \in Bad : n <= i
  <2>1. Bad \in SUBSET Nat
    OBVIOUS
  <2> HIDE DEF Bad
  <2> QED
    BY <1>1, <2>1, LeastElement
<1> DEFINE p == end - n
<1>3. n \in Nat /\ p \in from..end /\ p \notin GoodAt
  BY <1>2
<1>4. ASSUME NEW q \in p + 1..end PROVE q \in GoodAt
  <2>1. end - q \in Nat /\ end - (end - q) = q /\ ~(n <= end - q) /\ q \in from..end
    BY <1>3
  <2> QED
    BY <1>2, <2>1
<1> QED
  BY <1>3, <1>4

-----------------------------------------------------------------------------
(* TLS: a name is an entry of a list, in a server_name extension. *)

Hints == [ok : BOOLEAN, name : [offset : Nat, length : Nat]]

(* What a walk that stops yields. *)
LEMMA HintsTyped ==
    /\ Malformed \in Hints /\ Malformed.name = NoName
    /\ Walked(TRUE, NoName) \in Hints /\ Walked(TRUE, NoName).name = NoName
    /\ Walked(TRUE, NoName).ok = TRUE /\ Malformed.ok = FALSE
    /\ NoName \in [offset : Nat, length : Nat]
BY DEF Malformed, Walked, NoName, Hints

(* What a walk yields that goes on: the first name there is. *)
LEMMA ThenTyped ==
    ASSUME NEW name \in [offset : Nat, length : Nat], NEW rest \in Hints
    PROVE  /\ Then(name, rest) \in Hints
           /\ Then(name, rest).name \in {NoName, name, rest.name}
BY DEF Then, FirstOf, Malformed, Walked, NoName, Hints

(* A byte inside the payload. *)
LEMMA UnitIsNat ==
    ASSUME NEW d \in Seq(Nat), NEW o \in 0..Len(d) - 1
    PROVE  At(d, o) \in Nat
<1>1. Len(d) \in Nat /\ o + 1 \in 1..Len(d)
  OBVIOUS
<1> QED
  BY <1>1 DEF At

(* An entry of a server name list. *)
Listed(d, from, end, name) ==
    \E q \in from..end :
        /\ At(d, q + 1) \in Nat /\ q + 2 + At(d, q + 1) <= end
        /\ At(d, q) = HostName /\ name = Place(q + 2, At(d, q + 1))

IsNameWalk(d, from, end, w) ==
    w = [q \in from..end |->
          IF ~Have(q, 2, end) THEN Walked(TRUE, NoName)
          ELSE LET length == At(d, q + 1)
               IN  IF ~Have(q + 2, length, end) THEN Malformed
                   ELSE Then(IF At(d, q) = HostName /\ length > 0 THEN Place(q + 2, length)
                             ELSE NoName, w[q + 2 + length])]

(* The place that the entry at q gives, and the entry behind it. *)
EntryName(d, q) ==
    IF At(d, q) = HostName /\ At(d, q + 1) > 0 THEN Place(q + 2, At(d, q + 1)) ELSE NoName

(* An entry gives a place, or no name. *)
LEMMA EntryTyped ==
    ASSUME NEW d \in Seq(Nat), NEW q \in Nat, q + 2 <= Len(d)
    PROVE  /\ At(d, q + 1) \in Nat
           /\ EntryName(d, q) \in [offset : Nat, length : Nat]
<1>1. q + 1 \in 0..Len(d) - 1
  OBVIOUS
<1>2. At(d, q + 1) \in Nat
  BY <1>1, UnitIsNat
<1> QED
  BY <1>2 DEF EntryName, Place, NoName

(* parse_server_name's loop over a list, from every place in it. *)
LEMMA NameWalkExists ==
    ASSUME NEW d \in Seq(Nat), NEW from \in Nat, NEW end \in Nat, from <= end, end <= Len(d)
    PROVE  \E w \in [from..end -> Hints] : IsNameWalk(d, from, end, w)
<1> DEFINE V == Hints
           next == [q \in from..end |-> IF Have(q, 2, end) THEN q + 2 + At(d, q + 1) ELSE q]
           Found1(q, v) ==
             IF ~Have(q, 2, end) THEN Walked(TRUE, NoName)
             ELSE IF ~Have(q + 2, At(d, q + 1), end) THEN Malformed
             ELSE Then(EntryName(d, q), v)
           At1(q) == [v \in V |-> Found1(q, v)]
           step == [q \in from..end |-> At1(q)]
<1>1. \A q \in from..end : Have(q, 2, end) =>
        At(d, q + 1) \in Nat /\ EntryName(d, q) \in [offset : Nat, length : Nat]
  BY EntryTyped DEF Have
<1>2. \A q \in from..end, v \in V : Found1(q, v) \in V
  BY <1>1, HintsTyped, ThenTyped
<1>3. step \in [from..end -> [V -> V]]
  <2> HIDE DEF Found1, V
  <2> QED
    BY <1>2
<1>4. next \in [from..end -> Int]
  BY <1>1
<1>5. PICK w : Goes(w, from, end, V, next, step, Malformed)
  <2>1. Malformed \in V /\ from \in Int /\ end \in Int
    BY HintsTyped
  <2> HIDE DEF V, next, step
  <2> QED
    BY <1>3, <1>4, <2>1, WalkRuns
<1>6. w \in [from..end -> V]
  BY <1>5 DEF Goes
<1>7. ASSUME NEW q \in from..end
      PROVE  w[q] = Found1(q, w[q + 2 + At(d, q + 1)])
  <2> DEFINE rest == IF next[q] \in q + 1..end THEN w[next[q]] ELSE Malformed
  <2>1. rest \in V
    <3>1. Malformed \in V
      BY HintsTyped
    <3>2. next[q] \in q + 1..end => next[q] \in from..end
      OBVIOUS
    <3> HIDE DEF next, V
    <3> QED
      BY <1>6, <3>1, <3>2
  <2>2. w[q] = Found1(q, rest)
    <3>1. w[q] = step[q][rest]
      BY <1>5 DEF Goes
    <3> HIDE DEF rest, Found1, V
    <3> QED
      BY <2>1, <3>1
  <2>3. CASE Have(q, 2, end) /\ Have(q + 2, At(d, q + 1), end)
    <3>1. next[q] = q + 2 + At(d, q + 1)
      BY <2>3
    <3>2. q + 2 + At(d, q + 1) \in q + 1..end
      <4>1. At(d, q + 1) \in Nat
        BY <1>1, <2>3
      <4> QED
        BY <2>3, <4>1 DEF Have
    <3>3. rest = w[q + 2 + At(d, q + 1)]
      BY <3>1, <3>2
    <3> QED
      BY <2>2, <3>3
  <2>4. CASE ~(Have(q, 2, end) /\ Have(q + 2, At(d, q + 1), end))
    <3> HIDE DEF rest
    <3> QED
      BY <2>2, <2>4
  <2> QED
    BY <2>3, <2>4
<1>8. IsNameWalk(d, from, end, w)
  <2>1. w = [q \in from..end |-> w[q]]
    BY <1>6
  <2> QED
    BY <1>7, <2>1 DEF IsNameWalk, EntryName
<1> QED
  BY <1>6, <1>8

(* A name that the list gives is one of its entries. *)
LEMMA NamesAreListed ==
    ASSUME NEW d \in Seq(Nat), NEW from \in Nat, NEW end \in Nat, from <= end, end <= Len(d)
    PROVE  /\ NameList(d, from, end) \in Hints
           /\ \/ NameList(d, from, end).name = NoName
              \/ Listed(d, from, end, NameList(d, from, end).name)
<1> DEFINE w == CHOOSE u : IsNameWalk(d, from, end, u)
<1>1. PICK u \in [from..end -> Hints] : IsNameWalk(d, from, end, u)
  BY NameWalkExists
<1>2. IsNameWalk(d, from, end, w)
  BY <1>1
<1>3. NameList(d, from, end) = w[from]
  BY DEF NameList, IsNameWalk
<1> HIDE DEF w
<1> DEFINE GoodAt == {q \in from..end :
              w[q] \in Hints /\ (w[q].name = NoName \/ Listed(d, from, end, w[q].name))}
<1>4. ASSUME NEW q \in from..end, \A p \in q + 1..end : p \in GoodAt PROVE q \in GoodAt
  <2> DEFINE behind == q + 2 + At(d, q + 1)
  <2>1. w[q] = IF ~Have(q, 2, end) THEN Walked(TRUE, NoName)
               ELSE IF ~Have(q + 2, At(d, q + 1), end) THEN Malformed
               ELSE Then(EntryName(d, q), w[behind])
    BY <1>2 DEF IsNameWalk, EntryName
  <2>2. CASE Have(q, 2, end) /\ Have(q + 2, At(d, q + 1), end)
    <3>1. At(d, q + 1) \in Nat /\ EntryName(d, q) \in [offset : Nat, length : Nat]
      BY <2>2, EntryTyped DEF Have
    <3>2. behind \in q + 1..end
      BY <2>2, <3>1 DEF Have
    <3>3. behind \in GoodAt
      BY <1>4, <3>2
    <3>4. w[q] = Then(EntryName(d, q), w[behind])
      BY <2>1, <2>2
    <3> HIDE DEF behind
    <3>5. w[behind] \in Hints
          /\ (w[behind].name = NoName \/ Listed(d, from, end, w[behind].name))
      BY <3>3
    <3>6. w[q] \in Hints /\ w[q].name \in {NoName, EntryName(d, q), w[behind].name}
      BY <3>1, <3>4, <3>5, ThenTyped
    <3>7. EntryName(d, q) = NoName \/ Listed(d, from, end, EntryName(d, q))
      BY <2>2, <3>1 DEF EntryName, Listed, Have
    <3> QED
      BY <3>5, <3>6, <3>7
  <2>3. CASE ~(Have(q, 2, end) /\ Have(q + 2, At(d, q + 1), end))
    BY <2>1, <2>3, HintsTyped
  <2> QED
    BY <2>2, <2>3
<1>5. \A q \in from..end : q \in GoodAt
  <2>1. from \in Int /\ end \in Int
    OBVIOUS
  <2> HIDE DEF GoodAt
  <2> QED
    BY <1>4, <2>1, WalkKeeps
<1> QED
  BY <1>3, <1>5

NamedAt(d, p) ==
    IF At(d, p) = ServerName /\ At(d, p + 1) >= 1 THEN ServerNames(d, p + 2, At(d, p + 1))
    ELSE Walked(TRUE, NoName)

(* A name in the list of a server_name extension at e. *)
NamedIn(d, e, name) ==
    /\ At(d, e) = ServerName /\ At(d, e + 2) \in Nat /\ At(d, e + 2) < At(d, e + 1)
    /\ Listed(d, e + 3, e + 3 + At(d, e + 2), name)

Extended(d, from, end, name) ==
    \E e \in from..end :
        At(d, e + 1) \in Nat /\ e + 2 + At(d, e + 1) <= end /\ NamedIn(d, e, name)

IsExtensionWalk(d, from, end, w) ==
    w = [p \in from..end |->
          IF ~Have(p, 2, end) THEN Walked(TRUE, NoName)
          ELSE LET length == At(d, p + 1)
                   named == IF At(d, p) = ServerName /\ length >= 1
                            THEN ServerNames(d, p + 2, length) ELSE Walked(TRUE, NoName)
               IN  IF ~Have(p + 2, length, end) \/ ~named.ok THEN Malformed
                   ELSE Then(named.name, w[p + 2 + length])]

(* An extension gives a name of the list in it, or none. *)
LEMMA NamedTyped ==
    ASSUME NEW d \in Seq(Nat), NEW p \in Nat, p + 2 <= Len(d)
    PROVE  /\ At(d, p + 1) \in Nat
           /\ p + 2 + At(d, p + 1) <= Len(d) =>
                /\ NamedAt(d, p) \in Hints
                /\ NamedAt(d, p).name = NoName \/ NamedIn(d, p, NamedAt(d, p).name)
<1>1. p + 1 \in 0..Len(d) - 1
  OBVIOUS
<1>2. At(d, p + 1) \in Nat
  BY <1>1, UnitIsNat
<1> SUFFICES ASSUME p + 2 + At(d, p + 1) <= Len(d)
             PROVE  /\ NamedAt(d, p) \in Hints
                    /\ NamedAt(d, p).name = NoName \/ NamedIn(d, p, NamedAt(d, p).name)
  BY <1>2
<1> DEFINE length == At(d, p + 1)
<1>3. CASE At(d, p) = ServerName /\ length >= 1
  <2>1. NamedAt(d, p) = ServerNames(d, p + 2, length)
    BY <1>3 DEF NamedAt
  <2>2. At(d, p + 2) \in Nat
    <3>1. p + 2 \in 0..Len(d) - 1
      BY <1>2, <1>3
    <3> QED
      BY <3>1, UnitIsNat
  <2>3. CASE At(d, p + 2) > length - 1
    BY <2>1, <2>3, HintsTyped DEF ServerNames
  <2>4. CASE ~(At(d, p + 2) > length - 1)
    <3> DEFINE from == p + 3
               end == p + 3 + At(d, p + 2)
    <3>1. (p + 2) + 1 = from /\ (p + 2) + 1 + At(d, p + 2) = end
      BY <2>2
    <3>2. NamedAt(d, p) = NameList(d, from, end)
      BY <2>1, <2>4, <3>1 DEF ServerNames
    <3>3. from \in Nat /\ end \in Nat /\ from <= end /\ end <= Len(d)
          /\ At(d, p + 2) < length
      <4>1. ASSUME NEW a \in Nat, NEW b \in Nat, ~(b > a - 1), p + 2 + a <= Len(d)
            PROVE  /\ p + 3 \in Nat /\ p + 3 + b \in Nat /\ p + 3 <= p + 3 + b
                   /\ p + 3 + b <= Len(d) /\ b < a
        BY <4>1
      <4> QED
        BY <1>2, <2>2, <2>4, <4>1
    <3>4. /\ NameList(d, from, end) \in Hints
          /\ \/ NameList(d, from, end).name = NoName
             \/ Listed(d, from, end, NameList(d, from, end).name)
      <4> HIDE DEF from, end, length
      <4> QED
        BY <3>3, NamesAreListed
    <3> QED
      BY <1>3, <2>2, <3>2, <3>3, <3>4 DEF NamedIn
  <2> QED
    BY <2>3, <2>4
<1>4. CASE ~(At(d, p) = ServerName /\ length >= 1)
  BY <1>4, HintsTyped DEF NamedAt
<1> QED
  BY <1>3, <1>4

(* The loop over the extensions, from every place among them. *)
LEMMA ExtensionWalkExists ==
    ASSUME NEW d \in Seq(Nat), NEW from \in Nat, NEW end \in Nat, from <= end, end <= Len(d)
    PROVE  \E w \in [from..end -> Hints] : IsExtensionWalk(d, from, end, w)
<1> DEFINE V == Hints
           next == [p \in from..end |-> IF Have(p, 2, end) THEN p + 2 + At(d, p + 1) ELSE p]
           From(p, v) ==
             IF ~Have(p, 2, end) THEN Walked(TRUE, NoName)
             ELSE IF ~Have(p + 2, At(d, p + 1), end) \/ ~NamedAt(d, p).ok THEN Malformed
             ELSE Then(NamedAt(d, p).name, v)
           StepAt(p) == [v \in V |-> From(p, v)]
           step == [p \in from..end |-> StepAt(p)]
<1>1. \A p \in from..end : Have(p, 2, end) =>
        /\ At(d, p + 1) \in Nat
        /\ Have(p + 2, At(d, p + 1), end) =>
             NamedAt(d, p).name \in [offset : Nat, length : Nat]
  <2> SUFFICES ASSUME NEW p \in from..end, p + 2 <= end
               PROVE  /\ At(d, p + 1) \in Nat
                      /\ p + 2 + At(d, p + 1) <= end =>
                            NamedAt(d, p).name \in [offset : Nat, length : Nat]
    BY DEF Have
  <2>1. p \in Nat /\ p + 2 <= Len(d)
    OBVIOUS
  <2>2. /\ At(d, p + 1) \in Nat
        /\ p + 2 + At(d, p + 1) <= Len(d) => NamedAt(d, p) \in Hints
    BY <2>1, NamedTyped
  <2> QED
    BY <2>2 DEF Hints
<1>2. \A p \in from..end, v \in V : From(p, v) \in V
  BY <1>1, HintsTyped, ThenTyped
<1>3. step \in [from..end -> [V -> V]]
  <2> HIDE DEF From, V
  <2> QED
    BY <1>2
<1>4. next \in [from..end -> Int]
  BY <1>1
<1>5. PICK w : Goes(w, from, end, V, next, step, Malformed)
  <2>1. Malformed \in V /\ from \in Int /\ end \in Int
    BY HintsTyped
  <2> HIDE DEF V, next, step
  <2> QED
    BY <1>3, <1>4, <2>1, WalkRuns
<1>6. w \in [from..end -> V]
  BY <1>5 DEF Goes
<1>7. ASSUME NEW p \in from..end
      PROVE  w[p] = From(p, w[p + 2 + At(d, p + 1)])
  <2> DEFINE rest == IF next[p] \in p + 1..end THEN w[next[p]] ELSE Malformed
  <2>1. rest \in V
    <3>1. Malformed \in V
      BY HintsTyped
    <3>2. next[p] \in p + 1..end => next[p] \in from..end
      OBVIOUS
    <3> HIDE DEF next, V
    <3> QED
      BY <1>6, <3>1, <3>2
  <2>2. w[p] = From(p, rest)
    <3>1. w[p] = step[p][rest]
      BY <1>5 DEF Goes
    <3> HIDE DEF rest, From, V
    <3> QED
      BY <2>1, <3>1
  <2>3. CASE Have(p, 2, end) /\ Have(p + 2, At(d, p + 1), end)
    <3>1. next[p] = p + 2 + At(d, p + 1)
      BY <2>3
    <3>2. p + 2 + At(d, p + 1) \in p + 1..end
      <4>1. At(d, p + 1) \in Nat
        BY <1>1, <2>3
      <4> QED
        BY <2>3, <4>1 DEF Have
    <3>3. rest = w[p + 2 + At(d, p + 1)]
      BY <3>1, <3>2
    <3> QED
      BY <2>2, <3>3
  <2>4. CASE ~(Have(p, 2, end) /\ Have(p + 2, At(d, p + 1), end))
    <3> HIDE DEF rest
    <3> QED
      BY <2>2, <2>4
  <2> QED
    BY <2>3, <2>4
<1>8. IsExtensionWalk(d, from, end, w)
  <2>1. w = [p \in from..end |-> w[p]]
    BY <1>6
  <2> QED
    BY <1>7, <2>1 DEF IsExtensionWalk, NamedAt
<1> QED
  BY <1>6, <1>8

(* A name that the extensions give lies in a server_name extension. *)
LEMMA NamesAreExtensions ==
    ASSUME NEW d \in Seq(Nat), NEW from \in Nat, NEW end \in Nat, from <= end, end <= Len(d)
    PROVE  /\ Extensions(d, from, end) \in Hints
           /\ \/ Extensions(d, from, end).name = NoName
              \/ Extended(d, from, end, Extensions(d, from, end).name)
<1> DEFINE w == CHOOSE u : IsExtensionWalk(d, from, end, u)
<1>1. PICK u \in [from..end -> Hints] : IsExtensionWalk(d, from, end, u)
  BY ExtensionWalkExists
<1>2. IsExtensionWalk(d, from, end, w)
  BY <1>1
<1>3. Extensions(d, from, end) = w[from]
  BY DEF Extensions, IsExtensionWalk
<1> HIDE DEF w
<1> DEFINE GoodAt == {p \in from..end :
              w[p] \in Hints /\ (w[p].name = NoName \/ Extended(d, from, end, w[p].name))}
<1>4. ASSUME NEW p \in from..end, \A q \in p + 1..end : q \in GoodAt PROVE p \in GoodAt
  <2> DEFINE behind == p + 2 + At(d, p + 1)
  <2>1. w[p] = IF ~Have(p, 2, end) THEN Walked(TRUE, NoName)
               ELSE IF ~Have(p + 2, At(d, p + 1), end) \/ ~NamedAt(d, p).ok THEN Malformed
               ELSE Then(NamedAt(d, p).name, w[behind])
    BY <1>2 DEF IsExtensionWalk, NamedAt
  <2>2. CASE Have(p, 2, end) /\ Have(p + 2, At(d, p + 1), end) /\ NamedAt(d, p).ok
    <3>1. p \in Nat /\ p + 2 <= Len(d)
      BY <2>2 DEF Have
    <3>2. At(d, p + 1) \in Nat
      BY <3>1, NamedTyped
    <3>3. behind \in p + 1..end /\ p + 2 + At(d, p + 1) <= Len(d)
      BY <2>2, <3>2 DEF Have
    <3>4. /\ NamedAt(d, p) \in Hints
          /\ NamedAt(d, p).name = NoName \/ NamedIn(d, p, NamedAt(d, p).name)
      BY <3>1, <3>3, NamedTyped
    <3>5. behind \in GoodAt
      BY <1>4, <3>3
    <3>6. w[p] = Then(NamedAt(d, p).name, w[behind])
      BY <2>1, <2>2
    <3>7. NamedAt(d, p).name = NoName \/ Extended(d, from, end, NamedAt(d, p).name)
      BY <2>2, <3>2, <3>4 DEF Extended, Have
    <3> HIDE DEF behind
    <3>8. w[behind] \in Hints
          /\ (w[behind].name = NoName \/ Extended(d, from, end, w[behind].name))
      BY <3>5
    <3>9. NamedAt(d, p).name \in [offset : Nat, length : Nat]
      BY <3>4 DEF Hints
    <3>10. w[p] \in Hints /\ w[p].name \in {NoName, NamedAt(d, p).name, w[behind].name}
      BY <3>6, <3>8, <3>9, ThenTyped
    <3> QED
      BY <3>7, <3>8, <3>10
  <2>3. CASE ~(Have(p, 2, end) /\ Have(p + 2, At(d, p + 1), end) /\ NamedAt(d, p).ok)
    BY <2>1, <2>3, HintsTyped
  <2> QED
    BY <2>2, <2>3
<1>5. \A p \in from..end : p \in GoodAt
  <2>1. from \in Int /\ end \in Int
    OBVIOUS
  <2> HIDE DEF GoodAt
  <2> QED
    BY <1>4, <2>1, WalkKeeps
<1> QED
  BY <1>3, <1>5

(* A name in a ClientHello lies among its extensions. *)
LEMMA BodyNames ==
    ASSUME NEW d \in Seq(Nat)
    PROVE  /\ ClientHelloBody(d) \in Hints
           /\ \/ ClientHelloBody(d).name = NoName
              \/ \E from \in Nat, end \in 0..Len(d) :
                    Extended(d, from, end, ClientHelloBody(d).name)
<1> DEFINE end == Len(d)
           suites == 2 + At(d, 1)
           methods == suites + 1 + At(d, suites)
           extensions == methods + 1 + At(d, methods)
           understood ==
            /\ Have(0, 2, end) /\ Have(suites, 1, end)
            /\ At(d, suites) >= 2 /\ At(d, suites) % 2 = 0 /\ Have(methods, 1, end)
            /\ At(d, methods) > 0 /\ Have(extensions, 0, end)
            /\ extensions < end => Have(extensions + 1, At(d, extensions), end)
<1>1. ClientHelloBody(d) =
        CASE ~understood -> Malformed
          [] understood /\ extensions = end -> Walked(TRUE, NoName)
          [] OTHER -> Extensions(d, extensions + 1, extensions + 1 + At(d, extensions))
  BY DEF ClientHelloBody
<1>2. CASE ~understood
  BY <1>1, <1>2, HintsTyped
<1>3. CASE understood /\ extensions = end
  BY <1>1, <1>3, HintsTyped
<1>4. CASE understood /\ extensions # end
  <2>1. end \in Nat
    OBVIOUS
  <2>2. suites \in Nat
    <3>1. 1 \in 0..Len(d) - 1
      BY <1>4 DEF Have
    <3> QED
      BY <3>1, UnitIsNat
  <2>3. methods \in Nat
    <3>1. suites \in 0..Len(d) - 1
      BY <1>4, <2>1, <2>2 DEF Have
    <3>2. At(d, suites) \in Nat
      BY <3>1, UnitIsNat
    <3> HIDE DEF suites
    <3> QED
      BY <2>2, <3>2
  <2>4. extensions \in Nat
    <3>1. methods \in 0..Len(d) - 1
      BY <1>4, <2>1, <2>3 DEF Have
    <3>2. At(d, methods) \in Nat
      BY <3>1, UnitIsNat
    <3> HIDE DEF methods
    <3> QED
      BY <2>3, <3>2
  <2> DEFINE from == extensions + 1
             to == extensions + 1 + At(d, extensions)
  <2>5. Have(extensions, 0, end) /\ (extensions < end => Have(extensions + 1, At(d, extensions), end))
    BY <1>4
  <2>6. ClientHelloBody(d) = Extensions(d, from, to)
    BY <1>1, <1>4
  <2> HIDE DEF extensions, understood
  <2>7. extensions \in 0..Len(d) - 1
    BY <1>4, <2>1, <2>4, <2>5 DEF Have
  <2>8. At(d, extensions) \in Nat
    BY <2>7, UnitIsNat
  <2>9. from \in Nat /\ to \in Nat /\ from <= to /\ to <= Len(d) /\ to \in 0..Len(d)
    BY <2>5, <2>7, <2>8 DEF Have
  <2> HIDE DEF from, to
  <2> QED
    BY <2>6, <2>9, NamesAreExtensions
<1> QED
  BY <1>2, <1>3, <1>4

(* The records before the hello are as many as there are. *)
LEMMA DummiesCounted ==
    ASSUME NEW d \in Seq(Nat)
    PROVE  Dummies(d) \in Nat
<1> DEFINE T == {n \in 0..Len(d) : ~IsDummy(d, 4 * n)}
<1>1. Len(d) \in T
  BY DEF IsDummy, Have
<1>2. PICK n \in T : \A m \in T : n <= m
  <2>1. T \in SUBSET Nat
    OBVIOUS
  <2> HIDE DEF T
  <2> QED
    BY <1>1, <2>1, LeastElement
<1>3. \A i \in 0..n - 1 : IsDummy(d, 4 * i)
  <2> SUFFICES ASSUME NEW i \in 0..n - 1 PROVE IsDummy(d, 4 * i)
    OBVIOUS
  <2>1. i \in 0..Len(d) /\ ~(n <= i)
    BY <1>2
  <2> QED
    BY <1>2, <2>1
<1>4. Dummies(d) \in 0..Len(d)
  BY <1>2, <1>3 DEF Dummies
<1> QED
  BY <1>4

(* The hello ends inside the payload. *)
LEMMA HelloEndsInside ==
    ASSUME NEW d \in Seq(Nat), IsClientHello(d)
    PROVE  RecordAt(d) \in Nat /\ HelloEnd(d) \in 0..Len(d)
<1> DEFINE o == RecordAt(d)
           S == {o + 5 + At(d, o + 4), o + 3 + At(d, o + 2), Len(d)}
<1>1. o \in Nat
  BY DummiesCounted DEF RecordAt
<1>2. o + 4 \in 0..Len(d) - 1 /\ o + 2 \in 0..Len(d) - 1
  <2>1. Have(o, 5, Len(d)) /\ Len(d) \in Nat
    BY DEF IsClientHello
  <2> HIDE DEF o
  <2> QED
    BY <1>1, <2>1 DEF Have
<1>3. S \in SUBSET Nat
  <2>1. At(d, o + 4) \in Nat /\ At(d, o + 2) \in Nat
    BY <1>2, UnitIsNat
  <2> HIDE DEF o
  <2> QED
    BY <1>1, <2>1
<1>4. PICK n \in S : \A m \in S : n <= m
  <2>1. S # {}
    OBVIOUS
  <2> HIDE DEF S
  <2> QED
    BY <1>3, <2>1, LeastElement
<1>5. Min(S) \in S /\ \A m \in S : Min(S) <= m
  <2> HIDE DEF S
  <2> QED
    BY <1>4 DEF Min
<1>6. HelloEnd(d) = Min(S)
  BY DEF HelloEnd
<1>7. Len(d) \in S /\ Len(d) \in Nat
  OBVIOUS
<1>8. Min(S) \in Nat /\ Min(S) <= Len(d)
  <2> HIDE DEF S
  <2> QED
    BY <1>3, <1>5, <1>7
<1> HIDE DEF S
<1> QED
  BY <1>1, <1>6, <1>7, <1>8

(* The units of a slice are those of the payload, shifted. *)
LEMMA SliceUnits ==
    ASSUME NEW d \in Seq(Nat), NEW o \in Nat, NEW n \in Nat, o + n <= Len(d)
    PROVE  /\ Slice(d, o, n) \in Seq(Nat) /\ Len(Slice(d, o, n)) = n
           /\ \A i \in 0..n - 1 : At(Slice(d, o, n), i) = At(d, o + i)
<1>1. Len(d) \in Nat /\ DOMAIN d = 1..Len(d) /\ \A i \in 1..Len(d) : d[i] \in Nat
  BY ElementOfSeq
<1>2. \A i \in o + 1..o + n : d[i] \in Nat
  BY <1>1
<1>3. o + 1 \in Int /\ o + n \in Int
  OBVIOUS
<1>4. /\ SubSeq(d, o + 1, o + n) \in Seq(Nat)
      /\ Len(SubSeq(d, o + 1, o + n)) =
            IF o + 1 <= o + n THEN o + n - (o + 1) + 1 ELSE 0
      /\ \A i \in 1..o + n - (o + 1) + 1 :
            SubSeq(d, o + 1, o + n)[i] = d[o + 1 + i - 1]
  BY <1>2, <1>3, SubSeqProperties
<1>5. Len(SubSeq(d, o + 1, o + n)) = n
  BY <1>4
<1>6. ASSUME NEW i \in 0..n - 1 PROVE SubSeq(d, o + 1, o + n)[i + 1] = d[o + i + 1]
  <2>1. i + 1 \in 1..o + n - (o + 1) + 1 /\ o + 1 + (i + 1) - 1 = o + i + 1
    OBVIOUS
  <2>2. SubSeq(d, o + 1, o + n)[i + 1] = d[o + 1 + (i + 1) - 1]
    BY <1>4, <2>1
  <2> QED
    BY <2>1, <2>2
<1> QED
  BY <1>4, <1>5, <1>6 DEF Slice, At

(* A place inside the payload. *)
Inside(d, name) ==
    name \in [offset : Nat, length : Nat] /\ name.offset + name.length <= Len(d)

(* A host name that parse_tls finds lies in a server_name extension, shifted to
   where it stands in the packet. *)
LEMMA SniIsNamed ==
    ASSUME NEW d \in Seq(Nat), IsClientHello(d), Sni(d) # NoName
    PROVE  InServerName(d, Sni(d)) /\ Inside(d, Sni(d))
<1> DEFINE start == RecordAt(d) + 5
           n == HelloEnd(d) - start
           body == Slice(d, start, n)
           name == ClientHelloBody(body).name
<1>1. RecordAt(d) \in Nat /\ HelloEnd(d) \in 0..Len(d)
  BY HelloEndsInside
<1>2. /\ HelloEnd(d) > start
      /\ IsHostname(Slice(body, name.offset, name.length))
      /\ Sni(d) = Found(name, start)
  BY DEF Sni
<1>3. start \in Nat /\ n \in Nat /\ start + n <= Len(d)
  <2>1. ASSUME NEW r \in Nat, NEW end \in 0..Len(d), end > r + 5
        PROVE  /\ r + 5 \in Nat /\ end - (r + 5) \in Nat
               /\ (r + 5) + (end - (r + 5)) <= Len(d)
    BY <2>1
  <2> QED
    BY <1>1, <1>2, <2>1
<1> HIDE DEF start, n
<1>4. /\ body \in Seq(Nat) /\ Len(body) = n
      /\ \A i \in 0..n - 1 : At(body, i) = At(d, start + i)
  BY <1>3, SliceUnits
<1> HIDE DEF body
<1>5. name # NoName
  <2> SUFFICES ASSUME name = NoName PROVE FALSE
    OBVIOUS
  <2>1. name.offset = 0 /\ name.length = 0
    BY DEF NoName
  <2>2. SubSeq(body, 1, 0) = <<>>
    BY SubSeqEmpty
  <2>3. Slice(body, name.offset, name.length) = <<>>
    BY <2>1, <2>2 DEF Slice
  <2> QED
    BY <1>2, <2>3 DEF IsHostname
<1>6. name \in [offset : Nat, length : Nat]
  BY <1>4, BodyNames DEF Hints
<1>7. PICK from \in Nat, end \in 0..Len(body) : Extended(body, from, end, name)
  BY <1>4, <1>5, BodyNames
<1>8. PICK e \in from..end : /\ At(body, e + 1) \in Nat /\ e + 2 + At(body, e + 1) <= end
                            /\ NamedIn(body, e, name)
  BY <1>7 DEF Extended
<1>9. /\ At(body, e) = ServerName /\ At(body, e + 2) \in Nat /\ At(body, e + 2) < At(body, e + 1)
      /\ Listed(body, e + 3, e + 3 + At(body, e + 2), name)
  BY <1>8 DEF NamedIn
<1>10. PICK q \in e + 3..e + 3 + At(body, e + 2) :
        /\ At(body, q + 1) \in Nat /\ q + 2 + At(body, q + 1) <= e + 3 + At(body, e + 2)
        /\ At(body, q) = HostName /\ name = Place(q + 2, At(body, q + 1))
  BY <1>9 DEF Listed
<1>11. /\ e \in Nat /\ q \in Nat /\ e + 3 <= q
       /\ name.offset = q + 2 /\ name.length = At(body, q + 1)
       /\ e \in 0..n - 1 /\ e + 1 \in 0..n - 1 /\ e + 2 \in 0..n - 1
       /\ q \in 0..n - 1 /\ q + 1 \in 0..n - 1
  <2>1. name.offset = q + 2 /\ name.length = At(body, q + 1)
    BY <1>10 DEF Place
  <2> DEFINE a == At(body, e + 1)
             b == At(body, e + 2)
             c == At(body, q + 1)
  <2>2. /\ a \in Nat /\ b \in Nat /\ c \in Nat /\ b < a /\ e + 2 + a <= end
        /\ q + 2 + c <= e + 3 + b
    BY <1>8, <1>9, <1>10
  <2>3. e \in Nat /\ end <= n /\ q \in e + 3..e + 3 + b
    BY <1>4
  <2> HIDE DEF a, b, c
  <2>4. /\ q \in Nat /\ e + 3 <= q
        /\ e \in 0..n - 1 /\ e + 1 \in 0..n - 1 /\ e + 2 \in 0..n - 1
        /\ q \in 0..n - 1 /\ q + 1 \in 0..n - 1
    BY <1>3, <2>2, <2>3
  <2> QED
    BY <2>1, <2>3, <2>4
<1>12. /\ At(d, start + e) = ServerName
       /\ At(d, start + (e + 1)) = At(body, e + 1) /\ At(d, start + (e + 2)) = At(body, e + 2)
       /\ At(d, start + q) = HostName /\ At(d, start + (q + 1)) = At(body, q + 1)
  BY <1>4, <1>9, <1>10, <1>11
<1>13. Sni(d).offset = start + q + 2 /\ Sni(d).length = At(body, q + 1)
  <2>1. Found(name, start) = [name EXCEPT !.offset = q + 2 + start]
    BY <1>11 DEF Found
  <2>2. /\ Found(name, start).offset = q + 2 + start
        /\ Found(name, start).length = name.length
    <3> HIDE DEF name
    <3> QED
      BY <1>6, <2>1
  <2> HIDE DEF name
  <2> QED
    BY <1>2, <1>3, <1>11, <2>2
<1>14. /\ start + (e + 1) = (start + e) + 1 /\ start + (e + 2) = (start + e) + 2
       /\ start + q = (start + q + 2) - 2 /\ start + (q + 1) = (start + q + 2) - 1
       /\ start + e \in 0..(start + q + 2) - 5
       /\ (start + q + 2) + At(body, q + 1) <= (start + e) + 3 + At(body, e + 2)
  <2>1. ASSUME NEW b \in Nat, NEW c \in Nat, q + 2 + c <= e + 3 + b
        PROVE  (start + q + 2) + c <= (start + e) + 3 + b
    BY <1>3, <1>11, <2>1
  <2>2. (start + q + 2) + At(body, q + 1) <= (start + e) + 3 + At(body, e + 2)
    BY <1>9, <1>10, <2>1
  <2>3. /\ start + (e + 1) = (start + e) + 1 /\ start + (e + 2) = (start + e) + 2
        /\ start + q = (start + q + 2) - 2 /\ start + (q + 1) = (start + q + 2) - 1
        /\ start + e \in 0..(start + q + 2) - 5
    <3>1. start \in Nat /\ e \in Nat /\ q \in Nat /\ e + 3 <= q
      BY <1>3, <1>11
    <3> QED
      BY <3>1
  <2> QED
    BY <2>2, <2>3
<1>15. InServerName(d, Sni(d))
  BY <1>9, <1>12, <1>13, <1>14 DEF InServerName
<1>16. Inside(d, Sni(d))
  <2> DEFINE a == At(body, e + 1)
             b == At(body, e + 2)
             c == At(body, q + 1)
  <2>1. /\ a \in Nat /\ b \in Nat /\ c \in Nat /\ b < a /\ e + 2 + a <= end
        /\ q + 2 + c <= e + 3 + b
    BY <1>8, <1>9, <1>10
  <2>2. end \in Nat /\ end <= n
    BY <1>4
  <2>3. Sni(d) \in [offset : Nat, length : Nat]
    <3>1. Sni(d) = [name EXCEPT !.offset = q + 2 + start]
      BY <1>2, <1>11 DEF Found
    <3>2. q + 2 + start \in Nat
      BY <1>3, <1>11
    <3> HIDE DEF name
    <3> QED
      BY <1>6, <3>1, <3>2
  <2> HIDE DEF a, b, c
  <2>4. (start + q + 2) + c <= Len(d)
    BY <1>3, <1>11, <2>1, <2>2
  <2> QED
    BY <1>13, <2>3, <2>4 DEF Inside, c
<1> QED
  BY <1>15, <1>16

-----------------------------------------------------------------------------
(* HTTP: a name is the value of a Host field, of a line that a line end precedes. *)

(* The first place that holds one of some units, or the end. *)
LEMMA FindIs ==
    ASSUME NEW d \in Seq(Nat), NEW o \in Nat, NEW units
    PROVE  /\ Find(d, o, units) \in 0..Len(d)
           /\ \/ /\ Find(d, o, units) = Len(d)
                 /\ \A i \in o..Len(d) - 1 : At(d, i) \notin units
              \/ /\ Find(d, o, units) \in o..Len(d) - 1
                 /\ At(d, Find(d, o, units)) \in units
                 /\ \A i \in o..Find(d, o, units) - 1 : At(d, i) \notin units
<1> DEFINE found == {i \in o..Len(d) - 1 : At(d, i) \in units}
<1>1. Find(d, o, units) = IF found = {} THEN Len(d) ELSE Min(found)
  BY DEF Find
<1>2. CASE found = {}
  <2>1. \A i \in o..Len(d) - 1 : At(d, i) \notin units
    BY <1>2
  <2>2. Find(d, o, units) = Len(d) /\ Len(d) \in Nat
    BY <1>1, <1>2
  <2> QED
    BY <2>1, <2>2
<1>3. CASE found # {}
  <2>1. PICK n \in found : \A m \in found : n <= m
    <3>1. found \in SUBSET Nat
      OBVIOUS
    <3> HIDE DEF found
    <3> QED
      BY <1>3, <3>1, LeastElement
  <2>2. Min(found) \in found /\ \A m \in found : Min(found) <= m
    <3> HIDE DEF found
    <3> QED
      BY <2>1 DEF Min
  <2>3. PICK k : k = Find(d, o, units)
    OBVIOUS
  <2>4. k = Min(found)
    BY <1>1, <1>3, <2>3
  <2>5. k \in o..Len(d) - 1 /\ At(d, k) \in units /\ \A m \in found : k <= m
    BY <2>2, <2>4
  <2>6. ASSUME NEW i \in o..k - 1 PROVE At(d, i) \notin units
    <3>1. i \in o..Len(d) - 1 /\ ~(k <= i)
      BY <2>5
    <3> QED
      BY <2>5, <3>1
  <2>7. k \in 0..Len(d)
    BY <2>5
  <2> HIDE DEF found
  <2> QED
    BY <2>3, <2>5, <2>6, <2>7
<1> QED
  BY <1>2, <1>3

(* A line end, with what is behind it. *)
LEMMA LineEndIs ==
    ASSUME NEW d \in Seq(Nat), NEW p \in Nat
    PROVE  \/ LineEnd(d, p) = 0
           \/ /\ LineEnd(d, p) \in p + 1..Len(d) /\ LineEnd(d, p) > 0
              /\ At(d, LineEnd(d, p) - 1) = Lf
<1>1. Len(d) \in Nat
  OBVIOUS
<1>2. CASE Have(p, 2, Len(d)) /\ Slice(d, p, 2) = <<Cr, Lf>>
  <2>1. p + 2 <= Len(d)
    BY <1>2 DEF Have
  <2>2. \A i \in 0..2 - 1 : At(Slice(d, p, 2), i) = At(d, p + i)
    <3>1. ASSUME NEW n \in Nat, p + n <= Len(d)
          PROVE  \A i \in 0..n - 1 : At(Slice(d, p, n), i) = At(d, p + i)
      BY <3>1, SliceUnits
    <3> QED
      BY <2>1, <3>1
  <2>3. At(Slice(d, p, 2), 0) = At(d, p) /\ At(Slice(d, p, 2), 1) = At(d, p + 1)
    <3>1. p + 0 = p /\ 0 \in 0..2 - 1 /\ 1 \in 0..2 - 1
      OBVIOUS
    <3> QED
      BY <2>2, <3>1
  <2>4. At(<<Cr, Lf>>, 0) = Cr /\ At(<<Cr, Lf>>, 1) = Lf
    BY DEF At
  <2>5. At(d, p) = Cr /\ At(d, p + 1) = Lf /\ Cr # Lf
    <3>1. Cr # Lf
      BY DEF Cr, Lf
    <3> QED
      BY <1>2, <2>3, <2>4, <3>1
  <2>6. LineEnd(d, p) = p + 2
    BY <1>2, <2>5 DEF LineEnd
  <2>7. p + 2 - 1 = p + 1 /\ p + 2 \in p + 1..Len(d) /\ p + 2 > 0
    BY <1>1, <2>1
  <2> QED
    BY <2>5, <2>6, <2>7
<1>3. CASE ~(Have(p, 2, Len(d)) /\ Slice(d, p, 2) = <<Cr, Lf>>)
  <2>1. CASE Have(p, 1, Len(d)) /\ At(d, p) = Lf
    <3>1. LineEnd(d, p) = p + 1
      BY <1>3, <2>1 DEF LineEnd
    <3>2. p + 1 - 1 = p /\ p + 1 \in p + 1..Len(d) /\ p + 1 > 0
      BY <1>1, <2>1 DEF Have
    <3> QED
      BY <2>1, <3>1, <3>2
  <2>2. CASE ~(Have(p, 1, Len(d)) /\ At(d, p) = Lf)
    BY <1>3, <2>2 DEF LineEnd
  <2> QED
    BY <2>1, <2>2
<1> QED
  BY <1>2, <1>3

(* A value without the spaces around it. *)
Trims(d, from, to, name) ==
    /\ name.length >= 1 /\ from <= name.offset /\ name.offset + name.length <= to
    /\ \A i \in from..name.offset - 1 : At(d, i) = Space
    /\ \A i \in name.offset + name.length..to - 1 : At(d, i) = Space

(* Trimming leaves a part of the value. *)
LEMMA TrimmedIs ==
    ASSUME NEW d \in Seq(Nat), NEW from \in Nat, NEW to \in Nat
    PROVE  /\ Trimmed(d, from, to) \in [offset : Nat, length : Nat]
           /\ \/ Trimmed(d, from, to).length = 0
              \/ Trims(d, from, to, Trimmed(d, from, to))
<1> DEFINE inner == {i \in from..to - 1 : At(d, i) # Space}
<1>1. Trimmed(d, from, to) = IF inner = {} THEN Place(to, 0)
                             ELSE Place(Min(inner), Max(inner) + 1 - Min(inner))
  BY DEF Trimmed
<1>2. CASE inner = {}
  BY <1>1, <1>2 DEF Place
<1>3. CASE inner # {}
  <2>1. PICK a \in inner : \A m \in inner : a <= m
    <3>1. inner \in SUBSET Nat
      OBVIOUS
    <3> HIDE DEF inner
    <3> QED
      BY <1>3, <3>1, LeastElement
  <2>2. PICK b \in inner : \A m \in inner : m <= b
    <3> DEFINE T == {to - i : i \in inner}
    <3>1. T \in SUBSET Nat /\ T # {}
      BY <1>3
    <3>2. PICK n \in T : \A m \in T : n <= m
      <4> HIDE DEF T
      <4> QED
        BY <3>1, LeastElement
    <3>3. PICK i \in inner : n = to - i
      BY <3>2
    <3>4. ASSUME NEW m \in inner PROVE m <= i
      <4>1. to - m \in T
        OBVIOUS
      <4>2. n <= to - m
        BY <3>2, <4>1
      <4>3. m \in Int /\ i \in Int
        OBVIOUS
      <4> HIDE DEF inner, T
      <4> QED
        BY <3>3, <4>2, <4>3
    <3> QED
      BY <3>4
  <2>3. a \in from..to - 1 /\ b \in from..to - 1
    OBVIOUS
  <2>4. Min(inner) = a /\ Max(inner) = b
    <3>1. /\ Min(inner) \in inner /\ \A m \in inner : Min(inner) <= m
          /\ Max(inner) \in inner /\ \A m \in inner : m <= Max(inner)
      <4> HIDE DEF inner
      <4> QED
        BY <2>1, <2>2 DEF Min, Max
    <3>2. Min(inner) \in Int /\ Max(inner) \in Int
      BY <3>1
    <3> QED
      BY <2>1, <2>2, <2>3, <3>1, <3>2
  <2>5. Trimmed(d, from, to) = Place(a, b + 1 - a)
    BY <1>1, <1>3, <2>4
  <2>6. a <= b
    BY <2>1
  <2>7. \A i \in from..a - 1 : At(d, i) = Space
    <3> SUFFICES ASSUME NEW i \in from..a - 1 PROVE At(d, i) = Space
      OBVIOUS
    <3>1. i \in from..to - 1 /\ ~(a <= i)
      BY <2>3
    <3> QED
      BY <2>1, <3>1
  <2>8. \A i \in b + 1..to - 1 : At(d, i) = Space
    <3> SUFFICES ASSUME NEW i \in b + 1..to - 1 PROVE At(d, i) = Space
      OBVIOUS
    <3>1. i \in from..to - 1 /\ ~(i <= b)
      BY <2>3
    <3> QED
      BY <2>2, <3>1
  <2> HIDE DEF inner
  <2>9. a + (b + 1 - a) = b + 1 /\ b + 1 - a >= 1 /\ b + 1 - a \in Nat /\ a \in Nat /\ b + 1 <= to
        /\ from <= a
    BY <2>3, <2>6
  <2>10. Place(a, b + 1 - a).offset = a /\ Place(a, b + 1 - a).length = b + 1 - a
         /\ Place(a, b + 1 - a) \in [offset : Nat, length : Nat]
    BY <2>9 DEF Place
  <2> QED
    BY <2>5, <2>7, <2>8, <2>9, <2>10 DEF Trims
<1> QED
  BY <1>2, <1>3

ColonAt(d, p) == Find(d, p, {Colon} \cup EndsLine)
FieldEnd(d, p) == Find(d, ColonAt(d, p) + 1, EndsLine)
NextLine(d, p) == LineEnd(d, FieldEnd(d, p))

(* A header line at p, with its end, that is not the empty one. *)
IsField(d, p) ==
    /\ p # Len(d) /\ ~(p > MaxHeader) /\ ~(LineEnd(d, p) > 0)
    /\ ColonAt(d, p) # Len(d) /\ At(d, ColonAt(d, p)) = Colon /\ NextLine(d, p) # 0

FieldName(d, p) == Trimmed(d, ColonAt(d, p) + 1, FieldEnd(d, p))

(* A header line ends behind where it begins. *)
LEMMA LinesGoOn ==
    ASSUME NEW d \in Seq(Nat), NEW p \in 0..Len(d)
    PROVE  /\ ColonAt(d, p) \in p..Len(d) /\ FieldEnd(d, p) \in p..Len(d)
           /\ NextLine(d, p) # 0 => /\ NextLine(d, p) \in p + 1..Len(d)
                                    /\ At(d, NextLine(d, p) - 1) = Lf
                                    /\ FieldEnd(d, p) < Len(d)
           /\ FieldName(d, p) \in [offset : Nat, length : Nat]
<1>1. Len(d) \in Nat /\ p \in Nat /\ p <= Len(d)
  OBVIOUS
<1>2. PICK c : c = ColonAt(d, p)
  OBVIOUS
<1>3. c \in p..Len(d) /\ c \in Nat /\ c + 1 \in Nat
  <2>1. c \in 0..Len(d) /\ (c = Len(d) \/ c \in p..Len(d) - 1)
    BY <1>1, <1>2, FindIs DEF ColonAt
  <2> QED
    BY <1>1, <2>1
<1>4. PICK e : e = FieldEnd(d, p)
  OBVIOUS
<1>5. e \in p..Len(d) /\ e \in Nat
  <2>1. e = Find(d, c + 1, EndsLine)
    BY <1>2, <1>4 DEF FieldEnd
  <2>2. e \in 0..Len(d) /\ (e = Len(d) \/ e \in c + 1..Len(d) - 1)
    BY <1>3, <2>1, FindIs
  <2> QED
    BY <1>1, <1>3, <2>2
<1>6. ASSUME NextLine(d, p) # 0
      PROVE  /\ NextLine(d, p) \in p + 1..Len(d) /\ At(d, NextLine(d, p) - 1) = Lf
             /\ e < Len(d)
  <2>1. PICK n : n = NextLine(d, p)
    OBVIOUS
  <2>2. n \in e + 1..Len(d) /\ At(d, n - 1) = Lf
    BY <1>4, <1>5, <1>6, <2>1, LineEndIs DEF NextLine
  <2>3. n \in p + 1..Len(d) /\ e < Len(d)
    BY <1>1, <1>5, <2>2
  <2> QED
    BY <2>1, <2>2, <2>3
<1>7. FieldName(d, p) \in [offset : Nat, length : Nat]
  BY <1>2, <1>3, <1>4, <1>5, TrimmedIs DEF FieldName
<1> QED
  BY <1>2, <1>3, <1>4, <1>5, <1>6, <1>7

IsFieldWalk(d, from, w) ==
    w = [p \in from..Len(d) |->
          LET colon == Find(d, p, {Colon} \cup EndsLine)
              end == Find(d, colon + 1, EndsLine)
          IN  IF p = Len(d) \/ p > MaxHeader THEN Malformed
              ELSE IF LineEnd(d, p) > 0 THEN Walked(TRUE, NoName)
              ELSE IF colon = Len(d) \/ At(d, colon) # Colon \/ LineEnd(d, end) = 0
              THEN Malformed
              ELSE IF IsHostField(d, p, colon)
              THEN Then(Trimmed(d, colon + 1, end), w[LineEnd(d, end)])
              ELSE w[LineEnd(d, end)]]

(* What is found from the line at p on, if v is found from the next line on. *)
FieldGives(d, p, v) ==
    IF IsField(d, p)
    THEN IF IsHostField(d, p, ColonAt(d, p)) THEN Then(FieldName(d, p), v) ELSE v
    ELSE IF ~(p = Len(d) \/ p > MaxHeader) /\ LineEnd(d, p) > 0 THEN Walked(TRUE, NoName)
    ELSE Malformed

(* A line gives its field, or what the next lines give. *)
LEMMA FieldWalks ==
    ASSUME NEW d, NEW from, NEW w
    PROVE  IsFieldWalk(d, from, w) <=>
              w = [p \in from..Len(d) |-> FieldGives(d, p, w[NextLine(d, p)])]
<1>1. ASSUME NEW p
      PROVE  FieldGives(d, p, w[NextLine(d, p)]) =
              LET colon == Find(d, p, {Colon} \cup EndsLine)
                  end == Find(d, colon + 1, EndsLine)
              IN  IF p = Len(d) \/ p > MaxHeader THEN Malformed
                  ELSE IF LineEnd(d, p) > 0 THEN Walked(TRUE, NoName)
                  ELSE IF colon = Len(d) \/ At(d, colon) # Colon \/ LineEnd(d, end) = 0
                  THEN Malformed
                  ELSE IF IsHostField(d, p, colon)
                  THEN Then(Trimmed(d, colon + 1, end), w[LineEnd(d, end)])
                  ELSE w[LineEnd(d, end)]
  BY DEF FieldGives, IsField, FieldName, NextLine, FieldEnd, ColonAt
<1> QED
  BY <1>1 DEF IsFieldWalk

(* The loop over the header lines, from every line. *)
LEMMA FieldWalkExists ==
    ASSUME NEW d \in Seq(Nat), NEW from \in 0..Len(d)
    PROVE  \E w \in [from..Len(d) -> Hints] : IsFieldWalk(d, from, w)
<1> DEFINE V == Hints
           end == Len(d)
           next == [p \in from..end |-> IF IsField(d, p) THEN NextLine(d, p) ELSE p]
           StepAt(p) == [v \in V |-> FieldGives(d, p, v)]
           step == [p \in from..end |-> StepAt(p)]
<1>1. end \in Nat /\ end \in Int /\ from \in Int /\ from <= end
      /\ \A p \in from..end : p \in 0..Len(d)
  OBVIOUS
<1>2. \A p \in from..end, v \in V : FieldGives(d, p, v) \in V
  <2> SUFFICES ASSUME NEW p \in from..end, NEW v \in V PROVE FieldGives(d, p, v) \in V
    OBVIOUS
  <2>1. FieldName(d, p) \in [offset : Nat, length : Nat]
    BY <1>1, LinesGoOn
  <2> QED
    BY <2>1, HintsTyped, ThenTyped DEF FieldGives
<1>3. step \in [from..end -> [V -> V]]
  <2> HIDE DEF V
  <2> QED
    BY <1>2
<1>4. \A p \in from..end : IsField(d, p) => NextLine(d, p) \in p + 1..end
  BY <1>1, LinesGoOn DEF IsField
<1>5. next \in [from..end -> Int]
  <2> HIDE DEF end
  <2> QED
    BY <1>1, <1>4
<1>6. PICK w : Goes(w, from, end, V, next, step, Malformed)
  <2>1. Malformed \in V
    BY HintsTyped
  <2> HIDE DEF V, next, step, end
  <2> QED
    BY <1>1, <1>3, <1>5, <2>1, WalkRuns
<1>7. w \in [from..end -> V]
  BY <1>6 DEF Goes
<1>8. ASSUME NEW p \in from..end
      PROVE  w[p] = FieldGives(d, p, w[NextLine(d, p)])
  <2> DEFINE rest == IF next[p] \in p + 1..end THEN w[next[p]] ELSE Malformed
  <2>1. rest \in V
    <3>1. Malformed \in V
      BY HintsTyped
    <3>2. next[p] \in p + 1..end => next[p] \in from..end
      OBVIOUS
    <3> HIDE DEF next, V, end
    <3> QED
      BY <1>7, <3>1, <3>2
  <2>2. w[p] = FieldGives(d, p, rest)
    <3>1. w[p] = step[p][rest]
      BY <1>6 DEF Goes
    <3> HIDE DEF rest, V
    <3> QED
      BY <2>1, <3>1
  <2>3. CASE IsField(d, p)
    <3>1. next[p] = NextLine(d, p)
      BY <2>3
    <3>2. rest = w[NextLine(d, p)]
      BY <1>4, <2>3, <3>1
    <3> QED
      BY <2>2, <3>2
  <2>4. CASE ~IsField(d, p)
    <3> HIDE DEF rest
    <3> QED
      BY <2>2, <2>4 DEF FieldGives
  <2> QED
    BY <2>3, <2>4
<1>9. IsFieldWalk(d, from, w)
  <2>1. w = [p \in from..Len(d) |-> w[p]]
    BY <1>7
  <2>2. w = [p \in from..Len(d) |-> FieldGives(d, p, w[NextLine(d, p)])]
    BY <1>8, <2>1
  <2> QED
    BY <2>2, FieldWalks
<1> QED
  BY <1>7, <1>9

Begins(d, p) == p >= 1 /\ At(d, p - 1) = Lf

(* A name in a Host field. *)
AtField(d, name) == InHostField(d, name) /\ Inside(d, name)

(* A line gives a host only as a Host field. *)
LEMMA FieldNamed ==
    ASSUME NEW d \in Seq(Nat), NEW p \in 0..Len(d), Begins(d, p), IsField(d, p),
           IsHostField(d, p, ColonAt(d, p)), FieldName(d, p).length # 0
    PROVE  AtField(d, FieldName(d, p))
<1>1. PICK c, e : c = ColonAt(d, p) /\ e = FieldEnd(d, p)
  OBVIOUS
<1>2. PICK name : name = FieldName(d, p)
  OBVIOUS
<1>3. /\ c \in p..Len(d) /\ e \in p..Len(d) /\ e < Len(d)
      /\ name \in [offset : Nat, length : Nat]
  BY <1>1, <1>2, LinesGoOn DEF IsField
<1>4. Len(d) \in Nat /\ p \in Nat /\ c \in Nat /\ e \in Nat /\ c + 1 \in Nat /\ p >= 1
      /\ p - 1 \in Nat /\ c < Len(d)
  BY <1>1, <1>3 DEF Begins, IsField
<1>5. Trims(d, c + 1, e, name)
  <2>1. name = Trimmed(d, c + 1, e) /\ name.length # 0
    BY <1>1, <1>2 DEF FieldName
  <2> QED
    BY <1>4, <2>1, TrimmedIs
<1>6. c = p + 1 /\ At(d, p) = HostWord
  <2>1. Slice(d, p, c - p) = <<HostWord>>
    BY <1>1 DEF IsHostField
  <2>2. c - p \in Nat /\ p + (c - p) <= Len(d)
    BY <1>3, <1>4
  <2>3. Len(Slice(d, p, c - p)) = c - p
        /\ \A i \in 0..(c - p) - 1 : At(Slice(d, p, c - p), i) = At(d, p + i)
    BY <1>4, <2>2, SliceUnits
  <2>4. Len(<<HostWord>>) = 1 /\ At(<<HostWord>>, 0) = HostWord
    BY DEF At
  <2>5. c - p = 1
    BY <2>1, <2>3, <2>4
  <2>6. At(Slice(d, p, c - p), 0) = At(d, p + 0)
    BY <2>3, <2>5
  <2>7. p + 0 = p /\ c = p + 1
    BY <1>4, <2>5
  <2> QED
    BY <2>1, <2>4, <2>6, <2>7
<1>7. At(d, p - 1) = Lf /\ At(d, c) = Colon
  BY <1>1 DEF Begins, IsField
<1>8. Slice(d, p - 1, 3) = <<Lf, HostWord, Colon>>
  <2> DEFINE s == Slice(d, p - 1, 3)
  <2>1. (p - 1) + 3 <= Len(d)
    BY <1>4, <1>6
  <2>2. /\ s \in Seq(Nat) /\ Len(s) = 3
        /\ \A i \in 0..3 - 1 : At(s, i) = At(d, (p - 1) + i)
    <3> DEFINE b == p - 1
    <3>1. b \in Nat /\ 3 \in Nat /\ b + 3 <= Len(d)
      BY <1>4, <2>1
    <3> HIDE DEF b
    <3>2. /\ Slice(d, b, 3) \in Seq(Nat) /\ Len(Slice(d, b, 3)) = 3
          /\ \A i \in 0..3 - 1 : At(Slice(d, b, 3), i) = At(d, b + i)
      BY <3>1, SliceUnits
    <3> QED
      BY <3>2 DEF b
  <2>3. /\ (p - 1) + 0 = p - 1 /\ (p - 1) + 1 = p /\ (p - 1) + 2 = c
        /\ 0 \in 0..3 - 1 /\ 1 \in 0..3 - 1 /\ 2 \in 0..3 - 1
    BY <1>4, <1>6
  <2>4. At(s, 0) = Lf /\ At(s, 1) = HostWord /\ At(s, 2) = Colon
    BY <1>6, <1>7, <2>2, <2>3
  <2> HIDE DEF s
  <2>5. s[1] = Lf /\ s[2] = HostWord /\ s[3] = Colon
    BY <2>4 DEF At
  <2>6. s = <<s[1], s[2], s[3]>>
    BY <2>2
  <2> QED
    BY <2>5, <2>6 DEF s
<1>9. PICK after : after = name.offset + name.length
  OBVIOUS
<1>10. /\ p \in 1..name.offset - 2 /\ p + 2 = c + 1
       /\ after \in Nat /\ after <= e
  <2> DEFINE o == name.offset
             n == name.length
  <2>1. o \in Nat /\ n \in Nat /\ c + 1 <= o /\ o + n <= e /\ after = o + n
    BY <1>3, <1>5, <1>9 DEF Trims
  <2> HIDE DEF o, n
  <2>2. p \in 1..o - 2 /\ p + 2 = c + 1 /\ after \in Nat /\ after <= e
    BY <1>4, <1>6, <2>1
  <2> QED
    BY <2>2 DEF o
<1>11. \A i \in p + 2..name.offset - 1 : At(d, i) = Space
  BY <1>5, <1>10 DEF Trims
<1>12. At(d, e) \in EndsLine
  <2>1. e = Find(d, c + 1, EndsLine)
    BY <1>1 DEF FieldEnd
  <2> QED
    BY <1>3, <1>4, <2>1, FindIs
<1> DEFINE units == 0..127 \ {Space}
<1>13. PICK rest : rest = Find(d, after, units)
  OBVIOUS
<1>14. rest < Len(d) /\ At(d, rest) \in EndsLine
  <2>1. EndsLine \subseteq units
    BY DEF EndsLine, Cr, Lf, Space
  <2>2. Space \notin units
    OBVIOUS
  <2>3. /\ rest \in 0..Len(d)
        /\ \/ rest = Len(d) /\ \A i \in after..Len(d) - 1 : At(d, i) \notin units
           \/ /\ rest \in after..Len(d) - 1 /\ At(d, rest) \in units
              /\ \A i \in after..rest - 1 : At(d, i) \notin units
    <3> HIDE DEF units
    <3> QED
      BY <1>10, <1>13, FindIs
  <2> HIDE DEF units
  <2>4. At(d, e) \in units /\ e \in after..Len(d) - 1
    BY <1>3, <1>4, <1>10, <1>12, <2>1
  <2>5. rest \in after..Len(d) - 1 /\ At(d, rest) \in units
        /\ \A i \in after..rest - 1 : At(d, i) \notin units
    BY <2>3, <2>4
  <2>6. ~(rest < e)
    <3> SUFFICES ASSUME rest < e PROVE FALSE
      OBVIOUS
    <3>1. rest \in after..e - 1
      BY <1>4, <1>10, <2>5
    <3>2. At(d, rest) = Space
      BY <1>5, <1>9, <3>1 DEF Trims
    <3> QED
      BY <2>2, <2>5, <3>2
  <2>7. ~(e < rest)
    <3> SUFFICES ASSUME e < rest PROVE FALSE
      OBVIOUS
    <3>1. e \in after..rest - 1
      BY <1>4, <1>10, <2>5
    <3> QED
      BY <2>4, <2>5, <3>1
  <2>8. rest = e
    BY <1>4, <1>10, <2>5, <2>6, <2>7
  <2> QED
    BY <1>3, <1>12, <2>8
<1>15. InHostField(d, name)
  BY <1>8, <1>9, <1>10, <1>11, <1>13, <1>14 DEF InHostField
<1>16. after <= Len(d)
  BY <1>3, <1>4, <1>10
<1> QED
  BY <1>2, <1>3, <1>9, <1>15, <1>16 DEF Inside, AtField

(* A host that the lines give is in a Host field, at a line's beginning. *)
LEMMA FieldsAreNamed ==
    ASSUME NEW d \in Seq(Nat), NEW from \in 0..Len(d), Begins(d, from)
    PROVE  /\ HostField(d, from) \in Hints
           /\ \/ HostField(d, from).name.length = 0
              \/ AtField(d, HostField(d, from).name)
<1> DEFINE w == CHOOSE u : IsFieldWalk(d, from, u)
           end == Len(d)
<1>1. PICK u \in [from..end -> Hints] : IsFieldWalk(d, from, u)
  BY FieldWalkExists
<1>2. IsFieldWalk(d, from, w)
  BY <1>1
<1>3. HostField(d, from) = w[from]
  BY DEF HostField, IsFieldWalk
<1> HIDE DEF w
<1>4. w = [p \in from..end |-> FieldGives(d, p, w[NextLine(d, p)])]
  BY <1>2, FieldWalks
<1> DEFINE Good(v) == v \in Hints /\ (v.name.length = 0 \/ AtField(d, v.name))
           GoodAt == {p \in from..end : Begins(d, p) => Good(w[p])}
<1>5. Good(Malformed) /\ Good(Walked(TRUE, NoName))
  <2>1. NoName.length = 0
    BY DEF NoName
  <2> QED
    BY <2>1, HintsTyped
<1>6. ASSUME NEW p \in from..end, \A q \in p + 1..end : q \in GoodAt PROVE p \in GoodAt
  <2> SUFFICES ASSUME Begins(d, p) PROVE Good(w[p])
    OBVIOUS
  <2> DEFINE v == w[NextLine(d, p)]
  <2>1. w[p] = FieldGives(d, p, v)
    BY <1>4
  <2>2. p \in 0..Len(d)
    OBVIOUS
  <2>3. CASE IsField(d, p)
    <3>1. /\ NextLine(d, p) \in p + 1..end /\ At(d, NextLine(d, p) - 1) = Lf
          /\ FieldName(d, p) \in [offset : Nat, length : Nat]
      BY <2>2, <2>3, LinesGoOn DEF IsField
    <3>2. Begins(d, NextLine(d, p))
      BY <2>2, <3>1 DEF Begins
    <3>3. Good(v)
      BY <1>6, <3>1, <3>2
    <3> HIDE DEF v
    <3>4. CASE IsHostField(d, p, ColonAt(d, p))
      <4>1. w[p] = Then(FieldName(d, p), v)
        BY <2>1, <2>3, <3>4 DEF FieldGives
      <4>2. w[p] \in Hints /\ w[p].name \in {NoName, FieldName(d, p), v.name}
        BY <3>1, <3>3, <4>1, ThenTyped
      <4>3. FieldName(d, p).length = 0
            \/ AtField(d, FieldName(d, p))
        BY <2>2, <2>3, <3>4, FieldNamed
      <4>4. NoName.length = 0
        BY DEF NoName
      <4> QED
        BY <3>3, <4>2, <4>3, <4>4
    <3>5. CASE ~IsHostField(d, p, ColonAt(d, p))
      <4>1. w[p] = v
        BY <2>1, <2>3, <3>5 DEF FieldGives
      <4> QED
        BY <3>3, <4>1
    <3> QED
      BY <3>4, <3>5
  <2>4. CASE ~IsField(d, p)
    <3>1. w[p] \in {Malformed, Walked(TRUE, NoName)}
      BY <2>1, <2>4 DEF FieldGives
    <3> HIDE DEF Good
    <3> QED
      BY <1>5, <3>1
  <2> QED
    BY <2>3, <2>4
<1>7. \A p \in from..end : p \in GoodAt
  <2>1. from \in Int /\ end \in Int
    OBVIOUS
  <2> HIDE DEF GoodAt, end
  <2> QED
    BY <1>6, <2>1, WalkKeeps
<1>8. from \in from..end
  OBVIOUS
<1> QED
  BY <1>3, <1>7, <1>8

(* A host that parse_http finds lies in a Host field. *)
LEMMA HostIsNamed ==
    ASSUME NEW d \in Seq(Nat), HttpHost(d) # NoName
    PROVE  AtField(d, HttpHost(d))
<1> DEFINE from == RequestLine(d)
           field == IF from > 0 THEN HostField(d, from).name ELSE NoName
<1>1. HttpHost(d) = field /\ IsAuthority(Slice(d, field.offset, field.length))
  BY DEF HttpHost
<1>2. from > 0
  BY <1>1
<1>3. from \in 0..Len(d) /\ Begins(d, from)
  <2> DEFINE target == Find(d, 2, {Space} \cup EndsLine)
             version == Find(d, target + 1, EndsLine)
  <2>1. from = LineEnd(d, version)
    BY <1>2 DEF RequestLine
  <2>2. target \in Nat
    BY FindIs
  <2>3. version \in Nat
    <3> HIDE DEF target
    <3>1. target + 1 \in Nat
      BY <2>2
    <3> QED
      BY <3>1, FindIs
  <2> HIDE DEF version, target, from
  <2>4. from \in version + 1..Len(d) /\ At(d, from - 1) = Lf
    BY <1>2, <2>1, <2>3, LineEndIs
  <2> QED
    BY <2>3, <2>4 DEF Begins
<1>4. /\ HostField(d, from) \in Hints
      /\ field.length = 0 \/ AtField(d, field)
  BY <1>2, <1>3, FieldsAreNamed
<1>5. field.length # 0
  <2> SUFFICES ASSUME field.length = 0 PROVE FALSE
    OBVIOUS
  <2>1. field \in [offset : Nat, length : Nat]
    BY <1>2, <1>4 DEF Hints
  <2> DEFINE o == field.offset
  <2>2. o \in Nat
    BY <2>1
  <2> HIDE DEF o
  <2>3. SubSeq(d, o + 1, o + 0) = <<>>
    BY <2>2, SubSeqEmpty
  <2>4. Slice(d, o, 0) = <<>>
    BY <2>3 DEF Slice
  <2>5. IsAuthority(<<>>)
    BY <1>1, <2>4 DEF o
  <2>6. <<>> \in Seq(Nat) /\ Len(<<>>) = 0
    OBVIOUS
  <2>7. Find(<<>>, 0, {Colon}) \in 0..Len(<<>>)
    BY <2>6, FindIs
  <2>8. Find(<<>>, 0, {Colon}) = 0
    BY <2>6, <2>7
  <2> QED
    BY <2>5, <2>8 DEF IsAuthority
<1> QED
  BY <1>1, <1>4, <1>5

-----------------------------------------------------------------------------
(* The hints *)

(* The hints of a packet lie in its payload, where a host is announced. *)
LEMMA HintsPoint ==
    ASSUME NEW j \in Jobs, Tcp(j)
    PROVE  /\ Hinted(j).payload = j.payload /\ Hinted(j).length = Len(j.payload.units)
           /\ Tcp(Hinted(j)) /\ j.payload.units \in Seq(Nat)
           /\ Hinted(j).name # NoName =>
                /\ \/ InServerName(j.payload.units, Hinted(j).name)
                   \/ InHostField(j.payload.units, Hinted(j).name)
                /\ Inside(j.payload.units, Hinted(j).name)
<1> DEFINE d == j.payload.units
           h == Hinted(j)
<1>1. d \in Seq(Nat) /\ Len(d) = j.length
  BY PayloadsAssumption DEF PayloadsAssumption
<1>2. j \in TcpJob(j)
  BY JobsAssumption DEF JobsAssumption
<1>3. /\ h.payload = j.payload /\ h.length = j.length /\ h.protocol = j.protocol
      /\ h.name = IF IsClientHello(d) THEN Sni(d) ELSE HttpHost(d)
  BY <1>2 DEF TcpJob, Hinted
<1> HIDE DEF d, h
<1>4. CASE IsClientHello(d)
  <2>1. h.name = Sni(d)
    BY <1>3, <1>4
  <2> QED
    BY <1>1, <1>3, <1>4, <2>1, SniIsNamed DEF d, h, Tcp
<1>5. CASE ~IsClientHello(d)
  <2>1. h.name = HttpHost(d)
    BY <1>3, <1>5
  <2> QED
    BY <1>1, <1>3, <2>1, HostIsNamed DEF d, h, Tcp, AtField
<1> QED
  BY <1>4, <1>5

(* No step changes the packet that was captured. *)
LEMMA JobStays == [Next]_vars => job' = job
BY DEF Next, Deliver, DeliverDatagram, Expire, vars

(* Engine::process, parse_tls, parse_http: whatever bytes a payload holds, the hints are
   empty, or point into a server_name extension or a Host field that begins a line. *)
THEOREM HintsAreAlwaysAnnounced == Spec => []HintsAreAnnounced
<1>1. Init => HintsAreAnnounced
  <2> SUFFICES ASSUME Init, Tcp(job), job.name # NoName
               PROVE  \/ InServerName(job.payload.units, job.name)
                      \/ InHostField(job.payload.units, job.name)
    BY DEF HintsAreAnnounced
  <2>1. PICK j \in Jobs : job = IF j.protocol = "tcp" THEN Hinted(j) ELSE j
    BY DEF Init
  <2>2. Tcp(j) /\ job = Hinted(j)
    BY <2>1 DEF Tcp
  <2> QED
    BY <2>2, HintsPoint
<1>2. HintsAreAnnounced /\ [Next]_vars => HintsAreAnnounced'
  BY JobStays DEF HintsAreAnnounced, InServerName, InHostField, Tcp
<1> QED
  BY <1>1, <1>2, PTL DEF Spec

-----------------------------------------------------------------------------
(* The ClientHello that build_client_hello() makes, read back *)

(* The units s lie in d from o on. *)
Lies(d, o, s) ==
    /\ d \in Seq(Nat) /\ s \in Seq(Nat) /\ o \in Nat /\ o + Len(s) <= Len(d)
    /\ \A i \in 0..Len(s) - 1 : At(d, o + i) = At(s, i)

(* What is written one behind the other lies one behind the other. *)
LEMMA LiesSplit ==
    ASSUME NEW d, NEW o, NEW s \in Seq(Nat), NEW t \in Seq(Nat), Lies(d, o, s \o t)
    PROVE  Lies(d, o, s) /\ Lies(d, o + Len(s), t)
<1> DEFINE m == Len(s)
           n == Len(t)
           st == s \o t
<1>1. m \in Nat /\ n \in Nat
  OBVIOUS
<1>2. /\ Len(st) = m + n
      /\ \A i \in 1..m + n : st[i] = IF i <= m THEN s[i] ELSE t[i - m]
  BY ConcatProperties
<1>3. /\ d \in Seq(Nat) /\ o \in Nat /\ o + (m + n) <= Len(d)
      /\ \A i \in 0..(m + n) - 1 : At(d, o + i) = At(st, i)
  BY <1>2 DEF Lies
<1>4. ASSUME NEW i \in 0..m - 1 PROVE At(d, o + i) = At(s, i)
  <2>1. i + 1 \in 1..m + n /\ i + 1 <= m /\ i \in 0..(m + n) - 1
    BY <1>1
  <2>2. st[i + 1] = s[i + 1]
    BY <1>2, <2>1
  <2> QED
    BY <1>3, <2>1, <2>2 DEF At
<1>5. ASSUME NEW i \in 0..n - 1 PROVE At(d, (o + m) + i) = At(t, i)
  <2>1. /\ m + i + 1 \in 1..m + n /\ ~(m + i + 1 <= m) /\ m + i \in 0..(m + n) - 1
        /\ (m + i + 1) - m = i + 1
    BY <1>1
  <2>2. st[m + i + 1] = t[i + 1]
    BY <1>2, <2>1
  <2>3. At(d, o + (m + i)) = At(st, m + i)
    BY <1>3, <2>1
  <2>4. o + (m + i) = (o + m) + i /\ (m + i) + 1 = m + i + 1
    BY <1>1, <1>3
  <2> HIDE DEF st, m, n
  <2> QED
    BY <2>2, <2>3, <2>4 DEF At
<1>6. o + m \in Nat /\ o + m <= Len(d) /\ (o + m) + n <= Len(d)
  BY <1>1, <1>3
<1> HIDE DEF st
<1> QED
  BY <1>3, <1>4, <1>5, <1>6 DEF Lies

(* How long what is written is. *)
LEMMA ConcatIs ==
    ASSUME NEW s \in Seq(Nat), NEW t \in Seq(Nat)
    PROVE  s \o t \in Seq(Nat) /\ Len(s \o t) = Len(s) + Len(t)
BY ConcatProperties

LEMMA FilledIs ==
    ASSUME NEW n \in Nat
    PROVE  Filled(n) \in Seq(Nat) /\ Len(Filled(n)) = n
BY DEF Filled

(* A vector: its type, its length and its content. *)
LEMMA VectorIs ==
    ASSUME NEW type \in Nat, NEW content \in Seq(Nat)
    PROVE  /\ Vector(type, content) \in Seq(Nat)
           /\ Len(Vector(type, content)) = 2 + Len(content)
<1>1. <<type, Len(content)>> \in Seq(Nat) /\ Len(<<type, Len(content)>>) = 2
  OBVIOUS
<1> QED
  BY <1>1, ConcatProperties DEF Vector

LEMMA FilledVector ==
    ASSUME NEW type \in Nat, NEW n \in Nat
    PROVE  Vector(type, Filled(n)) \in Seq(Nat) /\ Len(Vector(type, Filled(n))) = 2 + n
<1> DEFINE content == Filled(n)
<1>1. content \in Seq(Nat) /\ Len(content) = n
  BY FilledIs
<1> HIDE DEF content
<1>2. Vector(type, content) \in Seq(Nat) /\ Len(Vector(type, content)) = 2 + Len(content)
  BY <1>1, VectorIs
<1> QED
  BY <1>1, <1>2 DEF content

(* A vector that lies in the payload is read back. *)
LEMMA VectorLies ==
    ASSUME NEW type \in Nat, NEW content \in Seq(Nat), NEW d, NEW o,
           Lies(d, o, Vector(type, content))
    PROVE  /\ At(d, o) = type /\ At(d, o + 1) = Len(content)
           /\ Lies(d, o + 2, content)
<1> DEFINE head == <<type, Len(content)>>
<1>1. head \in Seq(Nat) /\ Len(head) = 2 /\ At(head, 0) = type /\ At(head, 1) = Len(content)
  BY DEF At
<1>2. Lies(d, o, head \o content)
  BY DEF Vector
<1> HIDE DEF head
<1>3. Lies(d, o, head) /\ Lies(d, o + 2, content)
  BY <1>1, <1>2, LiesSplit
<1>4. o \in Nat /\ At(d, o + 0) = At(head, 0) /\ At(d, o + 1) = At(head, 1)
  BY <1>1, <1>3 DEF Lies
<1>5. o + 0 = o
  BY <1>4
<1> QED
  BY <1>1, <1>3, <1>4, <1>5

(* The parts of what build_client_hello() makes. *)
NamesOf(sni) == <<HostName, Len(sni)>> \o sni
ListOf(sni) == <<Len(NamesOf(sni))>> \o NamesOf(sni)
ExtensionsOf(sni) ==
    Vector(ServerName, ListOf(sni)) \o Vector(43, Filled(5)) \o Vector(10, Filled(6))
        \o Vector(13, Filled(10)) \o Vector(16, Filled(5))
BodyOf(sni) ==
    <<0, 0, 6>> \o Filled(6) \o <<1, 0, Len(ExtensionsOf(sni))>> \o ExtensionsOf(sni)

(* How long the parts are. *)
LEMMA PartsAre ==
    ASSUME NEW sni \in Seq(Nat)
    PROVE  /\ NamesOf(sni) \in Seq(Nat) /\ Len(NamesOf(sni)) = Len(sni) + 2
           /\ ListOf(sni) \in Seq(Nat) /\ Len(ListOf(sni)) = Len(sni) + 3
           /\ ExtensionsOf(sni) \in Seq(Nat) /\ Len(ExtensionsOf(sni)) = Len(sni) + 39
           /\ BodyOf(sni) \in Seq(Nat) /\ Len(BodyOf(sni)) = Len(sni) + 51
<1>1. NamesOf(sni) \in Seq(Nat) /\ Len(NamesOf(sni)) = Len(sni) + 2
  <2>1. <<HostName, Len(sni)>> \in Seq(Nat) /\ Len(<<HostName, Len(sni)>>) = 2
    BY DEF HostName
  <2> QED
    BY <2>1, ConcatIs DEF NamesOf
<1> DEFINE names == NamesOf(sni)
<1> HIDE DEF names
<1>2. ListOf(sni) \in Seq(Nat) /\ Len(ListOf(sni)) = Len(sni) + 3
  <2>1. names \in Seq(Nat) /\ Len(names) = Len(sni) + 2
    BY <1>1 DEF names
  <2>2. <<Len(names)>> \in Seq(Nat) /\ Len(<<Len(names)>>) = 1
    BY <2>1
  <2>3. ListOf(sni) = <<Len(names)>> \o names
    BY DEF ListOf, names
  <2> QED
    BY <2>1, <2>2, <2>3, ConcatIs
<1>3. ExtensionsOf(sni) \in Seq(Nat) /\ Len(ExtensionsOf(sni)) = Len(sni) + 39
  <2> DEFINE a == Vector(ServerName, ListOf(sni))
             b == Vector(43, Filled(5))
             c == Vector(10, Filled(6))
             e == Vector(13, Filled(10))
             f == Vector(16, Filled(5))
  <2>1. a \in Seq(Nat) /\ Len(a) = Len(sni) + 5
    <3>1. ServerName \in Nat
      BY DEF ServerName
    <3>2. a \in Seq(Nat) /\ Len(a) = 2 + Len(ListOf(sni))
      BY <1>2, <3>1, VectorIs
    <3> QED
      BY <1>2, <3>2
  <2>2. b \in Seq(Nat) /\ Len(b) = 7
    <3>0. 5 \in Nat /\ 43 \in Nat
      OBVIOUS
    <3>1. b \in Seq(Nat) /\ Len(b) = 2 + 5
      BY <3>0, FilledVector
    <3> HIDE DEF b
    <3> QED
      BY <3>1
  <2>3. c \in Seq(Nat) /\ Len(c) = 8
    <3>0. 6 \in Nat /\ 10 \in Nat
      OBVIOUS
    <3>1. c \in Seq(Nat) /\ Len(c) = 2 + 6
      BY <3>0, FilledVector
    <3> HIDE DEF c
    <3> QED
      BY <3>1
  <2>4. e \in Seq(Nat) /\ Len(e) = 12
    <3>0. 10 \in Nat /\ 13 \in Nat
      OBVIOUS
    <3>1. e \in Seq(Nat) /\ Len(e) = 2 + 10
      BY <3>0, FilledVector
    <3> HIDE DEF e
    <3> QED
      BY <3>1
  <2>5. f \in Seq(Nat) /\ Len(f) = 7
    <3>0. 5 \in Nat /\ 16 \in Nat
      OBVIOUS
    <3>1. f \in Seq(Nat) /\ Len(f) = 2 + 5
      BY <3>0, FilledVector
    <3> HIDE DEF f
    <3> QED
      BY <3>1
  <2>6. ExtensionsOf(sni) = (((a \o b) \o c) \o e) \o f
    BY DEF ExtensionsOf
  <2> HIDE DEF a, b, c, e, f
  <2>7. a \o b \in Seq(Nat) /\ Len(a \o b) = Len(sni) + 12
    <3>1. a \o b \in Seq(Nat) /\ Len(a \o b) = Len(a) + Len(b)
      BY <2>1, <2>2, ConcatIs
    <3> QED
      BY <2>1, <2>2, <3>1
  <2> DEFINE ab == a \o b
  <2> HIDE DEF ab
  <2>8. ab \o c \in Seq(Nat) /\ Len(ab \o c) = Len(sni) + 20
    <3>1. ab \o c \in Seq(Nat) /\ Len(ab \o c) = Len(ab) + Len(c)
      BY <2>3, <2>7, ConcatIs DEF ab
    <3> QED
      BY <2>3, <2>7, <3>1 DEF ab
  <2> DEFINE abc == ab \o c
  <2> HIDE DEF abc
  <2>9. abc \o e \in Seq(Nat) /\ Len(abc \o e) = Len(sni) + 32
    <3>1. abc \o e \in Seq(Nat) /\ Len(abc \o e) = Len(abc) + Len(e)
      BY <2>4, <2>8, ConcatIs DEF abc
    <3> QED
      BY <2>4, <2>8, <3>1 DEF abc
  <2> DEFINE abce == abc \o e
  <2> HIDE DEF abce
  <2>10. abce \o f \in Seq(Nat) /\ Len(abce \o f) = Len(sni) + 39
    <3>1. abce \o f \in Seq(Nat) /\ Len(abce \o f) = Len(abce) + Len(f)
      BY <2>5, <2>9, ConcatIs DEF abce
    <3> QED
      BY <2>5, <2>9, <3>1 DEF abce
  <2> QED
    BY <2>6, <2>10 DEF ab, abc, abce
<1>4. BodyOf(sni) \in Seq(Nat) /\ Len(BodyOf(sni)) = Len(sni) + 51
  <2> DEFINE x == ExtensionsOf(sni)
             a == <<0, 0, 6>>
             b == Filled(6)
             c == <<1, 0, Len(x)>>
  <2>1. x \in Seq(Nat) /\ Len(x) = Len(sni) + 39
    BY <1>3
  <2>2. BodyOf(sni) = ((a \o b) \o c) \o x
    BY DEF BodyOf
  <2> HIDE DEF x
  <2>3. a \in Seq(Nat) /\ Len(a) = 3
    OBVIOUS
  <2>4. b \in Seq(Nat) /\ Len(b) = 6
    BY FilledIs
  <2>5. c \in Seq(Nat) /\ Len(c) = 3
    BY <2>1
  <2> HIDE DEF a, b, c
  <2>6. a \o b \in Seq(Nat) /\ Len(a \o b) = 9
    <3>1. a \o b \in Seq(Nat) /\ Len(a \o b) = Len(a) + Len(b)
      BY <2>3, <2>4, ConcatIs
    <3> QED
      BY <2>3, <2>4, <3>1
  <2> DEFINE ab == a \o b
  <2> HIDE DEF ab
  <2>7. ab \o c \in Seq(Nat) /\ Len(ab \o c) = 12
    <3>1. ab \o c \in Seq(Nat) /\ Len(ab \o c) = Len(ab) + Len(c)
      BY <2>5, <2>6, ConcatIs DEF ab
    <3> QED
      BY <2>5, <2>6, <3>1 DEF ab
  <2> DEFINE abc == ab \o c
  <2> HIDE DEF abc
  <2>8. abc \o x \in Seq(Nat) /\ Len(abc \o x) = Len(sni) + 51
    <3>1. abc \o x \in Seq(Nat) /\ Len(abc \o x) = Len(abc) + Len(x)
      BY <2>1, <2>7, ConcatIs DEF abc
    <3> QED
      BY <2>1, <2>7, <3>1 DEF abc
  <2> QED
    BY <2>2, <2>8 DEF ab, abc
<1> QED
  BY <1>1, <1>2, <1>3, <1>4

(* Where the five extensions stand. *)
LEMMA ExtensionsLie ==
    ASSUME NEW sni \in Seq(Nat), NEW d, NEW o, Lies(d, o, ExtensionsOf(sni))
    PROVE  /\ At(d, o) = ServerName /\ At(d, o + 1) = Len(sni) + 3
           /\ At(d, o + 2) = Len(sni) + 2
           /\ At(d, o + 3) = HostName /\ At(d, o + 4) = Len(sni) /\ Lies(d, o + 5, sni)
           /\ At(d, o + Len(sni) + 5) = 43 /\ At(d, o + Len(sni) + 6) = 5
           /\ At(d, o + Len(sni) + 12) = 10 /\ At(d, o + Len(sni) + 13) = 6
           /\ At(d, o + Len(sni) + 20) = 13 /\ At(d, o + Len(sni) + 21) = 10
           /\ At(d, o + Len(sni) + 32) = 16 /\ At(d, o + Len(sni) + 33) = 5
<1> DEFINE n == Len(sni)
           a == Vector(ServerName, ListOf(sni))
           b == Vector(43, Filled(5))
           c == Vector(10, Filled(6))
           e == Vector(13, Filled(10))
           f == Vector(16, Filled(5))
<1>1. n \in Nat /\ o \in Nat
  BY DEF Lies
<1>2. ListOf(sni) \in Seq(Nat) /\ Len(ListOf(sni)) = n + 3 /\ ServerName \in Nat
  BY PartsAre DEF ServerName
<1>3. a \in Seq(Nat) /\ Len(a) = n + 5
  <2>1. a \in Seq(Nat) /\ Len(a) = 2 + Len(ListOf(sni))
    BY <1>2, VectorIs
  <2> QED
    BY <1>1, <1>2, <2>1
<1>4. /\ 43 \in Nat /\ 10 \in Nat /\ 13 \in Nat /\ 16 \in Nat /\ 5 \in Nat /\ 6 \in Nat
  OBVIOUS
<1>5. /\ b \in Seq(Nat) /\ Len(b) = 2 + 5 /\ c \in Seq(Nat) /\ Len(c) = 2 + 6
      /\ e \in Seq(Nat) /\ Len(e) = 2 + 10 /\ f \in Seq(Nat) /\ Len(f) = 2 + 5
  BY <1>4, FilledVector
<1> DEFINE ab == a \o b
           abc == ab \o c
           abce == abc \o e
<1>6. Lies(d, o, abce \o f)
  BY DEF ExtensionsOf
<1> HIDE DEF n, a, b, c, e, f, abce
<1>7. ab \in Seq(Nat) /\ Len(ab) = Len(a) + Len(b)
  BY <1>3, <1>5, ConcatIs
<1> HIDE DEF ab
<1>8. abc \in Seq(Nat) /\ Len(abc) = Len(ab) + Len(c)
  BY <1>5, <1>7, ConcatIs
<1> HIDE DEF abc
<1>9. abce \in Seq(Nat) /\ Len(abce) = Len(abc) + Len(e)
  BY <1>5, <1>8, ConcatIs DEF abce
<1>10. Lies(d, o, abce) /\ Lies(d, o + Len(abce), f)
  BY <1>5, <1>6, <1>9, LiesSplit
<1>11. Lies(d, o, abc) /\ Lies(d, o + Len(abc), e)
  BY <1>5, <1>8, <1>10, LiesSplit DEF abce
<1>12. Lies(d, o, ab) /\ Lies(d, o + Len(ab), c)
  BY <1>5, <1>7, <1>11, LiesSplit DEF abc
<1>13. Lies(d, o, a) /\ Lies(d, o + Len(a), b)
  BY <1>3, <1>5, <1>12, LiesSplit DEF ab
<1>14. /\ o + Len(a) = o + n + 5 /\ o + Len(ab) = o + n + 12
       /\ o + Len(abc) = o + n + 20 /\ o + Len(abce) = o + n + 32
  BY <1>1, <1>3, <1>5, <1>7, <1>8, <1>9
<1>15. ASSUME NEW type \in Nat, NEW k \in Nat, NEW p, Lies(d, p, Vector(type, Filled(k)))
       PROVE  At(d, p) = type /\ At(d, p + 1) = k
  BY <1>15, FilledIs, VectorLies
<1>16. /\ At(d, o + n + 5) = 43 /\ At(d, (o + n + 5) + 1) = 5
  BY <1>4, <1>13, <1>14, <1>15 DEF b
<1>17. /\ At(d, o + n + 12) = 10 /\ At(d, (o + n + 12) + 1) = 6
  BY <1>4, <1>12, <1>14, <1>15 DEF c
<1>18. /\ At(d, o + n + 20) = 13 /\ At(d, (o + n + 20) + 1) = 10
  BY <1>4, <1>11, <1>14, <1>15 DEF e
<1>19. /\ At(d, o + n + 32) = 16 /\ At(d, (o + n + 32) + 1) = 5
  BY <1>4, <1>10, <1>14, <1>15 DEF f
<1>20. At(d, o) = ServerName /\ At(d, o + 1) = n + 3 /\ Lies(d, o + 2, ListOf(sni))
  BY <1>2, <1>13, VectorLies DEF a
<1> DEFINE names == NamesOf(sni)
<1>21. names \in Seq(Nat) /\ Len(names) = n + 2
  BY PartsAre DEF n
<1>22. Lies(d, o + 2, <<Len(names)>> \o names)
  BY <1>20 DEF ListOf
<1> HIDE DEF names
<1>23. Lies(d, o + 2, <<Len(names)>>) /\ Lies(d, (o + 2) + 1, names)
  <2> DEFINE s == <<Len(names)>>
  <2>1. s \in Seq(Nat) /\ Len(s) = 1
    BY <1>21
  <2> HIDE DEF s
  <2>2. Lies(d, o + 2, s) /\ Lies(d, (o + 2) + Len(s), names)
    BY <1>21, <1>22, <2>1, LiesSplit DEF s
  <2> QED
    BY <2>1, <2>2 DEF s
<1>24. At(d, o + 2) = n + 2
  <2> DEFINE s == <<Len(names)>>
  <2>1. Len(s) = 1 /\ At(s, 0) = n + 2
    BY <1>21 DEF At
  <2> HIDE DEF s
  <2>2. Lies(d, o + 2, s)
    BY <1>23 DEF s
  <2>3. At(d, (o + 2) + 0) = At(s, 0)
    BY <2>1, <2>2 DEF Lies
  <2>4. (o + 2) + 0 = o + 2
    BY <1>1
  <2> QED
    BY <2>1, <2>3, <2>4
<1>25. /\ At(d, (o + 2) + 1) = HostName /\ At(d, (o + 2) + 2) = n
       /\ Lies(d, (o + 2) + 3, sni)
  <2> DEFINE s == <<HostName, n>>
             p == (o + 2) + 1
  <2>1. s \in Seq(Nat) /\ Len(s) = 2 /\ At(s, 0) = HostName /\ At(s, 1) = n
    BY <1>1 DEF At, HostName
  <2>2. p \in Nat /\ p + 0 = p /\ p + 1 = (o + 2) + 2 /\ p + 2 = (o + 2) + 3
    BY <1>1
  <2>3. Lies(d, p, s \o sni)
    BY <1>23 DEF names, NamesOf, n
  <2> HIDE DEF s, p
  <2>4. Lies(d, p, s) /\ Lies(d, p + 2, sni)
    <3>1. Lies(d, p, s) /\ Lies(d, p + Len(s), sni)
      BY <2>1, <2>3, LiesSplit
    <3> QED
      BY <2>1, <3>1
  <2>5. At(d, p + 0) = At(s, 0) /\ At(d, p + 1) = At(s, 1)
    BY <2>1, <2>4 DEF Lies
  <2>6. At(d, p) = HostName /\ At(d, (o + 2) + 2) = n /\ Lies(d, (o + 2) + 3, sni)
    BY <2>1, <2>2, <2>4, <2>5
  <2> QED
    BY <2>6 DEF p
<1>26. /\ (o + n + 5) + 1 = o + n + 6 /\ (o + n + 12) + 1 = o + n + 13
       /\ (o + n + 20) + 1 = o + n + 21 /\ (o + n + 32) + 1 = o + n + 33
       /\ (o + 2) + 1 = o + 3 /\ (o + 2) + 2 = o + 4 /\ (o + 2) + 3 = o + 5
  BY <1>1
<1> QED
  BY <1>16, <1>17, <1>18, <1>19, <1>20, <1>24, <1>25, <1>26 DEF n

(* A list of one name, and an extension that holds no name. *)
LEMMA OneNameRead ==
    ASSUME NEW d \in Seq(Nat), NEW q \in Nat, NEW n \in Nat \ {0}, q + 2 + n <= Len(d),
           At(d, q) = HostName, At(d, q + 1) = n
    PROVE  NameList(d, q, q + 2 + n) = Walked(TRUE, Place(q + 2, n))
<1> DEFINE end == q + 2 + n
           w == CHOOSE u : IsNameWalk(d, q, end, u)
<1>1. end \in Nat /\ q <= end /\ end <= Len(d) /\ q \in q..end /\ end \in q..end
  OBVIOUS
<1>2. \E u : IsNameWalk(d, q, end, u)
  BY <1>1, NameWalkExists
<1>3. IsNameWalk(d, q, end, w)
  BY <1>2
<1>4. NameList(d, q, end) = w[q]
  BY DEF NameList, IsNameWalk
<1> HIDE DEF w
<1>5. Have(q, 2, end) /\ Have(q + 2, n, end) /\ ~Have(end, 2, end)
  BY DEF Have
<1>6. w[end] = Walked(TRUE, NoName)
  BY <1>1, <1>3, <1>5 DEF IsNameWalk
<1>7. w[q] = Then(Place(q + 2, n), w[end])
  <2>1. n > 0
    OBVIOUS
  <2> QED
    BY <1>1, <1>3, <1>5, <2>1 DEF IsNameWalk
<1>8. Place(q + 2, n) # NoName
  BY DEF Place, NoName
<1>9. Then(Place(q + 2, n), Walked(TRUE, NoName)) = Walked(TRUE, Place(q + 2, n))
  BY <1>8 DEF Then, Walked, FirstOf
<1> QED
  BY <1>4, <1>6, <1>7, <1>9

(* An extension of another kind is passed. *)
LEMMA OtherPassed ==
    ASSUME NEW d, NEW from \in Nat, NEW end \in Nat, NEW w, IsExtensionWalk(d, from, end, w),
           NEW p \in from..end, NEW k \in Nat, p + 2 + k <= end,
           At(d, p) # ServerName, At(d, p + 1) = k, w[p + 2 + k] = Walked(TRUE, NoName)
    PROVE  w[p] = Walked(TRUE, NoName)
<1>1. Have(p, 2, end) /\ Have(p + 2, k, end)
  BY DEF Have
<1>2. w[p] = IF ~Walked(TRUE, NoName).ok THEN Malformed
             ELSE Then(Walked(TRUE, NoName).name, Walked(TRUE, NoName))
  BY <1>1 DEF IsExtensionWalk
<1>3. Walked(TRUE, NoName).ok = TRUE /\ Walked(TRUE, NoName).name = NoName
  BY DEF Walked
<1>4. Then(NoName, Walked(TRUE, NoName)) = Walked(TRUE, NoName)
  BY DEF Then, Walked, FirstOf
<1> QED
  BY <1>2, <1>3, <1>4

(* The extensions are walked to the end, and give the one name. *)
LEMMA ExtensionsRead ==
    ASSUME NEW sni \in Seq(Nat), Len(sni) # 0, NEW d, NEW o,
           Lies(d, o, ExtensionsOf(sni))
    PROVE  Extensions(d, o, o + Len(sni) + 39) = Walked(TRUE, Place(o + 5, Len(sni)))
<1> DEFINE n == Len(sni)
           end == o + n + 39
           w == CHOOSE u : IsExtensionWalk(d, o, end, u)
<1>1. n \in Nat \ {0} /\ o \in Nat /\ d \in Seq(Nat) /\ end <= Len(d)
  <2>1. Len(ExtensionsOf(sni)) = n + 39
    BY PartsAre
  <2> QED
    BY <2>1 DEF Lies
<1>2. /\ At(d, o) = ServerName /\ At(d, o + 1) = n + 3 /\ At(d, o + 2) = n + 2
      /\ At(d, o + 3) = HostName /\ At(d, o + 4) = n
      /\ At(d, o + n + 5) = 43 /\ At(d, o + n + 6) = 5
      /\ At(d, o + n + 12) = 10 /\ At(d, o + n + 13) = 6
      /\ At(d, o + n + 20) = 13 /\ At(d, o + n + 21) = 10
      /\ At(d, o + n + 32) = 16 /\ At(d, o + n + 33) = 5
  BY ExtensionsLie
<1> HIDE DEF n
<1>3. end \in Nat /\ o <= end
  BY <1>1
<1>4. IsExtensionWalk(d, o, end, w)
  <2>1. \E u : IsExtensionWalk(d, o, end, u)
    <3> HIDE DEF end
    <3> QED
      BY <1>1, <1>3, ExtensionWalkExists
  <2> QED
    BY <2>1
<1>5. Extensions(d, o, end) = w[o]
  BY DEF Extensions, IsExtensionWalk
<1> HIDE DEF w
<1>6. w[end] = Walked(TRUE, NoName)
  <2>1. end \in o..end /\ ~Have(end, 2, end)
    BY <1>1 DEF Have
  <2> HIDE DEF end
  <2> QED
    BY <1>4, <2>1 DEF IsExtensionWalk
<1>63. ASSUME NEW p \in o..end, NEW k \in Nat, p + 2 + k <= end, At(d, p) # ServerName,
              At(d, p + 1) = k, w[p + 2 + k] = Walked(TRUE, NoName)
       PROVE  w[p] = Walked(TRUE, NoName)
  <2> HIDE DEF end
  <2>1. o \in Nat /\ end \in Nat /\ end <= Len(d) /\ d \in Seq(Nat)
    BY <1>1, <1>3
  <2> QED
    BY <1>4, <1>63, <2>1, OtherPassed
<1>7. w[o + n + 32] = Walked(TRUE, NoName)
  <2> DEFINE p == o + n + 32
  <2>1. p \in o..end /\ p + 2 + 5 = end /\ p + 1 = o + n + 33 /\ 5 \in Nat /\ end <= end
    BY <1>1
  <2>2. At(d, p) # ServerName /\ At(d, p + 1) = 5
    BY <1>2, <2>1 DEF ServerName
  <2> HIDE DEF p, end
  <2>3. p + 2 + 5 <= end /\ w[p + 2 + 5] = Walked(TRUE, NoName)
    BY <1>6, <2>1
  <2>4. ASSUME NEW k \in Nat, At(d, p + 1) = k, p + 2 + k <= end,
               w[p + 2 + k] = Walked(TRUE, NoName)
        PROVE  w[p] = Walked(TRUE, NoName)
    BY <1>63, <2>1, <2>2, <2>4
  <2>5. w[p] = Walked(TRUE, NoName)
    BY <2>1, <2>2, <2>3, <2>4
  <2> QED
    BY <2>5 DEF p
<1>8. w[o + n + 20] = Walked(TRUE, NoName)
  <2> DEFINE p == o + n + 20
  <2>1. p \in o..end /\ p + 2 + 10 = o + n + 32 /\ p + 1 = o + n + 21 /\ 10 \in Nat
        /\ o + n + 32 <= end
    BY <1>1
  <2>2. At(d, p) # ServerName /\ At(d, p + 1) = 10
    BY <1>2, <2>1 DEF ServerName
  <2> HIDE DEF p, end
  <2>3. p + 2 + 10 <= end /\ w[p + 2 + 10] = Walked(TRUE, NoName)
    BY <1>7, <2>1
  <2>4. ASSUME NEW k \in Nat, At(d, p + 1) = k, p + 2 + k <= end,
               w[p + 2 + k] = Walked(TRUE, NoName)
        PROVE  w[p] = Walked(TRUE, NoName)
    BY <1>63, <2>1, <2>2, <2>4
  <2>5. w[p] = Walked(TRUE, NoName)
    BY <2>1, <2>2, <2>3, <2>4
  <2> QED
    BY <2>5 DEF p
<1>9. w[o + n + 12] = Walked(TRUE, NoName)
  <2> DEFINE p == o + n + 12
  <2>1. p \in o..end /\ p + 2 + 6 = o + n + 20 /\ p + 1 = o + n + 13 /\ 6 \in Nat
        /\ o + n + 20 <= end
    BY <1>1
  <2>2. At(d, p) # ServerName /\ At(d, p + 1) = 6
    BY <1>2, <2>1 DEF ServerName
  <2> HIDE DEF p, end
  <2>3. p + 2 + 6 <= end /\ w[p + 2 + 6] = Walked(TRUE, NoName)
    BY <1>8, <2>1
  <2>4. ASSUME NEW k \in Nat, At(d, p + 1) = k, p + 2 + k <= end,
               w[p + 2 + k] = Walked(TRUE, NoName)
        PROVE  w[p] = Walked(TRUE, NoName)
    BY <1>63, <2>1, <2>2, <2>4
  <2>5. w[p] = Walked(TRUE, NoName)
    BY <2>1, <2>2, <2>3, <2>4
  <2> QED
    BY <2>5 DEF p
<1>10. w[o + n + 5] = Walked(TRUE, NoName)
  <2> DEFINE p == o + n + 5
  <2>1. p \in o..end /\ p + 2 + 5 = o + n + 12 /\ p + 1 = o + n + 6 /\ 5 \in Nat
        /\ o + n + 12 <= end
    BY <1>1
  <2>2. At(d, p) # ServerName /\ At(d, p + 1) = 5
    BY <1>2, <2>1 DEF ServerName
  <2> HIDE DEF p, end
  <2>3. p + 2 + 5 <= end /\ w[p + 2 + 5] = Walked(TRUE, NoName)
    BY <1>9, <2>1
  <2>4. ASSUME NEW k \in Nat, At(d, p + 1) = k, p + 2 + k <= end,
               w[p + 2 + k] = Walked(TRUE, NoName)
        PROVE  w[p] = Walked(TRUE, NoName)
    BY <1>63, <2>1, <2>2, <2>4
  <2>5. w[p] = Walked(TRUE, NoName)
    BY <2>1, <2>2, <2>3, <2>4
  <2> QED
    BY <2>5 DEF p
<1>11. NamedAt(d, o) = Walked(TRUE, Place(o + 5, n))
  <2> DEFINE q == o + 3
  <2>1. q \in Nat /\ q + 2 + n <= Len(d) /\ q + 1 = o + 4 /\ q + 2 = o + 5
        /\ (o + 2) + 1 = q /\ (o + 2) + 1 + (n + 2) = q + 2 + n
    BY <1>1
  <2>2. At(d, q) = HostName /\ At(d, q + 1) = n
    BY <1>2, <2>1
  <2>3. NameList(d, q, q + 2 + n) = Walked(TRUE, Place(q + 2, n))
    <3> HIDE DEF q
    <3> QED
      BY <1>1, <2>1, <2>2, OneNameRead
  <2>4. ServerNames(d, o + 2, n + 3) = NameList(d, (o + 2) + 1, (o + 2) + 1 + (n + 2))
    <3>1. ~(n + 2 > (n + 3) - 1)
      BY <1>1
    <3> QED
      BY <1>2, <3>1 DEF ServerNames
  <2>5. NamedAt(d, o) = ServerNames(d, o + 2, n + 3)
    <3>1. n + 3 >= 1
      BY <1>1
    <3> QED
      BY <1>2, <3>1 DEF NamedAt
  <2> HIDE DEF q
  <2> QED
    BY <2>1, <2>3, <2>4, <2>5
<1>12. w[o] = Then(Place(o + 5, n), Walked(TRUE, NoName))
  <2>1. /\ o \in o..end /\ Have(o, 2, end) /\ Have(o + 2, n + 3, end)
        /\ o + 2 + (n + 3) = o + n + 5
    BY <1>1 DEF Have
  <2>2. w[o] = IF ~Have(o, 2, end) THEN Walked(TRUE, NoName)
               ELSE IF ~Have(o + 2, n + 3, end) \/ ~NamedAt(d, o).ok THEN Malformed
               ELSE Then(NamedAt(d, o).name, w[o + 2 + (n + 3)])
    <3>1. w[o] = IF ~Have(o, 2, end) THEN Walked(TRUE, NoName)
                 ELSE IF ~Have(o + 2, At(d, o + 1), end) \/ ~NamedAt(d, o).ok THEN Malformed
                 ELSE Then(NamedAt(d, o).name, w[o + 2 + At(d, o + 1)])
      <4> HIDE DEF end
      <4> QED
        BY <1>4, <2>1 DEF IsExtensionWalk, NamedAt
    <3> QED
      BY <1>2, <3>1
  <2>3. NamedAt(d, o).ok = TRUE /\ NamedAt(d, o).name = Place(o + 5, n)
    BY <1>11 DEF Walked
  <2> HIDE DEF end
  <2> QED
    BY <1>10, <2>1, <2>2, <2>3
<1>13. Place(o + 5, n) # NoName
  BY <1>1 DEF Place, NoName
<1>14. Then(Place(o + 5, n), Walked(TRUE, NoName)) = Walked(TRUE, Place(o + 5, n))
  BY <1>13 DEF Then, Walked, FirstOf
<1> QED
  BY <1>5, <1>12, <1>14 DEF n

(* Where the fields of the body stand. *)
LEMMA BodyLies ==
    ASSUME NEW sni \in Seq(Nat), NEW d, NEW o, Lies(d, o, BodyOf(sni))
    PROVE  /\ At(d, o + 1) = 0 /\ At(d, o + 2) = 6 /\ At(d, o + 9) = 1
           /\ At(d, o + 11) = Len(sni) + 39 /\ Lies(d, o + 12, ExtensionsOf(sni))
<1> DEFINE x == ExtensionsOf(sni)
           a == <<0, 0, 6>>
           b == Filled(6)
           c == <<1, 0, Len(x)>>
           ab == a \o b
           abc == ab \o c
<1>1. x \in Seq(Nat) /\ Len(x) = Len(sni) + 39
  BY PartsAre
<1>2. Lies(d, o, abc \o x)
  BY DEF BodyOf
<1>3. a \in Seq(Nat) /\ Len(a) = 3 /\ At(a, 1) = 0 /\ At(a, 2) = 6
  BY DEF At
<1>4. b \in Seq(Nat) /\ Len(b) = 6
  <2>1. 6 \in Nat
    OBVIOUS
  <2> QED
    BY <2>1, FilledIs
<1> HIDE DEF x
<1>5. c \in Seq(Nat) /\ Len(c) = 3 /\ At(c, 0) = 1 /\ At(c, 2) = Len(x)
  BY <1>1 DEF At
<1> HIDE DEF a, b, c, abc
<1>6. ab \in Seq(Nat) /\ Len(ab) = 9
  <2>1. ab \in Seq(Nat) /\ Len(ab) = Len(a) + Len(b)
    BY <1>3, <1>4, ConcatIs
  <2> HIDE DEF ab
  <2> QED
    BY <1>3, <1>4, <2>1
<1> HIDE DEF ab
<1>7. abc \in Seq(Nat) /\ Len(abc) = 12
  <2>1. abc \in Seq(Nat) /\ Len(abc) = Len(ab) + Len(c)
    BY <1>5, <1>6, ConcatIs DEF abc
  <2> QED
    BY <1>5, <1>6, <2>1
<1>8. Lies(d, o, abc) /\ Lies(d, o + 12, x)
  <2>1. Lies(d, o, abc) /\ Lies(d, o + Len(abc), x)
    BY <1>1, <1>2, <1>7, LiesSplit
  <2> QED
    BY <1>7, <2>1
<1>9. Lies(d, o, ab) /\ Lies(d, o + 9, c)
  <2>1. Lies(d, o, ab) /\ Lies(d, o + Len(ab), c)
    BY <1>5, <1>6, <1>8, LiesSplit DEF abc
  <2> QED
    BY <1>6, <2>1
<1>10. Lies(d, o, a)
  BY <1>3, <1>4, <1>9, LiesSplit DEF ab
<1>11. o \in Nat /\ At(d, o + 1) = At(a, 1) /\ At(d, o + 2) = At(a, 2)
  BY <1>3, <1>10 DEF Lies
<1>12. At(d, (o + 9) + 0) = At(c, 0) /\ At(d, (o + 9) + 2) = At(c, 2)
  BY <1>5, <1>9 DEF Lies
<1>13. (o + 9) + 0 = o + 9 /\ (o + 9) + 2 = o + 11
  BY <1>11
<1> QED
  BY <1>1, <1>3, <1>5, <1>8, <1>11, <1>12, <1>13 DEF x

(* The body is understood, and gives the one name. *)
LEMMA BodyRead ==
    ASSUME NEW sni \in Seq(Nat), Len(sni) # 0, NEW d, Lies(d, 0, BodyOf(sni)),
           Len(d) = Len(sni) + 51
    PROVE  ClientHelloBody(d) = Walked(TRUE, Place(17, Len(sni)))
<1> DEFINE n == Len(sni)
           end == Len(d)
           suites == 2 + At(d, 1)
           methods == suites + 1 + At(d, suites)
           extensions == methods + 1 + At(d, methods)
           understood ==
            /\ Have(0, 2, end) /\ Have(suites, 1, end)
            /\ At(d, suites) >= 2 /\ At(d, suites) % 2 = 0 /\ Have(methods, 1, end)
            /\ At(d, methods) > 0 /\ Have(extensions, 0, end)
            /\ extensions < end => Have(extensions + 1, At(d, extensions), end)
<1>1. ClientHelloBody(d) =
        CASE ~understood -> Malformed
          [] understood /\ extensions = end -> Walked(TRUE, NoName)
          [] OTHER -> Extensions(d, extensions + 1, extensions + 1 + At(d, extensions))
  BY DEF ClientHelloBody
<1>2. /\ At(d, 1) = 0 /\ At(d, 2) = 6 /\ At(d, 9) = 1 /\ At(d, 11) = n + 39
      /\ Lies(d, 12, ExtensionsOf(sni))
  <2>1. /\ At(d, 0 + 1) = 0 /\ At(d, 0 + 2) = 6 /\ At(d, 0 + 9) = 1
        /\ At(d, 0 + 11) = n + 39 /\ Lies(d, 0 + 12, ExtensionsOf(sni))
    BY BodyLies
  <2>2. 0 + 1 = 1 /\ 0 + 2 = 2 /\ 0 + 9 = 9 /\ 0 + 11 = 11 /\ 0 + 12 = 12
    OBVIOUS
  <2> QED
    BY <2>1, <2>2
<1>3. n \in Nat /\ end = n + 51
  OBVIOUS
<1>4. suites = 2
  BY <1>2
<1>5. methods = 9
  <2> HIDE DEF suites
  <2> QED
    BY <1>2, <1>4
<1>6. extensions = 11
  <2> HIDE DEF methods
  <2> QED
    BY <1>2, <1>5
<1>7. understood
  <2> HIDE DEF suites, methods, extensions, end
  <2>1. Have(0, 2, end) /\ Have(2, 1, end) /\ Have(9, 1, end) /\ Have(11, 0, end)
        /\ Have(11 + 1, n + 39, end)
    BY <1>3 DEF Have
  <2>2. 6 >= 2 /\ 6 % 2 = 0 /\ 1 > 0
    OBVIOUS
  <2> QED
    BY <1>2, <1>4, <1>5, <1>6, <2>1, <2>2
<1>8. extensions # end
  <2> HIDE DEF extensions, end
  <2> QED
    BY <1>3, <1>6
<1>9. ClientHelloBody(d) = Extensions(d, extensions + 1, extensions + 1 + At(d, extensions))
  <2> HIDE DEF understood, extensions, end
  <2> QED
    BY <1>1, <1>7, <1>8
<1>10. Extensions(d, 12, 12 + n + 39) = Walked(TRUE, Place(12 + 5, n))
  BY <1>2, ExtensionsRead
<1>11. extensions + 1 = 12 /\ extensions + 1 + At(d, extensions) = 12 + n + 39 /\ 12 + 5 = 17
  <2> HIDE DEF extensions, n
  <2> QED
    BY <1>2, <1>3, <1>6
<1> HIDE DEF extensions
<1> QED
  BY <1>9, <1>10, <1>11

(* A hello that comes first has no records before it. *)
LEMMA NoNameEarlier ==
    ASSUME NEW d \in Seq(Nat), ~IsDummy(d, 0)
    PROVE  Dummies(d) = 0
<1>1. 0 \in 0..Len(d) /\ 4 * 0 = 0 /\ 0..0 - 1 = {}
  OBVIOUS
<1>2. \A i \in 0..0 - 1 : IsDummy(d, 4 * i)
  BY <1>1
<1>3. \A n \in 0..Len(d) : (\A i \in 0..n - 1 : IsDummy(d, 4 * i)) => n = 0
  <2> SUFFICES ASSUME NEW n \in 0..Len(d), \A i \in 0..n - 1 : IsDummy(d, 4 * i), n # 0
               PROVE  FALSE
    OBVIOUS
  <2>1. 0 \in 0..n - 1
    OBVIOUS
  <2>2. IsDummy(d, 4 * 0)
    BY <2>1
  <2> QED
    BY <1>1, <2>2
<1>4. ~IsDummy(d, 4 * 0)
  BY <1>1
<1> QED
  BY <1>1, <1>2, <1>3, <1>4 DEF Dummies

(* build_client_hello, parse_tls: "has_sni", and the name that was built in
   (tests/test_tls.cpp:288), for any host name and not only for the test's one. Of a
   ClientHello that fits into a record parse_tls finds the name where it stands.   *)
THEOREM BuiltHelloIsRead ==
    ASSUME NEW sni \in Seq(Nat), IsHostname(sni), Len(sni) + 53 <= MaxRecordBody
    PROVE  /\ IsClientHello(BuildClientHello(sni))
           /\ Sni(BuildClientHello(sni)) = Place(22, Len(sni))
           /\ Slice(BuildClientHello(sni), 22, Len(sni)) = sni
<1> DEFINE n == Len(sni)
           body == BodyOf(sni)
           head == <<Handshake, 3, Len(body) + 2, ClientHello, Len(body)>>
           d == head \o body
<1>1. sni # <<>> /\ Underscore \notin ToSet(sni) /\ n \in Nat /\ n # 0
  <2>1. sni # <<>> /\ Underscore \notin ToSet(sni)
    BY DEF IsHostname
  <2> QED
    BY <2>1
<1>2. BuildClientHello(sni) = d
  BY <1>1 DEF BuildClientHello, BodyOf, ExtensionsOf, ListOf, NamesOf
<1>3. body \in Seq(Nat) /\ Len(body) = n + 51
  BY PartsAre
<1> HIDE DEF body
<1>4. /\ head \in Seq(Nat) /\ Len(head) = 5
      /\ At(head, 0) = Handshake /\ At(head, 1) = 3 /\ At(head, 2) = n + 53
      /\ At(head, 3) = ClientHello /\ At(head, 4) = n + 51
  BY <1>1, <1>3 DEF At, Handshake, ClientHello
<1> HIDE DEF head
<1>5. d \in Seq(Nat) /\ Len(d) = n + 56
  <2>1. d \in Seq(Nat) /\ Len(d) = Len(head) + Len(body)
    BY <1>3, <1>4, ConcatIs
  <2> HIDE DEF d
  <2> QED
    BY <1>1, <1>3, <1>4, <2>1
<1>6. Lies(d, 0, head) /\ Lies(d, 5, body)
  <2>1. Lies(d, 0, d)
    <3>1. \A i \in 0..Len(d) - 1 : At(d, 0 + i) = At(d, i)
      <4>1. \A i \in 0..Len(d) - 1 : 0 + i = i
        OBVIOUS
      <4> HIDE DEF d
      <4> QED
        BY <4>1
    <3>2. 0 \in Nat /\ 0 + Len(d) <= Len(d)
      BY <1>1, <1>5
    <3> QED
      BY <1>5, <3>1, <3>2 DEF Lies
  <2>2. Lies(d, 0, head) /\ Lies(d, 0 + Len(head), body)
    BY <1>3, <1>4, <2>1, LiesSplit
  <2>3. 0 + Len(head) = 5
    BY <1>4
  <2> HIDE DEF d
  <2> QED
    BY <2>2, <2>3
<1> HIDE DEF d
<1>7. /\ At(d, 0) = Handshake /\ At(d, 1) = 3 /\ At(d, 2) = n + 53
      /\ At(d, 3) = ClientHello /\ At(d, 4) = n + 51
  <2>1. /\ At(d, 0 + 0) = At(head, 0) /\ At(d, 0 + 1) = At(head, 1)
        /\ At(d, 0 + 2) = At(head, 2) /\ At(d, 0 + 3) = At(head, 3)
        /\ At(d, 0 + 4) = At(head, 4)
    BY <1>4, <1>6 DEF Lies
  <2>2. 0 + 0 = 0 /\ 0 + 1 = 1 /\ 0 + 2 = 2 /\ 0 + 3 = 3 /\ 0 + 4 = 4
    OBVIOUS
  <2> QED
    BY <1>4, <2>1, <2>2
<1>8. ~IsDummy(d, 0)
  BY <1>7 DEF IsDummy, Handshake, ChangeCipherSpec
<1>9. Dummies(d) = 0 /\ RecordAt(d) = 0
  BY <1>5, <1>8, NoNameEarlier DEF RecordAt
<1>10. IsClientHello(d)
  <2>1. Dummies(d) < MaxPrefixRecords
    BY <1>9, TlsAssumption DEF TlsAssumption
  <2>2. Have(0, 5, Len(d)) /\ n + 53 \in 1..MaxRecordBody /\ 3 \in Versions
    BY <1>1, <1>5, TlsAssumption DEF Have, TlsAssumption, Versions
  <2>3. 0 + 1 = 1 /\ 0 + 2 = 2 /\ 0 + 3 = 3
    OBVIOUS
  <2> QED
    BY <1>7, <1>9, <2>1, <2>2, <2>3 DEF IsClientHello
<1>11. HelloEnd(d) = n + 56
  <2> DEFINE S == {0 + 5 + At(d, 0 + 4), 0 + 3 + At(d, 0 + 2), Len(d)}
  <2>1. S = {n + 56}
    <3>1. 0 + 4 = 4 /\ 0 + 2 = 2 /\ 0 + 5 + (n + 51) = n + 56 /\ 0 + 3 + (n + 53) = n + 56
      BY <1>1
    <3> QED
      BY <1>5, <1>7, <3>1
  <2>2. HelloEnd(d) = Min(S)
    BY <1>9 DEF HelloEnd
  <2> HIDE DEF S
  <2>3. Min({n + 56}) = n + 56
    BY <1>1 DEF Min
  <2> QED
    BY <2>1, <2>2, <2>3
<1> DEFINE sent == Slice(d, 5, n + 51)
<1>12. /\ sent \in Seq(Nat) /\ Len(sent) = n + 51
       /\ \A i \in 0..(n + 51) - 1 : At(sent, i) = At(d, 5 + i)
  <2>1. 5 \in Nat /\ n + 51 \in Nat /\ 5 + (n + 51) <= Len(d)
    BY <1>1, <1>5
  <2> HIDE DEF n
  <2> QED
    BY <1>5, <2>1, SliceUnits
<1> HIDE DEF sent
<1>13. Lies(sent, 0, body)
  <2>1. \A i \in 0..Len(body) - 1 : At(sent, 0 + i) = At(body, i)
    <3> SUFFICES ASSUME NEW i \in 0..Len(body) - 1 PROVE At(sent, 0 + i) = At(body, i)
      OBVIOUS
    <3>1. 0 + i = i /\ i \in 0..(n + 51) - 1
      BY <1>1, <1>3
    <3>2. At(d, 5 + i) = At(body, i)
      BY <1>6 DEF Lies
    <3> QED
      BY <1>12, <3>1, <3>2
  <2>2. 0 \in Nat /\ 0 + Len(body) <= Len(sent)
    BY <1>1, <1>3, <1>12
  <2> QED
    BY <1>3, <1>12, <2>1, <2>2 DEF Lies
<1>14. ClientHelloBody(sent) = Walked(TRUE, Place(17, n))
  BY <1>1, <1>12, <1>13, BodyRead DEF body
<1>15. Lies(d, 22, sni)
  <2>1. Lies(d, 5 + 12, ExtensionsOf(sni))
    BY <1>6, BodyLies DEF body
  <2>2. Lies(d, (5 + 12) + 5, sni)
    BY <2>1, ExtensionsLie
  <2>3. (5 + 12) + 5 = 22
    OBVIOUS
  <2> QED
    BY <2>2, <2>3
<1>16. Slice(d, 22, n) = sni
  <2> DEFINE s == Slice(d, 22, n)
  <2>1. 22 \in Nat /\ 22 + n <= Len(d)
    BY <1>1, <1>5
  <2>2. s \in Seq(Nat) /\ Len(s) = n /\ \A i \in 0..n - 1 : At(s, i) = At(d, 22 + i)
    <3> HIDE DEF n
    <3> QED
      BY <1>1, <1>5, <2>1, SliceUnits
  <2> HIDE DEF s
  <2>3. \A i \in 0..n - 1 : At(s, i) = At(sni, i)
    BY <1>15, <2>2 DEF Lies
  <2>4. ASSUME NEW i \in 1..n PROVE s[i] = sni[i]
    <3>1. i - 1 \in 0..n - 1 /\ (i - 1) + 1 = i
      BY <1>1
    <3> QED
      BY <2>3, <3>1 DEF At
  <2>5. s = sni
    BY <2>2, <2>4, SeqEqual
  <2> QED
    BY <2>5 DEF s
<1>17. Slice(sent, 17, n) = sni
  <2> DEFINE s == Slice(sent, 17, n)
  <2>1. 17 \in Nat /\ 17 + n <= Len(sent)
    BY <1>1, <1>12
  <2>2. s \in Seq(Nat) /\ Len(s) = n /\ \A i \in 0..n - 1 : At(s, i) = At(sent, 17 + i)
    <3> HIDE DEF n
    <3> QED
      BY <1>1, <1>12, <2>1, SliceUnits
  <2> HIDE DEF s
  <2>3. ASSUME NEW i \in 1..n PROVE s[i] = sni[i]
    <3>1. i - 1 \in 0..n - 1 /\ (i - 1) + 1 = i /\ 17 + (i - 1) \in 0..(n + 51) - 1
          /\ 5 + (17 + (i - 1)) = 22 + (i - 1)
      BY <1>1
    <3>2. At(s, i - 1) = At(d, 22 + (i - 1))
      BY <1>12, <2>2, <3>1
    <3>3. At(d, 22 + (i - 1)) = At(sni, i - 1)
      BY <1>15, <3>1 DEF Lies
    <3> QED
      BY <3>1, <3>2, <3>3 DEF At
  <2>4. s = sni
    BY <2>2, <2>3, SeqEqual
  <2> QED
    BY <2>4 DEF s
<1>18. Sni(d) = Place(22, n)
  <2>1. RecordAt(d) + 5 = 5 /\ HelloEnd(d) - 5 = n + 51 /\ HelloEnd(d) > 5
    BY <1>1, <1>9, <1>11
  <2>2. Walked(TRUE, Place(17, n)).name = Place(17, n)
        /\ Place(17, n).offset = 17 /\ Place(17, n).length = n
    BY DEF Walked, Place
  <2>3. Sni(d) = Found(Place(17, n), 5)
    <3>1. IsHostname(Slice(sent, 17, n))
      BY <1>17
    <3> HIDE DEF n
    <3> QED
      BY <1>10, <1>14, <2>1, <2>2, <3>1 DEF Sni, sent
  <2>4. Found(Place(17, n), 5) = Place(22, n)
    BY DEF Found, Place
  <2> QED
    BY <2>3, <2>4
<1> QED
  BY <1>2, <1>10, <1>16, <1>18

-----------------------------------------------------------------------------
(* The host name *)

(* The parser takes a whole packet of a TCP connection. *)
LEMMA WholeParses ==
    ASSUME NEW j \in Jobs, Tcp(j), j.shape.whole
    PROVE  Parses(Captured(Hinted(j)))
<1> DEFINE h == Hinted(j)
           f == Captured(h)
           at == TransportAt(f)
<1>1. /\ j \in TcpJob(j) /\ TransportAt(Captured(j)) \in Nat /\ j.shape.missing = 0
      /\ j.shape.doff \in Nat
  BY JobsAssumption DEF JobsAssumption
<1>2. /\ j.shape.version \in {4, 6} /\ j.shape.ihl \in Nat /\ ~Incomplete(j)
      /\ j.shape.exts \in Seq([kind : STRING, length : Nat])
      /\ j.shape.version = 6 => TransportAt(Captured(j)) >= Ip6Header
  BY ShapesAssumption DEF ShapesAssumption
<1>3. /\ h.shape = j.shape /\ h.length = j.length /\ h.protocol = "tcp"
      /\ j.length \in Nat \ {0}
  BY <1>1 DEF TcpJob, Hinted
<1>4. Kept(f, h) /\ f.size = Payload(h) + h.length /\ f.declared = f.size + h.shape.missing
  BY CapturedKept
<1>5. at = TransportAt(Captured(j))
  <2>1. at = Begin(h) /\ TransportAt(Captured(j)) = Begin(j)
    BY <1>4, KeptFields, CapturedKept
  <2> QED
    BY <1>3, <2>1 DEF Begin
<1>6. at = Begin(h) /\ Payload(h) = at + j.shape.doff
  BY <1>3, <1>4, KeptFields DEF Payload
<1>7. /\ f.version = j.shape.version /\ f.ihl = j.shape.ihl /\ f.exts = j.shape.exts
      /\ f.fragment = j.shape.fragment /\ f.proto = "tcp" /\ f.doff = j.shape.doff
  BY <1>3, <1>4 DEF Kept
<1> HIDE DEF f, h
<1>8. at \in Nat /\ f.doff \in Nat /\ j.length \in Nat \ {0}
  BY <1>1, <1>3, <1>5, <1>7
<1>9. f.size = at + f.doff + j.length /\ f.declared = f.size
  <2>1. f.size = at + f.doff + j.length
    BY <1>3, <1>4, <1>6, <1>7
  <2>2. f.size \in Nat
    BY <1>8, <2>1
  <2> QED
    BY <1>1, <1>3, <1>4, <2>1, <2>2
<1>10. f.doff >= TcpHeader
  BY <1>2, <1>7, <1>8 DEF Incomplete, TcpHeader
<1> DEFINE doff == f.doff
           size == f.size
           length == j.length
<1>11. doff \in Nat /\ doff >= 20 /\ size = at + doff + length /\ length \in Nat \ {0}
  BY <1>8, <1>9, <1>10 DEF TcpHeader
<1>12. TransportFits(f)
  <2>1. doff <= size - at
    <3> HIDE DEF doff, size, length, at
    <3> QED
      BY <1>8, <1>11 DEF at
  <2> QED
    BY <1>7, <1>9, <1>10, <2>1 DEF TransportFits
<1>13. at <= size /\ (at >= 40 => size > 40) /\ size \in Nat
  <2> HIDE DEF doff, size, length
  <2> QED
    BY <1>8, <1>11
<1>14. CASE j.shape.version = 4
  <2>1. j.shape.fragment = "none" /\ ~(j.shape.ihl < Ip4Header)
    BY <1>2, <1>14 DEF Incomplete
  <2>2. at = f.ihl
    BY <1>7, <1>14 DEF TransportAt
  <2>3. f.ihl >= Ip4Header
    BY <1>7, <1>8, <2>1, <2>2 DEF Ip4Header
  <2>4. Ip4Fits(f)
    BY <1>8, <1>9, <1>13, <2>2, <2>3 DEF Ip4Fits
  <2> QED
    BY <1>7, <1>12, <1>14, <2>1, <2>4 DEF Parses, Ip4Whole, f, h
<1>15. CASE j.shape.version = 6
  <2>1. ~(Len(j.shape.exts) >= MaxExtensions)
        /\ \A e \in ToSet(j.shape.exts) : ~(e.kind = "fragment" \/ e.length < 8)
    BY <1>2, <1>15 DEF Incomplete
  <2>2. Len(f.exts) < MaxExtensions
    <3>1. Len(j.shape.exts) \in Nat /\ MaxExtensions \in Nat
      BY <1>2, LayoutAssumption DEF LayoutAssumption
    <3> QED
      BY <1>7, <2>1, <3>1
  <2>3. \A e \in ToSet(f.exts) : e.kind # "fragment" /\ e.length >= 8
    <3> SUFFICES ASSUME NEW e \in ToSet(f.exts) PROVE e.kind # "fragment" /\ e.length >= 8
      OBVIOUS
    <3>1. PICK n \in DOMAIN j.shape.exts : e = j.shape.exts[n]
      BY <1>7 DEF ToSet
    <3>2. n \in 1..Len(j.shape.exts)
      BY <1>2, <3>1, LenProperties
    <3>3. j.shape.exts[n] \in [kind : STRING, length : Nat]
      BY <1>2, <3>2, ElementOfSeq
    <3>4. e.length \in Nat
      BY <3>1, <3>3
    <3> QED
      BY <1>7, <2>1, <3>4
  <2>4. at >= 40
    BY <1>2, <1>5, <1>15 DEF Ip6Header
  <2>5. Ip6Fits(f)
    <3>1. f.declared \in 41..f.size
      BY <1>9, <1>13, <2>4
    <3>2. TransportAt(f) <= f.declared
      BY <1>9, <1>13
    <3>3. f.declared \in Ip6Header + 1..f.size
      BY <3>1 DEF Ip6Header
    <3> QED
      BY <2>2, <2>3, <3>2, <3>3 DEF Ip6Fits, ExtensionsFit
  <2> QED
    BY <1>7, <1>12, <1>15, <2>5 DEF Parses, f, h
<1> QED
  BY <1>2, <1>14, <1>15

(* "Cut in the middle of the hostname so the DPI sees a truncated SNI"
   (src/strategy.cpp:243): every strategy that cuts at all leaves the name the parsers
   found whole in none of the segments it sends, if no port of its length follows it;
   for any payload, place of the name, number of segments and headers.         *)
THEOREM LongNameIsNeverWhole == Spec => []LongNameIsCut
<1> DEFINE Held == job.name # NoName => /\ Inside(job.payload.units, job.name)
                                       /\ job.payload.units \in Seq(Nat)
                                       /\ Len(job.payload.units) = job.length
           Whole == job.shape.whole => Parses(Captured(job))
           Known == Tcp(job) => Whole /\ Held
<1>1. Init => Known
  <2> SUFFICES ASSUME Init, Tcp(job) PROVE Whole /\ Held
    OBVIOUS
  <2>1. PICK j \in Jobs : job = IF j.protocol = "tcp" THEN Hinted(j) ELSE j
    BY DEF Init
  <2>2. Tcp(j) /\ job = Hinted(j)
    BY <2>1 DEF Tcp
  <2>3. Held
    BY <2>2, HintsPoint
  <2>4. j.shape = job.shape
    <3>1. j \in TcpJob(j)
      BY <2>2, JobsAssumption DEF JobsAssumption
    <3> QED
      BY <2>2, <3>1 DEF TcpJob, Hinted
  <2>5. Whole
    BY <2>2, <2>4, WholeParses
  <2> QED
    BY <2>3, <2>5
<1>2. Known /\ [Next]_vars => Known'
  <2> SUFFICES ASSUME Known, [Next]_vars PROVE Known'
    OBVIOUS
  <2>1. job' = job
    BY JobStays
  <2> QED
    BY <2>1
<1>3. SafeInv /\ Known => LongNameIsCut
  <2> SUFFICES ASSUME SafeInv, Whole, Held, Tcp(job), job.shape.whole,
                      job.strategy \in Splitting, job.split = -1, job.name.length >= 2,
                      job.name.length < 2 * NameAlone.length, NEW i \in Real
               PROVE  ~ShowsName(i)
    BY DEF LongNameIsCut, AutomaticCut
  <2> DEFINE from == job.name.offset
             size == job.name.length
             short == NameAlone.length
             cut == from + size \div 2
  <2>1. /\ TypedTcp(job) /\ out = Packets(job) /\ job.length \in Nat \ {0}
        /\ Parses(Captured(job))
        /\ from \in Nat /\ size \in Nat /\ size >= 2 /\ from + size <= job.length
    <3>1. job.name # NoName
      BY DEF NoName
    <3> QED
      BY <3>1 DEF SafeInv, JobInv, TypedTcp, Inside
  <2>13. short \in Nat /\ size < 2 * short /\ NameAlone.offset = from
    <3> DEFINE authority == Slice(job.payload.units, from, size)
    <3>1. job.payload.units \in Seq(Nat) /\ from + size <= Len(job.payload.units)
          /\ DOMAIN job.name = {"offset", "length"}
      <4>1. job.name # NoName
        BY DEF NoName
      <4> QED
        BY <4>1 DEF Inside
    <3>2. authority \in Seq(Nat)
      BY <2>1, <3>1, SliceUnits
    <3> HIDE DEF authority
    <3>3. Find(authority, 0, {Colon}) \in Nat
      BY <3>2, FindIs
    <3>4. NameAlone = [job.name EXCEPT !.length = Find(authority, 0, {Colon})]
      BY DEF NameAlone, authority
    <3> QED
      BY <3>1, <3>3, <3>4
  <2> HIDE DEF short
  <2>2. /\ from < cut /\ cut < from + short /\ cut \in 1..job.length - 1
    <3> HIDE DEF from, size
    <3> QED
      BY <2>1, <2>13
  <2>3. SplitOffset(job) = cut
    <3>1. ~(job.length < 2) /\ ~(job.split > 0) /\ ~(job.split = 0)
      BY <2>1
    <3>2. job.name.length >= 2 /\ job.name.offset + job.name.length \div 2 = cut
      BY <2>1
    <3> QED
      BY <2>2, <3>1, <3>2 DEF SplitOffset
  <2> HIDE DEF cut
  <2>4. PICK parts, place : Carries(job, out, parts, place)
    BY <2>1, PacketsCarry
  <2>5. Separates(parts, cut)
    BY <2>1, <2>2, <2>3, <2>4 DEF Carries
  <2>6. PICK k \in 1..Len(parts) : place[k] = i
    BY <2>4 DEF Carries, IsDecoy, Real
  <2>7. parts[k] \in Nat \X Nat /\ IsReal(out[i], job, parts[k])
    BY <2>4, <2>6, ElementOfSeq DEF Carries, Tiles
  <2>8. EndOf(parts[k]) <= cut \/ cut <= parts[k][1]
    BY <2>5, <2>6 DEF Separates
  <2>9. Covered(i) = parts[k][1]..parts[k][1] + parts[k][2] - 1
    BY <2>7 DEF IsReal, Covered, Body
  <2> HIDE DEF from, size
  <2>10. from \notin Covered(i) \/ from + short - 1 \notin Covered(i)
    <3>1. CASE EndOf(parts[k]) <= cut
      BY <2>1, <2>2, <2>7, <2>9, <2>13, <3>1 DEF EndOf
    <3>2. CASE cut <= parts[k][1]
      BY <2>1, <2>2, <2>7, <2>9, <2>13, <3>2
    <3> QED
      BY <2>8, <3>1, <3>2
  <2>11. from \in from..from + short - 1 /\ from + short - 1 \in from..from + short - 1
    BY <2>1, <2>2, <2>13
  <2>12. ~(from..from + short - 1 \subseteq Covered(i))
    BY <2>10, <2>11
  <2> QED
    BY <2>12, <2>13 DEF ShowsName, short
<1> QED
  BY <1>1, <1>2, <1>3, WireSafe, PTL DEF Spec
=============================================================================
