----------------------------- MODULE SettingsProofs ---------------------------
(***************************************************************************)
(* Proofs about the text of a connection: what is put into a URL, and what  *)
(* is read from it, for every text.                                         *)
(***************************************************************************)
EXTENDS Settings, SequenceTheorems, WellFoundedInduction, TLAPS

-----------------------------------------------------------------------------
(* Quoting *)

LEMMA FunctionIsSeq ==
    ASSUME NEW S, NEW n \in Nat, NEW f \in [1..n -> S]
    PROVE f \in Seq(S) /\ Len(f) = n
<1>1. f \in Seq(S)
  BY SeqDef, Zenon
<1>2. DOMAIN f = 1..n /\ DOMAIN f = 1..Len(f) /\ Len(f) \in Nat
  BY <1>1, LenProperties
<1> QED
  BY <1>1, <1>2

LEMMA PieceAt ==
    ASSUME NEW text \in Text, NEW i \in 1..Len(text)
    PROVE \E c \in Characters, n \in Nat : text[i] = <<c, n>>
<1>1. text[i] \in Characters \X Nat
  BY ElementOfSeq DEF Text
<1> QED
  BY <1>1

(* Both change pieces where they stand.                                     *)
LEMMA QuoteIsText ==
    ASSUME NEW text \in Text
    PROVE Quote(text) \in Text /\ Len(Quote(text)) = Len(text)
<1>1. /\ Len(text) \in Nat /\ DOMAIN text = 1..Len(text)
      /\ \A i \in 1..Len(text) : text[i] \in Characters \X Nat
  BY DEF Text
<1>2. Quote(text) \in [1..Len(text) -> Characters \X Nat]
  <2>1. ASSUME NEW piece \in Characters \X Nat
        PROVE <<piece[1], piece[2] + 1>> \in Characters \X Nat
    OBVIOUS
  <2> QED
    BY <1>1, <2>1 DEF Quote
<1> QED
  BY <1>1, <1>2, FunctionIsSeq DEF Text

LEMMA DecodeIsText ==
    ASSUME NEW text \in Text
    PROVE Decode(text) \in Text /\ Len(Decode(text)) = Len(text)
<1>1. /\ Len(text) \in Nat /\ DOMAIN text = 1..Len(text)
      /\ \A i \in 1..Len(text) : text[i] \in Characters \X Nat
  BY DEF Text
<1>2. Decode(text) \in [1..Len(text) -> Characters \X Nat]
  <2>1. ASSUME NEW piece \in Characters \X Nat, Encoded(piece)
        PROVE <<piece[1], piece[2] - 1>> \in Characters \X Nat
    BY <2>1 DEF Encoded
  <2> QED
    BY <1>1, <2>1 DEF Decode
<1> QED
  BY <1>1, <1>2, FunctionIsSeq DEF Text

(* Decoding gives back what was quoted: a virtual host keeps its slashes,   *)
(* and what looks like an escape in it.                                     *)
THEOREM DecodeQuote ==
    ASSUME NEW text \in Text
    PROVE Decode(Quote(text)) = text
<1>1. /\ Len(text) \in Nat /\ DOMAIN text = 1..Len(text)
      /\ \A i \in 1..Len(text) : text[i] \in Characters \X Nat
  BY DEF Text
<1>2. DOMAIN Quote(text) = 1..Len(text)
  BY <1>1 DEF Quote
<1>3. ASSUME NEW i \in 1..Len(text)
      PROVE Decode(Quote(text))[i] = text[i]
  <2>1. PICK c \in Characters, n \in Nat : text[i] = <<c, n>>
    BY PieceAt
  <2> QED
    BY <1>1, <1>2, <2>1 DEF Decode, Quote, Encoded
<1>4. Decode(Quote(text)) \in Text /\ Len(Decode(Quote(text))) = Len(text)
  BY QuoteIsText, DecodeIsText
<1> QED
  BY <1>3, <1>4, SeqEqual DEF Text

(* Plain text is read as it is.                                             *)
LEMMA DecodePlain ==
    ASSUME NEW text \in Text, Plain(text)
    PROVE Decode(text) = text
<1>1. \A i \in DOMAIN text : Decode(text)[i] = text[i]
  BY DEF Decode, Plain
<1> QED
  BY <1>1, DecodeIsText, SeqEqual DEF Text

LEMMA PlainHasNone ==
    ASSUME NEW text \in Text, Plain(text), NEW c \in ReservedChars
    PROVE \A i \in DOMAIN text : text[i] # Char(c)
PROOF BY DEF Plain, Char

LEMMA QuoteHasNone ==
    ASSUME NEW text \in Text, NEW c \in ReservedChars
    PROVE \A i \in DOMAIN Quote(text) : Quote(text)[i] # Char(c)
<1> SUFFICES ASSUME NEW i \in DOMAIN text, Quote(text)[i] = Char(c)
             PROVE FALSE
  BY DEF Quote
<1>1. PICK d \in Characters, n \in Nat : text[i] = <<d, n>>
  BY DEF Text
<1> QED
  BY <1>1 DEF Quote, Encoded, Char

-----------------------------------------------------------------------------
(* Looking for a character *)

Occurs(text, c) == {i \in 1..Len(text) : text[i] = Char(c)}

LEMMA LeastOf ==
    ASSUME NEW S \in SUBSET Nat, S # {}
    PROVE Min(S) \in S /\ \A n \in S : Min(S) <= n
<1> DEFINE less == OpToRel(<, Nat)
<1>1. IsWellFoundedOn(less, Nat)
  BY NatLessThanWellFounded
<1>2. \A m, n \in Nat : m < n => <<m, n>> \in less
  BY DEF OpToRel
<1> HIDE DEF less
<1>3. PICK m \in S : \A n \in S : <<n, m>> \notin less
  BY <1>1, WFMin, Zenon
<1>4. \A n \in S : m <= n
  <2> SUFFICES ASSUME NEW n \in S PROVE m <= n
    OBVIOUS
  <2>1. m \in Nat /\ n \in Nat /\ ~(n < m)
    BY <1>2, <1>3, Zenon
  <2> QED
    BY <2>1
<1> DEFINE least(i) == \A n \in S : i <= n
<1>5. least(m)
  BY <1>4
<1>6. Min(S) = CHOOSE i \in S : least(i)
  BY DEF Min
<1>7. least(Min(S)) /\ Min(S) \in S
  <2> HIDE DEF least
  <2> QED
    BY <1>5, <1>6, Zenon
<1> QED
  BY <1>7

LEMMA GreatestOf ==
    ASSUME NEW N \in Nat, NEW S \in SUBSET (1..N), S # {}
    PROVE Max(S) \in S /\ \A n \in S : n <= Max(S)
<1> DEFINE B == {k \in Nat : \A n \in S : n <= k}
<1>1. N \in B
  OBVIOUS
<1>2. Min(B) \in B /\ \A k \in B : Min(B) <= k
  BY <1>1, LeastOf
<1>3. Min(B) \in S
  <2>1. Min(B) # 0
    <3>1. PICK n \in S : TRUE
      OBVIOUS
    <3> QED
      BY <1>2, <3>1
  <2>2. ASSUME Min(B) \notin S
        PROVE FALSE
    <3>1. Min(B) - 1 \in B
      BY <1>2, <2>1, <2>2
    <3> QED
      BY <1>2, <3>1
  <2> QED
    BY <2>1, <2>2
<1> DEFINE greatest(i) == \A n \in S : i >= n
<1>4. greatest(Min(B))
  BY <1>2
<1>5. Max(S) = CHOOSE i \in S : greatest(i)
  BY DEF Max
<1>6. greatest(Max(S)) /\ Max(S) \in S
  <2> HIDE DEF greatest, B
  <2> QED
    BY <1>3, <1>4, <1>5, Zenon
<1> QED
  BY <1>6

LEMMA FirstAtIs ==
    ASSUME NEW text \in Text, NEW c
    PROVE \/ FirstAt(text, c) = 0 /\ \A i \in 1..Len(text) : text[i] # Char(c)
          \/ /\ FirstAt(text, c) \in 1..Len(text)
             /\ text[FirstAt(text, c)] = Char(c)
             /\ \A i \in 1..(FirstAt(text, c) - 1) : text[i] # Char(c)
<1>1. Len(text) \in Nat
  BY DEF Text
<1>0. Occurs(text, c) \in SUBSET Nat
  BY DEF Occurs
<1>2. FirstAt(text, c) = IF Occurs(text, c) # {} THEN Min(Occurs(text, c)) ELSE 0
  BY DEF FirstAt, SelectInSeq, Occurs
<1>3. CASE Occurs(text, c) = {}
  BY <1>2, <1>3 DEF Occurs
<1>4. CASE Occurs(text, c) # {}
  <2>1. /\ FirstAt(text, c) \in Occurs(text, c)
        /\ \A i \in Occurs(text, c) : FirstAt(text, c) <= i
    BY <1>2, <1>4, <1>0, LeastOf
  <2> QED
    BY <1>1, <2>1 DEF Occurs
<1> QED
  BY <1>3, <1>4

LEMMA LastAtIs ==
    ASSUME NEW text \in Text, NEW c
    PROVE \/ LastAt(text, c) = 0 /\ \A i \in 1..Len(text) : text[i] # Char(c)
          \/ /\ LastAt(text, c) \in 1..Len(text)
             /\ text[LastAt(text, c)] = Char(c)
             /\ \A i \in (LastAt(text, c) + 1)..Len(text) : text[i] # Char(c)
<1>1. Len(text) \in Nat
  BY DEF Text
<1>0. Occurs(text, c) \in SUBSET (1..Len(text))
  BY DEF Occurs
<1>2. LastAt(text, c) = IF Occurs(text, c) # {} THEN Max(Occurs(text, c)) ELSE 0
  BY DEF LastAt, SelectLastInSeq, Occurs
<1>3. CASE Occurs(text, c) = {}
  BY <1>2, <1>3 DEF Occurs
<1>4. CASE Occurs(text, c) # {}
  <2>1. /\ LastAt(text, c) \in Occurs(text, c)
        /\ \A i \in Occurs(text, c) : i <= LastAt(text, c)
    BY <1>1, <1>2, <1>4, <1>0, GreatestOf
  <2> QED
    BY <1>1, <2>1 DEF Occurs
<1> QED
  BY <1>3, <1>4

-----------------------------------------------------------------------------
(* Parting a text *)

LEMMA PartIsText ==
    ASSUME NEW text \in Text, NEW m \in Nat \ {0}, NEW n \in Int, n <= Len(text)
    PROVE /\ SubSeq(text, m, n) \in Text
          /\ Len(SubSeq(text, m, n)) = IF m <= n THEN n - m + 1 ELSE 0
          /\ \A i \in 1..(n - m + 1) : SubSeq(text, m, n)[i] = text[m + i - 1]
<1>1. \A i \in m..n : text[i] \in Characters \X Nat
  BY ElementOfSeq, LenProperties DEF Text
<1> QED
  BY <1>1, SubSeqProperties DEF Text

(* Where a character occurs, it and the two parts are the whole text.       *)
LEMMA PartsAreText ==
    ASSUME NEW text \in Text, NEW c
    PROVE /\ Before(text, c) \in Text /\ After(text, c) \in Text
          /\ BeforeLast(text, c) \in Text /\ AfterLast(text, c) \in Text
          /\ IF FirstAt(text, c) = 0
             THEN Before(text, c) = text /\ After(text, c) = <<>>
             ELSE /\ Len(Before(text, c)) = FirstAt(text, c) - 1
                  /\ Len(After(text, c)) = Len(text) - FirstAt(text, c)
          /\ IF LastAt(text, c) = 0
             THEN BeforeLast(text, c) = <<>> /\ AfterLast(text, c) = text
             ELSE /\ Len(BeforeLast(text, c)) = LastAt(text, c) - 1
                  /\ Len(AfterLast(text, c)) = Len(text) - LastAt(text, c)
<1>1. Len(text) \in Nat /\ <<>> \in Text
  BY DEF Text
<1>2. FirstAt(text, c) \in 0..Len(text) /\ LastAt(text, c) \in 0..Len(text)
  BY <1>1, FirstAtIs, LastAtIs
<1>3. FirstAt(text, c) # 0 =>
        /\ Before(text, c) \in Text /\ After(text, c) \in Text
        /\ Len(Before(text, c)) = FirstAt(text, c) - 1
        /\ Len(After(text, c)) = Len(text) - FirstAt(text, c)
  BY <1>1, <1>2, PartIsText DEF Before, After
<1>4. LastAt(text, c) # 0 =>
        /\ BeforeLast(text, c) \in Text /\ AfterLast(text, c) \in Text
        /\ Len(BeforeLast(text, c)) = LastAt(text, c) - 1
        /\ Len(AfterLast(text, c)) = Len(text) - LastAt(text, c)
  BY <1>1, <1>2, PartIsText DEF BeforeLast, AfterLast
<1>5. LastAt(text, c) = 0 => BeforeLast(text, c) = <<>> /\ AfterLast(text, c) = text
  BY <1>1, SubSeqEmpty, SubSeqFull DEF BeforeLast, AfterLast, Text
<1> QED
  BY <1>1, <1>3, <1>4, <1>5 DEF Before, After

LEMMA TextLen ==
    ASSUME NEW text \in Text
    PROVE Len(text) \in Nat /\ DOMAIN text = 1..Len(text)
PROOF BY DEF Text

LEMMA PartLengths ==
    ASSUME NEW text \in Text, NEW c
    PROVE /\ After(text, c) # <<>> =>
                Len(text) = Len(Before(text, c)) + 1 + Len(After(text, c))
          /\ BeforeLast(text, c) # <<>> =>
                Len(text) = Len(BeforeLast(text, c)) + 1 + Len(AfterLast(text, c))
<1> DEFINE first == FirstAt(text, c)
           last == LastAt(text, c)
           n == Len(text)
<1>1. n \in Nat /\ first \in Nat /\ last \in Nat
  <2>1. n \in Nat
    BY TextLen
  <2>2. first \in 0..n /\ last \in 0..n
    BY <2>1, FirstAtIs, LastAtIs
  <2> QED
    BY <2>1, <2>2
<1>2. After(text, c) # <<>> => /\ Len(Before(text, c)) = first - 1
                              /\ Len(After(text, c)) = n - first
  BY PartsAreText
<1>3. BeforeLast(text, c) # <<>> => /\ Len(BeforeLast(text, c)) = last - 1
                                   /\ Len(AfterLast(text, c)) = n - last
  BY PartsAreText
<1> HIDE DEF first, last, n
<1>4. /\ After(text, c) # <<>> =>
            n = Len(Before(text, c)) + 1 + Len(After(text, c))
      /\ BeforeLast(text, c) # <<>> =>
            n = Len(BeforeLast(text, c)) + 1 + Len(AfterLast(text, c))
  BY <1>1, <1>2, <1>3
<1> QED
  BY <1>4 DEF n

(* What is put together at a character comes apart there, if what stands    *)
(* before its first, or after its last, occurrence has none.                *)
IsCharacter(c) == <<Char(c)>> \in Text
Joined(left, c, right) == left \o <<Char(c)>> \o right

LEMMA AroundOne ==
    ASSUME NEW S, NEW left \in Seq(S), NEW e, <<e>> \in Seq(S), NEW right \in Seq(S)
    PROVE /\ left \o <<e>> \o right \in Seq(S)
          /\ Len(left \o <<e>> \o right) = Len(left) + 1 + Len(right)
          /\ \A i \in 1..Len(left) : (left \o <<e>> \o right)[i] = left[i]
          /\ (left \o <<e>> \o right)[Len(left) + 1] = e
          /\ \A i \in 1..Len(right) :
                (left \o <<e>> \o right)[Len(left) + 1 + i] = right[i]
<1>1. Len(<<e>>) = 1 /\ <<e>>[1] = e
  OBVIOUS
<1>2. Len(left) \in Nat /\ Len(right) \in Nat
  OBVIOUS
<1>3. /\ left \o <<e>> \in Seq(S) /\ Len(left \o <<e>>) = Len(left) + 1
      /\ \A i \in 1..Len(left) : (left \o <<e>>)[i] = left[i]
      /\ (left \o <<e>>)[Len(left) + 1] = e
  BY <1>1, <1>2, ConcatProperties
<1> DEFINE head == left \o <<e>>
<1> HIDE DEF head
<1>4. /\ head \o right \in Seq(S)
      /\ Len(head \o right) = Len(head) + Len(right)
      /\ \A i \in 1..(Len(head) + Len(right)) :
            (head \o right)[i] =
            IF i <= Len(head) THEN head[i] ELSE right[i - Len(head)]
  BY <1>3, ConcatProperties DEF head
<1>5. /\ head \o right \in Seq(S)
      /\ Len(head \o right) = Len(left) + 1 + Len(right)
      /\ \A i \in 1..Len(left) : (head \o right)[i] = left[i]
      /\ (head \o right)[Len(left) + 1] = e
      /\ \A i \in 1..Len(right) : (head \o right)[Len(left) + 1 + i] = right[i]
  <2>1. /\ Len(head) = Len(left) + 1 /\ head[Len(left) + 1] = e
        /\ \A i \in 1..Len(left) : head[i] = left[i]
    BY <1>3 DEF head
  <2> QED
    BY <1>2, <1>4, <2>1
<1> QED
  BY <1>5 DEF head

LEMMA JoinedIsText ==
    ASSUME NEW left \in Text, NEW c, IsCharacter(c), NEW right \in Text
    PROVE /\ Joined(left, c, right) \in Text
          /\ Len(Joined(left, c, right)) = Len(left) + 1 + Len(right)
          /\ \A i \in 1..Len(left) : Joined(left, c, right)[i] = left[i]
          /\ Joined(left, c, right)[Len(left) + 1] = Char(c)
          /\ \A i \in 1..Len(right) :
                Joined(left, c, right)[Len(left) + 1 + i] = right[i]
<1> DEFINE Piece == Characters \X Nat
<1>1. Text = Seq(Piece)
  BY DEF Text
<1> HIDE DEF Piece
<1> QED
  BY <1>1, AroundOne DEF Joined, IsCharacter

LEMMA EqualTexts ==
    ASSUME NEW s \in Text, NEW t \in Text, Len(s) = Len(t),
           \A i \in 1..Len(s) : s[i] = t[i]
    PROVE s = t
PROOF BY SeqEqual DEF Text

LEMMA PartsOfJoined ==
    ASSUME NEW left \in Text, NEW c, IsCharacter(c), NEW right \in Text
    PROVE FirstAt(Joined(left, c, right), c) = Len(left) + 1 =>
          /\ Before(Joined(left, c, right), c) = left
          /\ After(Joined(left, c, right), c) = right
<1> DEFINE text == Joined(left, c, right)
           k == Len(left) + 1
<1>0. /\ text \in Text /\ Len(text) = Len(left) + 1 + Len(right)
      /\ \A i \in 1..Len(left) : text[i] = left[i]
      /\ text[Len(left) + 1] = Char(c)
      /\ \A i \in 1..Len(right) : text[Len(left) + 1 + i] = right[i]
  BY JoinedIsText
<1> HIDE DEF text
<1>1. /\ text \in Text /\ Len(text) = k + Len(right)
      /\ \A i \in 1..Len(left) : text[i] = left[i]
      /\ \A i \in 1..Len(right) : text[k + i] = right[i]
      /\ Len(left) \in Nat /\ Len(right) \in Nat
  BY <1>0, TextLen
<1>2. SUFFICES ASSUME FirstAt(text, c) = k
               PROVE Before(text, c) = left /\ After(text, c) = right
  BY DEF text
<1>3. /\ SubSeq(text, 1, k - 1) \in Text
      /\ Len(SubSeq(text, 1, k - 1)) = Len(left)
      /\ \A i \in 1..Len(left) : SubSeq(text, 1, k - 1)[i] = left[i]
  BY <1>1, PartIsText
<1>4. /\ SubSeq(text, k + 1, Len(text)) \in Text
      /\ Len(SubSeq(text, k + 1, Len(text))) = Len(right)
      /\ \A i \in 1..Len(right) : SubSeq(text, k + 1, Len(text))[i] = right[i]
  BY <1>1, PartIsText
<1>5. SubSeq(text, 1, k - 1) = left /\ SubSeq(text, k + 1, Len(text)) = right
  BY <1>3, <1>4, EqualTexts
<1> QED
  BY <1>1, <1>2, <1>5 DEF Before, After

LEMMA FirstPart ==
    ASSUME NEW left \in Text, NEW c, IsCharacter(c), NEW right \in Text,
           \A i \in 1..Len(left) : left[i] # Char(c)
    PROVE /\ Before(Joined(left, c, right), c) = left
          /\ After(Joined(left, c, right), c) = right
<1> DEFINE text == Joined(left, c, right)
<1>0. /\ text \in Text /\ Len(text) = Len(left) + 1 + Len(right)
      /\ \A i \in 1..Len(left) : text[i] = left[i]
      /\ text[Len(left) + 1] = Char(c)
      /\ \A i \in 1..Len(right) : text[Len(left) + 1 + i] = right[i]
  BY JoinedIsText, Zenon
<1> HIDE DEF text
<1>1. /\ text \in Text /\ Len(text) = Len(left) + 1 + Len(right)
      /\ \A i \in 1..Len(left) : text[i] # Char(c)
      /\ text[Len(left) + 1] = Char(c)
      /\ Len(left) \in Nat /\ Len(right) \in Nat
  BY <1>0, TextLen
<1>2. FirstAt(text, c) = Len(left) + 1
  <2>1. \/ FirstAt(text, c) = 0 /\ \A i \in 1..Len(text) : text[i] # Char(c)
        \/ /\ FirstAt(text, c) \in 1..Len(text)
           /\ text[FirstAt(text, c)] = Char(c)
           /\ \A i \in 1..(FirstAt(text, c) - 1) : text[i] # Char(c)
    BY <1>1, FirstAtIs
  <2> QED
    BY <1>1, <2>1
<1> QED
  BY <1>2, PartsOfJoined DEF text

LEMMA LastPart ==
    ASSUME NEW left \in Text, NEW c, IsCharacter(c), NEW right \in Text,
           \A i \in 1..Len(right) : right[i] # Char(c)
    PROVE /\ BeforeLast(Joined(left, c, right), c) = left
          /\ AfterLast(Joined(left, c, right), c) = right
<1> DEFINE text == Joined(left, c, right)
           k == Len(left) + 1
<1>0. /\ text \in Text /\ Len(text) = Len(left) + 1 + Len(right)
      /\ \A i \in 1..Len(left) : text[i] = left[i]
      /\ text[Len(left) + 1] = Char(c)
      /\ \A i \in 1..Len(right) : text[Len(left) + 1 + i] = right[i]
  BY JoinedIsText, Zenon
<1> HIDE DEF text
<1>1. /\ text \in Text /\ Len(text) = k + Len(right)
      /\ \A i \in 1..Len(left) : text[i] = left[i]
      /\ \A i \in 1..Len(right) : text[k + i] = right[i]
      /\ text[k] = Char(c)
      /\ Len(left) \in Nat /\ Len(right) \in Nat
  BY <1>0, TextLen
<1>2. LastAt(text, c) = k
  <2>1. ASSUME NEW i \in (k + 1)..Len(text)
        PROVE text[i] # Char(c)
    <3>1. i - k \in 1..Len(right) /\ k + (i - k) = i
      BY <1>1
    <3> HIDE DEF k
    <3>2. text[k + (i - k)] = right[i - k]
      BY <1>1, <3>1
    <3> QED
      BY <3>1, <3>2
  <2> QED
    <3>1. \/ /\ LastAt(text, c) = 0
             /\ \A i \in 1..Len(text) : text[i] # Char(c)
          \/ /\ LastAt(text, c) \in 1..Len(text)
             /\ text[LastAt(text, c)] = Char(c)
             /\ \A i \in (LastAt(text, c) + 1)..Len(text) : text[i] # Char(c)
      BY <1>1, LastAtIs
    <3>2. Len(text) \in Nat /\ k \in 1..Len(text)
      BY <1>1
    <3>3. LastAt(text, c) # 0 /\ ~(k < LastAt(text, c))
      BY <1>1, <2>1, <3>1, <3>2
    <3>4. ~(LastAt(text, c) < k)
      BY <1>1, <3>1, <3>2
    <3> QED
      BY <1>1, <3>1, <3>3, <3>4
<1>3. /\ SubSeq(text, 1, k - 1) \in Text
      /\ Len(SubSeq(text, 1, k - 1)) = Len(left)
      /\ \A i \in 1..Len(left) : SubSeq(text, 1, k - 1)[i] = left[i]
  BY <1>1, PartIsText
<1>4. /\ SubSeq(text, k + 1, Len(text)) \in Text
      /\ Len(SubSeq(text, k + 1, Len(text))) = Len(right)
      /\ \A i \in 1..Len(right) : SubSeq(text, k + 1, Len(text))[i] = right[i]
  BY <1>1, PartIsText
<1>5. SubSeq(text, 1, k - 1) = left /\ SubSeq(text, k + 1, Len(text)) = right
  BY <1>3, <1>4, EqualTexts
<1>6. BeforeLast(text, c) = left /\ AfterLast(text, c) = right
  BY <1>2, <1>5 DEF BeforeLast, AfterLast
<1> QED
  BY <1>6 DEF text

LEMMA JoinedHasNone ==
    ASSUME NEW left \in Text, NEW c, IsCharacter(c), NEW right \in Text,
           NEW d, Char(c) # Char(d),
           \A i \in 1..Len(left) : left[i] # Char(d),
           \A i \in 1..Len(right) : right[i] # Char(d)
    PROVE \A i \in 1..Len(Joined(left, c, right)) :
              Joined(left, c, right)[i] # Char(d)
<1> DEFINE text == Joined(left, c, right)
           k == Len(left) + 1
<1>1. /\ text \in Text /\ Len(text) = Len(left) + 1 + Len(right)
      /\ \A i \in 1..Len(left) : text[i] = left[i]
      /\ text[Len(left) + 1] = Char(c)
      /\ \A i \in 1..Len(right) : text[Len(left) + 1 + i] = right[i]
  BY JoinedIsText
<1>2. Len(left) \in Nat /\ Len(right) \in Nat
  BY TextLen
<1> HIDE DEF text
<1>3. SUFFICES ASSUME NEW i \in 1..Len(text) PROVE text[i] # Char(d)
  BY DEF text
<1>4. CASE i <= Len(left)
  BY <1>1, <1>2, <1>4
<1>5. CASE i = k
  BY <1>1, <1>5
<1>6. CASE i > k
  <2>1. i - k \in 1..Len(right) /\ k + (i - k) = i /\ k \in Nat
    BY <1>1, <1>2, <1>6
  <2>2. \A j \in 1..Len(right) : text[k + j] = right[j]
    BY <1>1
  <2> HIDE DEF k
  <2>3. text[k + (i - k)] = right[i - k]
    BY <2>1, <2>2
  <2> QED
    BY <2>1, <2>3
<1> QED
  BY <1>2, <1>4, <1>5, <1>6

-----------------------------------------------------------------------------
(* Dialling *)

IsUrlText(s) ==
    /\ s.username \in Text /\ s.password \in Text
    /\ s.host \in Text /\ s.port \in Text /\ s.virtual_host \in Text

UserInfo(s) == Joined(s.username, ":", s.password)
HostInfo(s) == Joined(s.host, ":", s.port)

LEMMA Separators ==
    /\ IsCharacter(":") /\ IsCharacter("@") /\ IsCharacter("/")
    /\ {":", "@", "/"} \subseteq ReservedChars
    /\ Char(":") # Char("@") /\ Char(":") # Char("/") /\ Char("@") # Char("/")
<1>1. ASSUME NEW S, NEW e \in S
      PROVE <<e>> \in Seq(S)
  OBVIOUS
<1>2. \A c \in Characters : IsCharacter(c)
  <2> DEFINE Piece == Characters \X Nat
  <2>1. ASSUME NEW c \in Characters
        PROVE Char(c) \in Piece
    BY DEF Char
  <2>2. Text = Seq(Piece)
    BY DEF Text
  <2> HIDE DEF Piece
  <2> QED
    BY <1>1, <2>1, <2>2 DEF IsCharacter
<1>3. ":" \in Characters /\ "@" \in Characters /\ "/" \in Characters
  BY CharactersAssumption DEF ReservedChars
<1>4. /\ {":", "@", "/"} \subseteq ReservedChars
      /\ Char(":") # Char("@") /\ Char(":") # Char("/") /\ Char("@") # Char("/")
  BY DEF Char, ReservedChars
<1> QED
  BY <1>2, <1>3, <1>4

LEMMA UrlParts ==
    ASSUME NEW s
    PROVE /\ AmqpUrl(s) = Joined(Authority(s), "/", Quote(s.virtual_host))
          /\ Authority(s) = Joined(UserInfo(s), "@", HostInfo(s))
PROOF BY DEF AmqpUrl, Authority, Joined, UserInfo, HostInfo

LEMMA UrlTexts ==
    ASSUME NEW s, IsUrlText(s)
    PROVE /\ UserInfo(s) \in Text /\ HostInfo(s) \in Text
          /\ Authority(s) \in Text /\ Quote(s.virtual_host) \in Text
          /\ AmqpUrl(s) \in Text
<1>1. UserInfo(s) \in Text /\ HostInfo(s) \in Text
  BY Separators, JoinedIsText DEF IsUrlText, UserInfo, HostInfo
<1>2. Authority(s) \in Text
  BY <1>1, Separators, JoinedIsText, UrlParts
<1>3. Quote(s.virtual_host) \in Text
  BY QuoteIsText DEF IsUrlText
<1> QED
  BY <1>1, <1>2, <1>3, Separators, JoinedIsText, UrlParts

(* With a plain host, user name and password the asynchronous client dials  *)
(* the same as the synchronous one, for every virtual host: what amqp_url   *)
(* puts together is taken apart where it was joined.                        *)
THEOREM PlainUrlIsRead ==
    ASSUME NEW s, IsUrlText(s), s.virtual_host # <<>>,
           Plain(s.username), Plain(s.password), Plain(s.host), Plain(s.port)
    PROVE ReadUrl(AmqpUrl(s), s.ssl_enabled, Context(s)) =
          BuildConnectionParams(s)
<1> DEFINE url == AmqpUrl(s)
           HasNone(text, c) == \A i \in 1..Len(text) : text[i] # Char(c)
<1>1. \A c \in {":", "@", "/"} :
          /\ HasNone(s.username, c) /\ HasNone(s.password, c)
          /\ HasNone(s.host, c) /\ HasNone(s.port, c)
  BY Separators, PlainHasNone, TextLen DEF IsUrlText
<1>2. HasNone(HostInfo(s), "@") /\ HasNone(HostInfo(s), "/")
      /\ HasNone(UserInfo(s), "/")
  BY <1>1, Separators, JoinedHasNone DEF IsUrlText, HostInfo, UserInfo
<1>3. HasNone(Authority(s), "/")
  BY <1>2, Separators, UrlTexts, UrlParts, JoinedHasNone
<1>4. /\ Before(url, "/") = Authority(s)
      /\ After(url, "/") = Quote(s.virtual_host)
  BY <1>3, Separators, UrlTexts, UrlParts, FirstPart
<1>5. /\ BeforeLast(Authority(s), "@") = UserInfo(s)
      /\ AfterLast(Authority(s), "@") = HostInfo(s)
  BY <1>2, Separators, UrlTexts, UrlParts, LastPart
<1>6. /\ Before(UserInfo(s), ":") = s.username
      /\ After(UserInfo(s), ":") = s.password
      /\ Before(HostInfo(s), ":") = s.host /\ After(HostInfo(s), ":") = s.port
  BY <1>1, Separators, FirstPart DEF IsUrlText, HostInfo, UserInfo
<1>7. /\ Decode(s.username) = s.username /\ Decode(s.password) = s.password
      /\ Decode(Quote(s.virtual_host)) = s.virtual_host
  BY DecodePlain, DecodeQuote DEF IsUrlText
<1> QED
  BY <1>4, <1>5, <1>6, <1>7 DEF ReadUrl, BuildConnectionParams

(* The broker lets a client in with the user name and the password.        *)
GetsIn(s, to) ==
    /\ to.user = s.username /\ s.username # <<>>
    /\ to.password = s.password /\ s.password # <<>>
    /\ to.host = s.host /\ to.port = s.port /\ s.port # <<>>

(* A client that gets in with the user name and the password of the         *)
(* settings, at their host and port, is in their virtual host, whatever     *)
(* characters they have: a URL taken apart anywhere else gives a part of    *)
(* another length.                                                          *)
THEOREM ReadVhostIsGiven ==
    ASSUME NEW s, IsUrlText(s), s.virtual_host # <<>>, NEW tls, NEW context,
           GetsIn(s, ReadUrl(AmqpUrl(s), tls, context))
    PROVE ReadUrl(AmqpUrl(s), tls, context).vhost = s.virtual_host
<1> DEFINE url == AmqpUrl(s)
           authority == Before(url, "/")
           userinfo == BeforeLast(authority, "@")
           hostinfo == AfterLast(authority, "@")
<1>1. /\ Decode(Before(userinfo, ":")) = s.username
      /\ Decode(After(userinfo, ":")) = s.password
      /\ Before(hostinfo, ":") = s.host /\ After(hostinfo, ":") = s.port
  BY DEF ReadUrl, GetsIn
<1>2. /\ url \in Text /\ authority \in Text /\ userinfo \in Text
      /\ hostinfo \in Text
  BY UrlTexts, PartsAreText
<1> HIDE DEF url, authority, userinfo, hostinfo
<1>3. /\ Len(s.username) \in Nat \ {0} /\ Len(s.password) \in Nat \ {0}
      /\ Len(s.port) \in Nat \ {0} /\ Len(s.host) \in Nat
      /\ Len(userinfo) \in Nat /\ Len(hostinfo) \in Nat
      /\ Len(authority) \in Nat /\ Len(url) \in Nat
  BY <1>2, TextLen, EmptySeq DEF IsUrlText, Text, GetsIn
<1>4. Len(userinfo) = Len(s.username) + 1 + Len(s.password)
  <2>1. /\ Len(Before(userinfo, ":")) = Len(s.username)
        /\ Len(After(userinfo, ":")) = Len(s.password)
    BY <1>1, <1>2, PartsAreText, DecodeIsText
  <2>2. After(userinfo, ":") # <<>>
    BY <1>3, <2>1
  <2> QED
    BY <1>2, <2>1, <2>2, PartLengths
<1>5. Len(hostinfo) = Len(s.host) + 1 + Len(s.port)
  BY <1>1, <1>2, PartLengths DEF GetsIn
<1>6. Len(authority) = Len(userinfo) + 1 + Len(hostinfo)
  <2>1. userinfo # <<>>
    <3> DEFINE u == Len(s.username)
               p == Len(s.password)
               n == Len(userinfo)
    <3>1. n # 0
      <4>1. u \in Nat /\ p \in Nat /\ n = u + 1 + p
        BY <1>3, <1>4
      <4> HIDE DEF u, p, n
      <4> QED
        BY <4>1
    <3>2. Len(<<>>) = 0
      OBVIOUS
    <3> QED
      BY <3>1, <3>2
  <2> QED
    BY <1>2, <2>1, PartLengths DEF userinfo, hostinfo
<1>7. FirstAt(url, "/") = Len(Authority(s)) + 1
  <2>1. Len(Authority(s)) = Len(authority)
    <3>1. /\ Len(UserInfo(s)) = Len(s.username) + 1 + Len(s.password)
          /\ Len(HostInfo(s)) = Len(s.host) + 1 + Len(s.port)
      <4>1. /\ s.username \in Text /\ s.password \in Text
            /\ s.host \in Text /\ s.port \in Text /\ IsCharacter(":")
        BY Separators DEF IsUrlText
      <4>2. /\ UserInfo(s) = Joined(s.username, ":", s.password)
            /\ HostInfo(s) = Joined(s.host, ":", s.port)
        BY DEF UserInfo, HostInfo
      <4>3. \A left, right \in Text :
                Len(Joined(left, ":", right)) = Len(left) + 1 + Len(right)
        BY <4>1, JoinedIsText
      <4> QED
        BY <4>1, <4>2, <4>3, Zenon
    <3>2. Len(Authority(s)) = Len(UserInfo(s)) + 1 + Len(HostInfo(s))
      BY Separators, UrlTexts, UrlParts, JoinedIsText
    <3> QED
      BY <1>4, <1>5, <1>6, <3>1, <3>2
  <2>2. /\ Len(url) = Len(Authority(s)) + 1 + Len(Quote(s.virtual_host))
        /\ url[Len(Authority(s)) + 1] = Char("/")
        /\ Len(Authority(s)) \in Nat /\ Len(Quote(s.virtual_host)) \in Nat
    <3>1. /\ Authority(s) \in Text /\ Quote(s.virtual_host) \in Text
          /\ IsCharacter("/")
      BY Separators, UrlTexts
    <3>2. url = Joined(Authority(s), "/", Quote(s.virtual_host))
      BY UrlParts DEF url
    <3> QED
      BY <3>1, <3>2, JoinedIsText, TextLen
  <2>3. FirstAt(url, "/") \in 1..Len(url)
    BY <1>2, <2>2, FirstAtIs
  <2>4. Len(authority) = FirstAt(url, "/") - 1
    BY <1>2, <2>3, PartsAreText DEF authority
  <2> QED
    BY <2>1, <2>2, <2>3, <2>4
<1>8. After(url, "/") = Quote(s.virtual_host)
  BY <1>7, Separators, UrlTexts, UrlParts, PartsOfJoined DEF url
<1>9. Decode(Quote(s.virtual_host)) = s.virtual_host
  BY DecodeQuote DEF IsUrlText
<1> QED
  BY <1>8, <1>9 DEF ReadUrl, url
=============================================================================
