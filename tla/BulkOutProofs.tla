---------------------------- MODULE BulkOutProofs ----------------------------
(***************************************************************************)
(* The invariants of BulkOut, for every set of transfers and any number of *)
(* transfers and hang-ups, whether or not char is signed.                  *)
(***************************************************************************)
EXTENDS BulkOut, SequenceTheorems, TLAPS

Taken == [c : Byte, to : Whereto]

-----------------------------------------------------------------------------
(* Sequences.                                                              *)

\* What is behind the first i elements of a sequence.
LEMMA Behind ==
  ASSUME NEW S, NEW s \in Seq(S), NEW i \in 0..Len(s)
  PROVE  /\ SubSeq(s, i + 1, Len(s)) \in Seq(S)
         /\ Len(SubSeq(s, i + 1, Len(s))) = Len(s) - i
         /\ \A j \in 1 .. Len(s) - i : SubSeq(s, i + 1, Len(s))[j] = s[i + j]
<1>1. Len(s) \in Nat /\ i \in Int /\ \A j \in i + 1 .. Len(s) : s[j] \in S
  BY SMT
<1>2. i + 1 \in Int /\ Len(s) \in Int
  BY <1>1, SMT
<1>3. /\ SubSeq(s, i + 1, Len(s)) \in Seq(S)
      /\ Len(SubSeq(s, i + 1, Len(s)))
           = IF i + 1 <= Len(s) THEN Len(s) - (i + 1) + 1 ELSE 0
      /\ \A j \in 1 .. Len(s) - (i + 1) + 1 :
           SubSeq(s, i + 1, Len(s))[j] = s[(i + 1) + j - 1]
  BY <1>1, <1>2, SubSeqProperties
<1>4. Len(s) - (i + 1) + 1 = Len(s) - i
      /\ \A j \in 1 .. Len(s) - i : (i + 1) + j - 1 = i + j
  BY <1>1, SMT
<1>5. (IF i + 1 <= Len(s) THEN Len(s) - (i + 1) + 1 ELSE 0) = Len(s) - i
  BY <1>1, SMT
<1> QED BY <1>3, <1>4, <1>5, Zenon

\* One sequence behind another.
LEMMA Joined ==
  ASSUME NEW S, NEW s \in Seq(S), NEW u \in Seq(S)
  PROVE  /\ Len(s) \in Nat /\ Len(u) \in Nat /\ Len(s \o u) = Len(s) + Len(u)
         /\ \A i \in 1..Len(s) : (s \o u)[i] = s[i]
         /\ \A i \in 1..Len(u) : (s \o u)[Len(s) + i] = u[i]
BY SMT

\* What is taken comes behind what was, in order, and the buffer begins behind it.
LEMMA TakeFacts ==
  ASSUME TypeOK, NEW w \in Seq(Whereto), Len(w) <= Len(buffer), Take(w)
  PROVE  /\ buffer' \in Seq(Byte) /\ taken' \in Seq(Taken)
         /\ Len(buffer') = Len(buffer) - Len(w) /\ Len(taken') = Len(taken) + Len(w)
         /\ \A i \in 1..Len(buffer') : buffer'[i] = buffer[Len(w) + i]
         /\ \A i \in 1..Len(taken) : taken'[i] = taken[i]
         /\ \A i \in 1..Len(w) : /\ taken'[Len(taken) + i].c = buffer[i]
                                 /\ taken'[Len(taken) + i].to = w[i]
<1> DEFINE n == Len(w)
           s == [j \in 1..n |-> [c |-> buffer[j], to |-> w[j]]]
<1>1. /\ n \in Nat /\ n \in 0..Len(buffer) /\ buffer \in Seq(Byte) /\ taken \in Seq(Taken)
      /\ Len(buffer) \in Nat /\ Len(taken) \in Nat
  BY SMT DEF TypeOK, Taken
<1>2. /\ buffer' \in Seq(Byte) /\ Len(buffer') = Len(buffer) - n
      /\ \A i \in 1..Len(buffer') : buffer'[i] = buffer[n + i]
  <2>1. buffer' = SubSeq(buffer, n + 1, Len(buffer))
    BY Zenon DEF Take
  <2> HIDE DEF n
  <2>2. /\ SubSeq(buffer, n + 1, Len(buffer)) \in Seq(Byte)
        /\ Len(SubSeq(buffer, n + 1, Len(buffer))) = Len(buffer) - n
        /\ \A j \in 1 .. Len(buffer) - n :
             SubSeq(buffer, n + 1, Len(buffer))[j] = buffer[n + j]
    BY <1>1, Behind
  <2> QED BY <2>1, <2>2, Zenon
<1>3. s \in Seq(Taken) /\ Len(s) = n
  <2>1. \A j \in 1..n : buffer[j] \in Byte /\ w[j] \in Whereto
    BY <1>1, SMT
  <2>2. \A j \in 1..n : [c |-> buffer[j], to |-> w[j]] \in Taken
    BY <2>1, Zenon DEF Taken
  <2>3. s \in [1..n -> Taken]
    BY <2>2, Zenon
  <2> HIDE DEF s
  <2> QED BY <1>1, <2>3, SMT
<1>4. taken' = taken \o s
  BY Zenon DEF Take
<1>5. \A i \in 1..n : s[i].c = buffer[i] /\ s[i].to = w[i]
  BY Zenon
<1> HIDE DEF s, n
<1>6. /\ taken' \in Seq(Taken) /\ Len(taken') = Len(taken) + n
      /\ \A i \in 1..Len(taken) : taken'[i] = taken[i]
      /\ \A i \in 1..n : taken'[Len(taken) + i] = s[i]
  <2>1. /\ Len(taken \o s) = Len(taken) + Len(s)
        /\ \A i \in 1..Len(taken) : (taken \o s)[i] = taken[i]
        /\ \A i \in 1..Len(s) : (taken \o s)[Len(taken) + i] = s[i]
    <3>1. taken \in Seq(Taken) /\ s \in Seq(Taken)
      BY <1>1, <1>3, Zenon
    <3> HIDE DEF Taken
    <3> QED BY <3>1, SMT
  <2>2. taken \o s \in Seq(Taken)
    BY <1>1, <1>3, SMT
  <2> QED BY <1>3, <1>4, <2>1, <2>2, Zenon
<1> QED BY <1>2, <1>5, <1>6, Zenon DEF n

\* What the three takers write beside the bytes.
LEMMA LabelsTyped ==
  ASSUME NEW n \in Nat, NEW i \in Nat
  PROVE  /\ [j \in 1..i |-> IF j <= n THEN "nul" ELSE IF j < i THEN "line" ELSE "cr"]
              \in Seq(Whereto)
         /\ [j \in 1..i |-> "nul"] \in Seq(Whereto)
         /\ [j \in 1..i |-> "link"] \in Seq(Whereto)
         /\ Len([j \in 1..i |-> IF j <= n THEN "nul" ELSE IF j < i THEN "line" ELSE "cr"]) = i
         /\ Len([j \in 1..i |-> "nul"]) = i /\ Len([j \in 1..i |-> "link"]) = i
<1> DEFINE f == [j \in 1..i |-> IF j <= n THEN "nul" ELSE IF j < i THEN "line" ELSE "cr"]
           g == [j \in 1..i |-> "nul"]
           h == [j \in 1..i |-> "link"]
<1>1. f \in [1..i -> Whereto] /\ g \in [1..i -> Whereto] /\ h \in [1..i -> Whereto]
  BY Zenon DEF Whereto
<1> HIDE DEF f, g, h
<1>2. /\ f \in Seq(Whereto) /\ g \in Seq(Whereto) /\ h \in Seq(Whereto)
      /\ Len(f) = i /\ Len(g) = i /\ Len(h) = i
  BY <1>1, SMT
<1> QED BY <1>2, Zenon DEF f, g, h

-----------------------------------------------------------------------------
(* Transfers.                                                              *)

\* A char is negative where char is signed, from 128 on; else it is the byte.
LEMMA CharFacts ==
  ASSUME NEW b \in Byte
  PROVE  /\ AsChar(b) \in Int
         /\ AsChar(b) < 0 <=> char_signed /\ b >= 128
         /\ AsChar(b) >= 0 => AsChar(b) = b
<1>1. b \in Int /\ ~(b < 0) /\ b - 256 \in Int /\ b - 256 < 0 /\ ~(b - 256 >= 0)
  BY SMT DEF Byte
<1>2. CASE char_signed /\ b >= 128
  BY <1>1, <1>2, Zenon DEF AsChar
<1>3. CASE ~(char_signed /\ b >= 128)
  BY <1>1, <1>3, Zenon DEF AsChar
<1> QED BY <1>2, <1>3

\* Of a transfer that does not throw at least the header came, and the payload
\* is what the header says, as far as it came; of one that does, the header
\* did not come or is negative.
LEMMA UnpackFacts ==
  ASSUME char_signed \in BOOLEAN, NEW t \in Seq(Byte)
  PROVE  /\ ~Throws(t) => Unpack(t) \in Seq(Byte) /\ Unpack(t) = PayloadOf(t)
         /\ Throws(t) => /\ model = "Omron"
                         /\ t = <<>> \/ (char_signed /\ t[1] >= 128)
<1>1. CASE model # "Omron"
  BY <1>1, Zenon DEF Throws, Unpack, PayloadOf
<1>2. CASE model = "Omron" /\ t = <<>>
  BY <1>2, SMT DEF Throws, PayloadLength
<1>3. CASE model = "Omron" /\ t # <<>>
  <2>1. t[1] \in Byte /\ Len(t) \in Nat /\ Len(t) >= 1
    BY <1>3, SMT
  <2>2. PayloadLength(t) = MinOf(AsChar(t[1]) \div 4, Len(t) - 1)
    BY <1>3, Zenon DEF PayloadLength
  <2>3. AsChar(t[1]) \in Int /\ (AsChar(t[1]) < 0 <=> char_signed /\ t[1] >= 128)
        /\ (AsChar(t[1]) >= 0 => AsChar(t[1]) = t[1])
    BY <2>1, CharFacts, Zenon
  <2>4. /\ AsChar(t[1]) \div 4 \in Int
        /\ AsChar(t[1]) < 0 <=> AsChar(t[1]) \div 4 < 0
    BY <2>3, SMT
  <2>5. PayloadLength(t) < 0 <=> AsChar(t[1]) < 0
    <3> DEFINE a == AsChar(t[1])
               d == a \div 4
    <3> HIDE DEF a, d
    <3>1. d \in Int /\ (a < 0 <=> d < 0) /\ PayloadLength(t) = MinOf(d, Len(t) - 1)
      BY <2>2, <2>4, Zenon DEF a, d
    <3>2. PayloadLength(t) < 0 <=> a < 0
      BY <2>1, <3>1, SMT DEF MinOf
    <3> QED BY <3>2, Zenon DEF a
  <2>6. Throws(t) => char_signed /\ t[1] >= 128
    BY <2>3, <2>5, Zenon DEF Throws
  <2>7. ASSUME ~Throws(t) PROVE Unpack(t) \in Seq(Byte) /\ Unpack(t) = PayloadOf(t)
    <3>1. AsChar(t[1]) = t[1]
      BY <1>3, <2>3, <2>5, <2>7, SMT DEF Throws
    <3>2. Unpack(t) = PayloadOf(t)
      BY <1>3, <2>2, <3>1, Zenon DEF Unpack, PayloadOf
    <3>3. 1 + PayloadLength(t) \in Int /\ \A i \in 2 .. 1 + PayloadLength(t) : t[i] \in Byte
      BY <2>1, <2>2, <2>4, SMT DEF MinOf
    <3>4. SubSeq(t, 2, 1 + PayloadLength(t)) \in Seq(Byte)
      BY <3>3, SubSeqProperties
    <3> QED BY <1>3, <3>2, <3>4, Zenon DEF Unpack
  <2> QED BY <1>3, <2>6, <2>7, Zenon
<1> QED BY <1>1, <1>2, <1>3, Zenon

-----------------------------------------------------------------------------
(* The invariant.                                                          *)

\* What came is what was taken and what is there, in this order.
Kept ==
  /\ Len(received) = Len(taken) + Len(buffer)
  /\ \A i \in 1..Len(taken) : received[i] = taken[i].c
  /\ \A i \in 1..Len(buffer) : received[Len(taken) + i] = buffer[i]

\* What is neither passed on nor a line is a newline or, for Lucent, a NUL in
\* front of a line; a line is whole.
Labelled ==
  \A i \in 1..Len(taken) :
    /\ taken[i].to = "nul" =>
         /\ model = "Lucent" /\ taken[i].c = NUL
         /\ i > 1 => taken[i - 1].to # "line"
    /\ taken[i].to = "cr" <=> taken[i].c = CR /\ taken[i].to # "link"
    /\ taken[i].to = "line" => i < Len(taken) /\ taken[i + 1].to \in {"line", "cr"}

\* While the carrier is up all that was taken since it rose was passed on; the
\* line in process_at() was the last.
BehindConnect ==
  /\ connected =>
       /\ pc # "process_at"
       /\ env.raised \in 1..Len(taken) /\ taken[env.raised].to = "cr"
       /\ \A i \in env.raised + 1 .. Len(taken) : taken[i].to = "link"
  /\ pc = "process_at" => Len(taken) > 0 /\ taken[Len(taken)].to = "cr"

\* Behind the off-line loop there is no line, or the carrier was up.
LinesTaken ==
  /\ pc = "online" => connected \/ NoCR \/ env.fell
  /\ NothingWaits

\* What is in process_at() is the line that was taken last.
LineTaken == pc = "process_at" => LastLine(line)

BulkOutInv ==
  /\ TypeOK /\ Kept /\ Labelled /\ BehindConnect /\ LinesTaken /\ LineTaken /\ DiesOnlyOfInput

\* It holds in the beginning.
LEMMA InitBulkOutInv == Init => BulkOutInv
<1> SUFFICES ASSUME Init PROVE BulkOutInv
  OBVIOUS
<1>1. /\ connected = FALSE /\ pc = "read" /\ died = FALSE
      /\ buffer = <<>> /\ line = <<>> /\ received = <<>> /\ taken = <<>> /\ env.fell = FALSE
  BY Zenon DEF Init
<1>2. /\ buffer \in Seq(Byte) /\ received \in Seq(Byte) /\ <<>> \in Seq(Byte)
      /\ taken \in Seq([c : Byte, to : Whereto])
      /\ Len(received) = Len(taken) + Len(buffer) /\ 1..Len(taken) = {} /\ 1..Len(buffer) = {}
  BY <1>1, SMT
<1>3. TypeOK
  <2>1. env \in [transfers : Nat, drops : Nat, raised : Nat, fell : BOOLEAN, last : Seq(Byte)]
    <3>1. 0 \in Nat
      BY SMT
    <3> QED BY <1>2, <3>1, Zenon DEF Init
  <2> QED BY <1>1, <1>2, <2>1, Zenon DEF Init, TypeOK
<1>4. Kept /\ Labelled
  BY <1>2, Zenon DEF Kept, Labelled
<1>5. BehindConnect /\ LinesTaken /\ LineTaken /\ DiesOnlyOfInput
  BY <1>1, <1>2, SMT DEF BehindConnect, LinesTaken, LineTaken, NothingWaits, NoCR, DiesOnlyOfInput
<1> QED BY <1>3, <1>4, <1>5 DEF BulkOutInv

\* Reading: the payload comes behind what is in the buffer.
LEMMA ReadKeeps ==
  ASSUME BulkOutInv, Running, NEW t \in Transfers, ReadTransfer(t)
  PROVE  BulkOutInv'
<1>1. /\ char_signed \in BOOLEAN /\ t \in Seq(Byte)
      /\ buffer \in Seq(Byte) /\ received \in Seq(Byte)
      /\ env \in [transfers : Nat, drops : Nat, raised : Nat, fell : BOOLEAN, last : Seq(Byte)]
  BY BulkOutAssumption, Zenon DEF BulkOutInv, TypeOK, BulkOutAssumption
<1>2. /\ ~Throws(t) => Unpack(t) \in Seq(Byte) /\ Unpack(t) = PayloadOf(t)
      /\ Throws(t) => model = "Omron" /\ (t = <<>> \/ (char_signed /\ t[1] >= 128))
  BY <1>1, UnpackFacts, Zenon
<1>3. /\ pc = "read" /\ UNCHANGED <<model, has_sock, char_signed, connected, line, taken>>
      /\ env' = [env EXCEPT !.transfers = @ + 1, !.fell = @ /\ Throws(t), !.last = t]
  BY Zenon DEF ReadTransfer
<1>4. /\ env' \in [transfers : Nat, drops : Nat, raised : Nat, fell : BOOLEAN, last : Seq(Byte)]
      /\ env'.raised = env.raised /\ env'.last = t /\ env'.fell = (env.fell /\ Throws(t))
  <2>1. env.transfers + 1 \in Nat
    BY <1>1, SMT
  <2>2. (env.fell /\ Throws(t)) \in BOOLEAN
    BY <1>1, Zenon DEF Throws
  <2>3. env' = [env EXCEPT !.transfers = env.transfers + 1, !.fell = env.fell /\ Throws(t),
                           !.last = t]
    BY <1>3, Zenon
  <2> QED BY <1>1, <2>1, <2>2, <2>3, Zenon
<1>5. BehindConnect'
  <2>1. pc' # "process_at"
    BY <1>3, SMT DEF ReadTransfer
  <2> QED BY <1>3, <1>4, <2>1, Zenon DEF BulkOutInv, BehindConnect
<1>6. Labelled' /\ LineTaken'
  <2>1. pc' # "process_at"
    BY <1>3, SMT DEF ReadTransfer
  <2> QED BY <1>3, <2>1, Zenon DEF BulkOutInv, Labelled, LineTaken
<1>7. CASE Throws(t)
  <2>1. died' = TRUE /\ UNCHANGED <<pc, buffer, received>>
    BY <1>7, Zenon DEF ReadTransfer
  <2>2. DiesOnlyOfInput'
    BY <1>2, <1>3, <1>4, <1>7, <2>1, Zenon DEF DiesOnlyOfInput
  <2>3. TypeOK'
    BY <1>3, <1>4, <2>1, Zenon DEF BulkOutInv, TypeOK
  <2>4. LinesTaken' /\ Kept'
    BY <1>3, <1>4, <1>7, <2>1, Zenon DEF BulkOutInv, LinesTaken, NothingWaits, NoCR, Kept
  <2> QED BY <1>5, <1>6, <2>2, <2>3, <2>4 DEF BulkOutInv
<1>8. CASE ~Throws(t)
  <2> DEFINE u == Unpack(t)
  <2>1. /\ u \in Seq(Byte) /\ buffer' = buffer \o u /\ received' = received \o u
        /\ pc' = "offline" /\ UNCHANGED died
    BY <1>2, <1>8, Zenon DEF ReadTransfer
  <2> HIDE DEF u
  <2>2. buffer' \in Seq(Byte) /\ received' \in Seq(Byte)
    BY <1>1, <2>1, SMT
  <2>3. TypeOK'
    BY <1>3, <1>4, <2>1, <2>2, Zenon DEF BulkOutInv, TypeOK
  <2>4. Kept'
    <3>1. /\ Len(received) = Len(taken) + Len(buffer) /\ Len(taken) \in Nat
          /\ \A i \in 1..Len(taken) : received[i] = taken[i].c
          /\ \A i \in 1..Len(buffer) : received[Len(taken) + i] = buffer[i]
      <4>1. taken \in Seq([c : Byte, to : Whereto])
        BY Zenon DEF BulkOutInv, TypeOK
      <4> QED BY <4>1, SMT DEF BulkOutInv, Kept
    <3>3. /\ \A i \in 1..Len(received) : received'[i] = received[i]
          /\ \A i \in 1..Len(u) : received'[Len(received) + i] = u[i]
          /\ \A i \in 1..Len(buffer) : buffer'[i] = buffer[i]
          /\ \A i \in 1..Len(u) : buffer'[Len(buffer) + i] = u[i]
          /\ Len(buffer') = Len(buffer) + Len(u)
          /\ Len(received') = Len(received) + Len(u)
          /\ Len(buffer) \in Nat /\ Len(received) \in Nat /\ Len(u) \in Nat
      BY <1>1, <2>1, Joined
    <3>2. Len(received') = Len(taken) + Len(buffer')
      BY <3>1, <3>3, SMT
    <3>4. \A i \in 1..Len(taken) : received'[i] = received[i]
      BY <3>1, <3>3, SMT
    <3>5. ASSUME NEW i \in 1..Len(buffer') PROVE received'[Len(taken) + i] = buffer'[i]
      <4>1. CASE i \in 1..Len(buffer)
        <5>1. Len(taken) + i \in 1..Len(received)
          BY <3>1, <3>3, <4>1, SMT
        <5> QED BY <3>1, <3>3, <4>1, <5>1, Zenon
      <4>2. CASE i \notin 1..Len(buffer)
        <5> DEFINE j == i - Len(buffer)
        <5>1. i \in Int /\ i >= 1 /\ i <= Len(buffer) + Len(u)
          BY <3>3, SMT
        <5>2. /\ j \in 1..Len(u) /\ i = Len(buffer) + j
              /\ Len(taken) + i = Len(received) + j
          BY <3>1, <3>3, <4>2, <5>1, SMT
        <5> QED BY <3>3, <5>2, Zenon
      <4> QED BY <4>1, <4>2
    <3> QED BY <1>3, <3>1, <3>2, <3>4, <3>5, Zenon DEF Kept
  <2>5. LinesTaken' /\ DiesOnlyOfInput'
    BY <2>1, SMT DEF LinesTaken, NothingWaits, Running, DiesOnlyOfInput
  <2> QED BY <1>5, <1>6, <2>3, <2>4, <2>5 DEF BulkOutInv
<1> QED BY <1>7, <1>8

\* Taking keeps the order.
LEMMA TakeKeeps ==
  ASSUME TypeOK, Kept, UNCHANGED received,
         NEW w \in Seq(Whereto), Len(w) <= Len(buffer), Take(w)
  PROVE  Kept'
<1>1. /\ Len(buffer') = Len(buffer) - Len(w) /\ Len(taken') = Len(taken) + Len(w)
      /\ \A i \in 1..Len(buffer') : buffer'[i] = buffer[Len(w) + i]
      /\ \A i \in 1..Len(taken) : taken'[i] = taken[i]
      /\ \A i \in 1..Len(w) : taken'[Len(taken) + i].c = buffer[i]
  BY TakeFacts, Zenon
<1>2. Len(buffer) \in Nat /\ Len(taken) \in Nat /\ Len(w) \in Nat
  <2>1. buffer \in Seq(Byte) /\ taken \in Seq([c : Byte, to : Whereto])
    BY Zenon DEF TypeOK
  <2> QED BY <2>1, SMT
<1>3. /\ Len(received) = Len(taken) + Len(buffer)
      /\ \A i \in 1..Len(taken) : received[i] = taken[i].c
      /\ \A i \in 1..Len(buffer) : received[Len(taken) + i] = buffer[i]
  BY Zenon DEF Kept
<1>4. Len(received') = Len(taken') + Len(buffer')
  BY <1>1, <1>2, <1>3, SMT
<1>5. ASSUME NEW i \in 1..Len(taken') PROVE received'[i] = taken'[i].c
  <2>1. CASE i \in 1..Len(taken)
    BY <1>1, <1>3, <2>1, Zenon
  <2>2. CASE i \notin 1..Len(taken)
    <3> DEFINE k == i - Len(taken)
    <3>1. /\ k \in 1..Len(w) /\ k \in 1..Len(buffer) /\ i = Len(taken) + k
      BY <1>1, <1>2, <2>2, SMT
    <3>2. received[Len(taken) + k] = buffer[k] /\ taken'[Len(taken) + k].c = buffer[k]
      BY <1>1, <1>3, <3>1, Zenon
    <3> QED BY <3>1, <3>2, Zenon
  <2> QED BY <2>1, <2>2
<1>6. ASSUME NEW i \in 1..Len(buffer') PROVE received'[Len(taken') + i] = buffer'[i]
  <2>1. Len(w) + i \in 1..Len(buffer) /\ Len(taken') + i = Len(taken) + (Len(w) + i)
    BY <1>1, <1>2, SMT
  <2> QED BY <1>1, <1>3, <2>1, Zenon
<1> QED BY <1>4, <1>5, <1>6, Zenon DEF Kept

\* Taking whole lines, NULs or payload keeps the labels.
LEMMA TakeLabels ==
  ASSUME TypeOK, Labelled, UNCHANGED model,
         NEW w \in Seq(Whereto), Len(w) <= Len(buffer), Take(w),
         \A i \in 1..Len(w) :
           /\ w[i] = "nul" => /\ model = "Lucent" /\ buffer[i] = NUL
                              /\ i > 1 => w[i - 1] # "line"
           /\ w[i] = "cr" <=> buffer[i] = CR /\ w[i] # "link"
           /\ w[i] = "line" => i < Len(w) /\ w[i + 1] \in {"line", "cr"}
  PROVE  Labelled'
<1>1. /\ Len(taken') = Len(taken) + Len(w)
      /\ \A i \in 1..Len(taken) : taken'[i] = taken[i]
      /\ \A i \in 1..Len(w) : /\ taken'[Len(taken) + i].c = buffer[i]
                              /\ taken'[Len(taken) + i].to = w[i]
  BY TakeFacts, Zenon
<1>2. Len(taken) \in Nat /\ Len(w) \in Nat
  <2>1. taken \in Seq([c : Byte, to : Whereto])
    BY Zenon DEF TypeOK
  <2> QED BY <2>1, SMT
<1>3. \A i \in 1..Len(taken) : taken[i].to = "line" =>
        i + 1 \in 1..Len(taken) /\ taken[i + 1].to \in {"line", "cr"}
  <2>1. \A i \in 1..Len(taken) : i < Len(taken) => i + 1 \in 1..Len(taken)
    BY <1>2, SMT
  <2> QED BY <2>1, Zenon DEF Labelled
<1>4. ASSUME NEW i \in 1..Len(taken')
      PROVE  /\ taken'[i].to = "nul" =>
                  /\ model = "Lucent" /\ taken'[i].c = NUL
                  /\ i > 1 => taken'[i - 1].to # "line"
             /\ taken'[i].to = "cr" <=> taken'[i].c = CR /\ taken'[i].to # "link"
             /\ taken'[i].to = "line" =>
                  i < Len(taken') /\ taken'[i + 1].to \in {"line", "cr"}
  <2>1. CASE i \in 1..Len(taken)
    <3>1. i > 1 => i - 1 \in 1..Len(taken)
      BY <1>2, <2>1, SMT
    <3>2. i + 1 \in 1..Len(taken) => i < Len(taken')
      BY <1>1, <1>2, <2>1, SMT
    <3>3. /\ taken[i].to = "nul" =>
               /\ model = "Lucent" /\ taken[i].c = NUL
               /\ i > 1 => taken[i - 1].to # "line"
          /\ taken[i].to = "cr" <=> taken[i].c = CR /\ taken[i].to # "link"
      BY <2>1, Zenon DEF Labelled
    <3>4. taken'[i] = taken[i] /\ (i > 1 => taken'[i - 1] = taken[i - 1])
      BY <1>1, <2>1, <3>1, Zenon
    <3>5. taken[i].to = "line" => i < Len(taken') /\ taken'[i + 1].to \in {"line", "cr"}
      BY <1>1, <1>3, <2>1, <3>2, Zenon
    <3> QED BY <3>3, <3>4, <3>5, Zenon
  <2>2. CASE i \notin 1..Len(taken)
    <3> DEFINE k == i - Len(taken)
    <3>1. /\ k \in 1..Len(w) /\ i = Len(taken) + k /\ k \in Int
      BY <1>1, <1>2, <2>2, SMT
    <3>2. taken'[i].c = buffer[k] /\ taken'[i].to = w[k]
      BY <1>1, <3>1, Zenon
    <3>3. ASSUME i > 1, w[k] = "nul" PROVE taken'[i - 1].to # "line"
      <4>1. CASE k = 1
        <5>1. i - 1 = Len(taken) /\ Len(taken) \in 1..Len(taken)
              /\ Len(taken) + 1 \notin 1..Len(taken)
          BY <1>2, <3>1, <3>3, <4>1, SMT
        <5> QED BY <1>1, <1>3, <5>1, Zenon
      <4>2. CASE k # 1
        <5>1. k > 1 /\ k - 1 \in 1..Len(w) /\ i - 1 = Len(taken) + (k - 1)
          BY <1>2, <3>1, <4>2, SMT
        <5> QED BY <1>1, <3>1, <3>3, <5>1, Zenon
      <4> QED BY <4>1, <4>2
    <3>4. ASSUME w[k] = "line" PROVE i < Len(taken') /\ taken'[i + 1].to \in {"line", "cr"}
      <4>1. k < Len(w) /\ w[k + 1] \in {"line", "cr"}
        BY <3>1, <3>4, Zenon
      <4>2. /\ k + 1 \in 1..Len(w) /\ i + 1 = Len(taken) + (k + 1) /\ i < Len(taken')
        BY <1>1, <1>2, <3>1, <4>1, SMT
      <4> QED BY <1>1, <4>1, <4>2, Zenon
    <3> HIDE DEF k
    <3> QED BY <3>1, <3>2, <3>3, <3>4, Zenon
  <2> QED BY <2>1, <2>2
<1> QED BY <1>4, Zenon DEF Labelled

\* The types of what a taker changes.
LEMMA TakeTypes ==
  ASSUME TypeOK, UNCHANGED <<model, has_sock, char_signed, connected, died, received, env>>,
         pc' \in {"read", "offline", "process_at", "online"}, line' \in Seq(Byte),
         NEW w \in Seq(Whereto), Len(w) <= Len(buffer), Take(w)
  PROVE  TypeOK'
<1>1. buffer' \in Seq(Byte) /\ taken' \in Seq([c : Byte, to : Whereto])
  BY TakeFacts, Zenon DEF Taken
<1> QED BY <1>1, Zenon DEF TypeOK

\* A line that leaves the buffer is whole, and is the last that was taken.
LEMMA TakeLineKeeps ==
  ASSUME BulkOutInv, Running, TakeLine
  PROVE  BulkOutInv'
<1>1. /\ pc = "offline" /\ ~connected
      /\ UNCHANGED <<model, has_sock, char_signed, connected, died, received, env>>
  BY Zenon DEF TakeLine
<1>2. TypeOK /\ Kept /\ Labelled /\ buffer \in Seq(Byte) /\ taken \in Seq(Taken)
  BY Zenon DEF BulkOutInv, TypeOK, Taken
<1>3. PICK n \in 0..Len(buffer), i \in 1..Len(buffer) :
        /\ Skipped(n) /\ FirstCR(n, i)
        /\ Take([j \in 1..i |-> IF j <= n THEN "nul" ELSE IF j < i THEN "line" ELSE "cr"])
        /\ line' = SubSeq(buffer, n + 1, i - 1)
        /\ pc' = IF i = n + 1 THEN "offline" ELSE "process_at"
  BY Zenon DEF TakeLine
<1> DEFINE w == [j \in 1..i |-> IF j <= n THEN "nul" ELSE IF j < i THEN "line" ELSE "cr"]
<1>4. n \in Nat /\ i \in Nat /\ i \in n + 1 .. Len(buffer) /\ n < i /\ Len(buffer) \in Nat
  BY <1>2, <1>3, SMT DEF FirstCR
<1>5. w \in Seq(Whereto) /\ Len(w) = i
  BY <1>4, LabelsTyped, Zenon
<1>6. \A j \in 1..i : w[j] = IF j <= n THEN "nul" ELSE IF j < i THEN "line" ELSE "cr"
  BY Zenon
<1>7. Take(w) /\ Len(w) <= Len(buffer)
  BY <1>3, <1>5, SMT
<1> HIDE DEF w
<1>8. \A j \in 1..i :
        /\ w[j] = "nul" => /\ model = "Lucent" /\ buffer[j] = NUL
                           /\ j > 1 => w[j - 1] # "line"
        /\ w[j] = "cr" <=> buffer[j] = CR /\ w[j] # "link"
        /\ w[j] = "line" => j < i /\ w[j + 1] \in {"line", "cr"}
  <2> SUFFICES ASSUME NEW j \in 1..i
               PROVE  /\ w[j] = "nul" => /\ model = "Lucent" /\ buffer[j] = NUL
                                         /\ j > 1 => w[j - 1] # "line"
                      /\ w[j] = "cr" <=> buffer[j] = CR /\ w[j] # "link"
                      /\ w[j] = "line" => j < i /\ w[j + 1] \in {"line", "cr"}
    OBVIOUS
  <2>1. CASE j <= n
    <3>1. w[j] = "nul" /\ j \in 1..n /\ n > 0
      BY <1>4, <1>6, <2>1, SMT
    <3>2. model = "Lucent" /\ buffer[j] = NUL
      BY <1>3, <3>1, Zenon DEF Skipped
    <3>3. j > 1 => w[j - 1] = "nul"
      BY <1>4, <1>6, <2>1, SMT
    <3>4. NUL # CR
      BY SMT DEF NUL, CR
    <3> QED BY <3>1, <3>2, <3>3, <3>4, SMT
  <2>2. CASE ~(j <= n) /\ j < i
    <3>1. w[j] = "line" /\ j \in n + 1 .. i - 1 /\ j + 1 \in 1..i /\ ~(j + 1 <= n)
      BY <1>4, <1>6, <2>2, SMT
    <3>2. buffer[j] # CR
      BY <1>3, <3>1, Zenon DEF FirstCR
    <3>3. w[j + 1] \in {"line", "cr"}
      BY <1>6, <3>1, SMT
    <3> QED BY <2>2, <3>1, <3>2, <3>3, SMT
  <2>3. CASE ~(j <= n) /\ ~(j < i)
    <3>1. w[j] = "cr" /\ j = i
      BY <1>4, <1>6, <2>3, SMT
    <3>2. buffer[j] = CR
      BY <1>3, <3>1, Zenon DEF FirstCR
    <3> QED BY <3>1, <3>2, SMT
  <2> QED BY <2>1, <2>2, <2>3
<1>14. /\ line' \in Seq(Byte) /\ Len(line') = i - n - 1
       /\ \A j \in 1 .. i - n - 1 : line'[j] = buffer[n + j]
  <2>1. n + 1 \in Int /\ i - 1 \in Int /\ \A j \in n + 1 .. i - 1 : buffer[j] \in Byte
    BY <1>2, <1>4, SMT
  <2>2. /\ SubSeq(buffer, n + 1, i - 1) \in Seq(Byte)
        /\ Len(SubSeq(buffer, n + 1, i - 1))
             = IF n + 1 <= i - 1 THEN (i - 1) - (n + 1) + 1 ELSE 0
        /\ \A j \in 1 .. (i - 1) - (n + 1) + 1 :
             SubSeq(buffer, n + 1, i - 1)[j] = buffer[(n + 1) + j - 1]
    BY <2>1, SubSeqProperties
  <2>3. /\ (i - 1) - (n + 1) + 1 = i - n - 1
        /\ (IF n + 1 <= i - 1 THEN (i - 1) - (n + 1) + 1 ELSE 0) = i - n - 1
        /\ \A j \in 1 .. i - n - 1 : (n + 1) + j - 1 = n + j
    BY <1>4, SMT
  <2> QED BY <1>3, <2>2, <2>3, Zenon
<1>9. TypeOK'
  BY <1>1, <1>2, <1>3, <1>5, <1>7, <1>14, TakeTypes, Zenon
<1>10. Kept'
  BY <1>1, <1>2, <1>5, <1>7, TakeKeeps, Zenon
<1>11. Labelled'
  BY <1>1, <1>2, <1>5, <1>7, <1>8, TakeLabels, Zenon
<1>12. BehindConnect'
  <2>1. Len(taken') > 0 /\ taken'[Len(taken')].to = "cr"
    <3>1. /\ Len(taken') = Len(taken) + i /\ taken'[Len(taken) + i].to = w[i]
      <4>1. /\ Len(taken') = Len(taken) + Len(w)
            /\ \A j \in 1..Len(w) : taken'[Len(taken) + j].to = w[j]
        BY <1>2, <1>5, <1>7, TakeFacts, Zenon
      <4>2. i \in 1..Len(w)
        BY <1>4, <1>5, SMT
      <4> QED BY <1>5, <4>1, <4>2, Zenon
    <3>2. w[i] = "cr" /\ Len(taken) \in Nat
      BY <1>2, <1>4, <1>6, SMT
    <3> QED BY <1>4, <3>1, <3>2, SMT
  <2> QED BY <1>1, <2>1, Zenon DEF BehindConnect
<1>13. LinesTaken' /\ DiesOnlyOfInput'
  <2>1. pc' \notin {"read", "online"}
    BY <1>3, SMT
  <2> QED BY <1>1, <2>1, Zenon DEF LinesTaken, NothingWaits, Running, DiesOnlyOfInput
<1>15. LineTaken'
  <2> DEFINE m == Len(taken) + n
  <2>1. /\ Len(taken) \in Nat /\ m \in Nat
        /\ \A j \in 1..Len(taken) : taken[j].to = "line" => j < Len(taken)
    <3>1. Len(taken) \in Nat
      BY <1>2, SMT
    <3> QED BY <1>2, <1>4, <3>1, SMT DEF Labelled
  <2>2. /\ Len(taken') = Len(taken) + i
        /\ \A j \in 1..Len(taken) : taken'[j] = taken[j]
        /\ \A j \in 1..i : /\ taken'[Len(taken) + j].c = buffer[j]
                            /\ taken'[Len(taken) + j].to = w[j]
    BY <1>2, <1>5, <1>7, TakeFacts, Zenon
  <2>3. m = Len(taken') - Len(line') - 1 /\ m >= 0
    BY <1>4, <1>14, <2>1, <2>2, SMT
  <2>4. taken'[Len(taken')].to = "cr"
    <3>1. i \in 1..i /\ w[i] = "cr"
      BY <1>4, <1>6, SMT
    <3> QED BY <2>2, <3>1, Zenon
  <2>5. ASSUME NEW j \in 1..Len(line')
        PROVE  taken'[m + j].c = line'[j] /\ taken'[m + j].to = "line"
    <3>1. /\ j \in 1 .. i - n - 1 /\ n + j \in 1..i /\ ~(n + j <= n) /\ n + j < i
          /\ m + j = Len(taken) + (n + j)
      BY <1>4, <1>14, <2>1, SMT
    <3>2. w[n + j] = "line" /\ line'[j] = buffer[n + j]
      BY <1>6, <1>14, <3>1, Zenon
    <3> QED BY <2>2, <3>1, <3>2, Zenon
  <2>6. ASSUME m > 0 PROVE taken'[m].to # "line"
    <3>1. CASE n = 0
      <4>1. m = Len(taken) /\ Len(taken) \in 1..Len(taken) /\ ~(Len(taken) < Len(taken))
        BY <2>1, <2>6, <3>1, SMT
      <4> QED BY <2>1, <2>2, <4>1, Zenon
    <3>2. CASE n # 0
      <4>1. n \in 1..i /\ n <= n
        BY <1>4, <3>2, SMT
      <4> QED BY <1>6, <2>2, <4>1, Zenon
    <3> QED BY <3>1, <3>2
  <2> HIDE DEF m
  <2> QED BY <2>3, <2>4, <2>5, <2>6, Zenon DEF LineTaken, LastLine
<1> QED BY <1>9, <1>10, <1>11, <1>12, <1>13, <1>15 DEF BulkOutInv

\* Without a line, NULs may leave it, and there is still none.
LEMMA OfflineDoneKeeps ==
  ASSUME BulkOutInv, Running, OfflineDone
  PROVE  BulkOutInv'
<1>1. /\ pc = "offline" /\ pc' = "online"
      /\ UNCHANGED <<model, has_sock, char_signed, connected, line, died, received, env>>
  BY Zenon DEF OfflineDone
<1>2. TypeOK /\ Kept /\ Labelled /\ buffer \in Seq(Byte) /\ line' \in Seq(Byte)
  BY <1>1, Zenon DEF BulkOutInv, TypeOK
<1>5. LineTaken'
  BY <1>1, SMT DEF LineTaken
<1>3. CASE connected /\ UNCHANGED <<buffer, taken>>
  <2>1. TypeOK' /\ Kept' /\ Labelled' /\ DiesOnlyOfInput'
    BY <1>1, <1>2, <1>3, Zenon DEF Running, TypeOK, Kept, Labelled, DiesOnlyOfInput
  <2>2. BehindConnect' /\ LinesTaken'
    BY <1>1, <1>3, SMT DEF BulkOutInv, BehindConnect, LinesTaken, NothingWaits
  <2> QED BY <1>5, <2>1, <2>2 DEF BulkOutInv
<1>4. CASE /\ ~connected /\ NoCR
           /\ \E n \in 0..Len(buffer) : Skipped(n) /\ Take([j \in 1..n |-> "nul"])
  <2>1. PICK n \in 0..Len(buffer) : Skipped(n) /\ Take([j \in 1..n |-> "nul"])
    BY <1>4
  <2> DEFINE w == [j \in 1..n |-> "nul"]
  <2>2. n \in Nat /\ Len(buffer) \in Nat /\ n <= Len(buffer)
    BY <1>2, SMT
  <2>3. w \in Seq(Whereto) /\ Len(w) = n /\ \A j \in 1..n : w[j] = "nul"
    BY <2>2, LabelsTyped, Zenon
  <2>4. Take(w) /\ Len(w) <= Len(buffer)
    BY <2>1, <2>2, <2>3, Zenon
  <2> HIDE DEF w
  <2>5. \A j \in 1..n :
          /\ w[j] = "nul" => /\ model = "Lucent" /\ buffer[j] = NUL
                             /\ j > 1 => w[j - 1] # "line"
          /\ w[j] = "cr" <=> buffer[j] = CR /\ w[j] # "link"
          /\ w[j] = "line" => j < n /\ w[j + 1] \in {"line", "cr"}
    <3> SUFFICES ASSUME NEW j \in 1..n
                 PROVE  /\ model = "Lucent" /\ buffer[j] = NUL
                        /\ j > 1 => w[j - 1] = "nul"
                        /\ buffer[j] # CR
      BY <2>3, SMT
    <3>1. n > 0 /\ (j > 1 => j - 1 \in 1..n)
      BY <2>2, SMT
    <3>2. model = "Lucent" /\ buffer[j] = NUL
      BY <2>1, <3>1, Zenon DEF Skipped
    <3>3. NUL # CR
      BY SMT DEF NUL, CR
    <3> QED BY <2>3, <3>1, <3>2, <3>3, Zenon
  <2>6. TypeOK'
    BY <1>1, <1>2, <2>3, <2>4, TakeTypes, Zenon
  <2>7. Kept' /\ Labelled'
    BY <1>1, <1>2, <2>3, <2>4, <2>5, TakeKeeps, TakeLabels, Zenon
  <2>8. NoCR'
    <3>1. /\ Len(buffer') = Len(buffer) - n
          /\ \A j \in 1..Len(buffer') : buffer'[j] = buffer[n + j]
      BY <1>2, <2>3, <2>4, TakeFacts, Zenon
    <3>2. \A j \in 1..Len(buffer') : n + j \in 1..Len(buffer)
      BY <2>2, <3>1, SMT
    <3> QED BY <1>4, <3>1, <3>2, Zenon DEF NoCR
  <2>9. BehindConnect' /\ LinesTaken' /\ DiesOnlyOfInput'
    BY <1>1, <1>4, <2>8, SMT DEF Running, BehindConnect, LinesTaken, NothingWaits,
                                 DiesOnlyOfInput
  <2> QED BY <1>5, <2>6, <2>7, <2>9 DEF BulkOutInv
<1> QED BY <1>3, <1>4, Zenon DEF OfflineDone

\* process_at() may raise the carrier, behind the line it was given, or throw.
LEMMA ProcessKeeps ==
  ASSUME BulkOutInv, Running, process_at
  PROVE  BulkOutInv'
<1>1. /\ pc = "process_at"
      /\ UNCHANGED <<model, has_sock, char_signed, buffer, received, taken>>
  BY Zenon DEF process_at
<1>2. /\ env \in [transfers : Nat, drops : Nat, raised : Nat, fell : BOOLEAN, last : Seq(Byte)]
      /\ taken \in Seq([c : Byte, to : Whereto])
  BY Zenon DEF BulkOutInv, TypeOK
<1>3. Len(taken) \in Nat /\ Len(taken) > 0 /\ taken[Len(taken)].to = "cr" /\ ~connected
  BY <1>1, <1>2, SMT DEF BulkOutInv, BehindConnect, TypeOK
<1>4. Len(taken) \in 1..Len(taken) /\ Len(taken) + 1 .. Len(taken) = {}
  BY <1>3, SMT
<1>5. CASE has_sock /\ line = ATD
  <2>1. died' = TRUE /\ UNCHANGED <<connected, pc, line, env>>
    BY <1>5, Zenon DEF process_at
  <2>2. TypeOK' /\ Kept' /\ Labelled' /\ BehindConnect'
    BY <1>1, <2>1, Zenon DEF BulkOutInv, TypeOK, Kept, Labelled, BehindConnect
  <2>3. LinesTaken' /\ LineTaken'
    BY <1>1, <2>1, Zenon DEF BulkOutInv, LinesTaken, NothingWaits, NoCR, LineTaken, LastLine
  <2>4. DiesOnlyOfInput'
    <3>1. LastLine(ATD)
      BY <1>1, <1>5, Zenon DEF BulkOutInv, LineTaken
    <3> QED BY <1>1, <1>5, <2>1, <3>1, Zenon DEF DiesOnlyOfInput, LastLine
  <2> QED BY <2>2, <2>3, <2>4 DEF BulkOutInv
<1>6. CASE ~(has_sock /\ line = ATD)
  <2>1. /\ pc' = "offline" /\ line' = <<>> /\ UNCHANGED died
        /\ \/ connected' = TRUE /\ env' = [env EXCEPT !.raised = Len(taken)]
           \/ UNCHANGED <<connected, env>>
    BY <1>6, Zenon DEF process_at
  <2>2. /\ env' \in [transfers : Nat, drops : Nat, raised : Nat, fell : BOOLEAN, last : Seq(Byte)]
        /\ connected' \in BOOLEAN /\ (connected' => env'.raised = Len(taken))
    <3>1. CASE connected' = TRUE /\ env' = [env EXCEPT !.raised = Len(taken)]
      BY <1>2, <1>3, <3>1, Zenon
    <3>2. CASE UNCHANGED <<connected, env>>
      BY <1>2, <1>3, <3>2, Zenon DEF BulkOutInv, TypeOK
    <3> QED BY <2>1, <3>1, <3>2, Zenon
  <2>3. TypeOK' /\ Kept' /\ Labelled'
    <3>1. line' \in Seq(Byte)
      BY <2>1, SMT
    <3> QED BY <1>1, <2>1, <2>2, <3>1, Zenon DEF BulkOutInv, TypeOK, Kept, Labelled
  <2>4. pc' \notin {"process_at", "read", "online"}
    BY <2>1, SMT
  <2>5. BehindConnect' /\ LineTaken'
    BY <1>1, <1>3, <1>4, <2>2, <2>4, Zenon DEF BehindConnect, LineTaken
  <2>6. LinesTaken' /\ DiesOnlyOfInput'
    BY <2>1, <2>4, Zenon DEF Running, LinesTaken, NothingWaits, DiesOnlyOfInput
  <2> QED BY <2>3, <2>5, <2>6 DEF BulkOutInv
<1> QED BY <1>5, <1>6

\* What is sent comes behind what was sent since the carrier rose.
LEMMA SendKeeps ==
  ASSUME BulkOutInv, Running, Send
  PROVE  BulkOutInv'
<1>1. /\ pc = "online" /\ connected
      /\ UNCHANGED <<model, has_sock, char_signed, connected, pc, line, died, received, env>>
  BY Zenon DEF Send
<1>2. /\ TypeOK /\ Kept /\ Labelled /\ buffer \in Seq(Byte)
      /\ taken \in Seq([c : Byte, to : Whereto])
  BY Zenon DEF BulkOutInv, TypeOK
<1> DEFINE w == [j \in 1..Len(buffer) |-> "link"]
<1>3. Len(buffer) \in Nat /\ Len(taken) \in Nat
  BY <1>2, SMT
<1>4. w \in Seq(Whereto) /\ Len(w) = Len(buffer) /\ \A j \in 1..Len(buffer) : w[j] = "link"
  BY <1>3, LabelsTyped, Zenon
<1>5. Take(w) /\ Len(w) <= Len(buffer)
  <2>1. Take(w)
    BY Zenon DEF Send
  <2> HIDE DEF w
  <2> QED BY <1>3, <1>4, <2>1, SMT
<1> HIDE DEF w
<1>6. \A j \in 1..Len(w) :
        /\ w[j] = "nul" => /\ model = "Lucent" /\ buffer[j] = NUL
                           /\ j > 1 => w[j - 1] # "line"
        /\ w[j] = "cr" <=> buffer[j] = CR /\ w[j] # "link"
        /\ w[j] = "line" => j < Len(w) /\ w[j + 1] \in {"line", "cr"}
  BY <1>4, SMT
<1>7. TypeOK' /\ Kept' /\ Labelled'
  <2>1. pc' \in {"read", "offline", "process_at", "online"} /\ line' \in Seq(Byte)
    BY <1>1, <1>2, SMT DEF TypeOK
  <2>2. TypeOK'
    BY <1>1, <1>2, <1>4, <1>5, <2>1, TakeTypes, Zenon
  <2>3. Kept' /\ Labelled'
    BY <1>1, <1>2, <1>4, <1>5, <1>6, TakeKeeps, TakeLabels, Zenon
  <2> QED BY <2>2, <2>3
<1>8. /\ Len(taken') = Len(taken) + Len(buffer)
      /\ \A j \in 1..Len(taken) : taken'[j] = taken[j]
      /\ \A j \in 1..Len(buffer) : taken'[Len(taken) + j].to = "link"
  <2>1. /\ Len(taken') = Len(taken) + Len(w)
        /\ \A j \in 1..Len(taken) : taken'[j] = taken[j]
        /\ \A j \in 1..Len(w) : taken'[Len(taken) + j].to = w[j]
    BY <1>2, <1>4, <1>5, TakeFacts, Zenon
  <2> QED BY <1>4, <2>1, Zenon
<1>9. BehindConnect'
  <2>1. /\ env.raised \in 1..Len(taken) /\ taken[env.raised].to = "cr"
        /\ \A i \in env.raised + 1 .. Len(taken) : taken[i].to = "link"
    BY <1>1, Zenon DEF BulkOutInv, BehindConnect
  <2>2. env.raised \in 1..Len(taken') /\ taken'[env.raised].to = "cr"
    BY <1>3, <1>8, <2>1, SMT
  <2>3. ASSUME NEW i \in env.raised + 1 .. Len(taken') PROVE taken'[i].to = "link"
    <3>1. CASE i <= Len(taken)
      <4>1. i \in 1..Len(taken) /\ i \in env.raised + 1 .. Len(taken)
        BY <1>3, <2>1, <3>1, SMT
      <4> QED BY <1>8, <2>1, <4>1, Zenon
    <3>2. CASE ~(i <= Len(taken))
      <4> DEFINE k == i - Len(taken)
      <4>1. k \in 1..Len(buffer) /\ i = Len(taken) + k
        BY <1>3, <1>8, <2>1, <3>2, SMT
      <4> QED BY <1>8, <4>1, Zenon
    <3> QED BY <3>1, <3>2
  <2>4. pc' # "process_at"
    BY <1>1, SMT
  <2> QED BY <1>1, <2>2, <2>3, <2>4, Zenon DEF BehindConnect
<1>10. LinesTaken' /\ LineTaken' /\ DiesOnlyOfInput'
  BY <1>1, SMT DEF Running, LinesTaken, NothingWaits, LineTaken, DiesOnlyOfInput
<1> QED BY <1>7, <1>9, <1>10 DEF BulkOutInv

\* The thread goes back to read, and a hang-up drops the carrier.
LEMMA OthersKeep ==
  ASSUME BulkOutInv, (Running /\ (OnlineDone \/ handle_disconnect)) \/ UNCHANGED vars
  PROVE  BulkOutInv'
<1>1. CASE UNCHANGED vars
  BY <1>1, Zenon DEF vars, BulkOutInv, TypeOK, Kept, Labelled, BehindConnect, LinesTaken,
                     LineTaken, LastLine, NothingWaits, NoCR, DiesOnlyOfInput
<1>2. CASE Running /\ OnlineDone
  <2>1. /\ pc = "online" /\ pc' = "read" /\ (~connected \/ buffer = <<>>)
        /\ UNCHANGED <<model, has_sock, char_signed, connected, buffer, line, died, received, taken, env>>
    BY <1>2, Zenon DEF OnlineDone
  <2>2. TypeOK' /\ Kept' /\ Labelled' /\ DiesOnlyOfInput'
    BY <1>2, <2>1, Zenon DEF BulkOutInv, Running, TypeOK, Kept, Labelled, DiesOnlyOfInput
  <2>3. BehindConnect' /\ LineTaken'
    BY <2>1, SMT DEF BulkOutInv, BehindConnect, LineTaken
  <2>4. buffer = <<>> => NoCR
    BY SMT DEF NoCR
  <2>5. LinesTaken'
    BY <2>1, <2>4, SMT DEF BulkOutInv, LinesTaken, NothingWaits, NoCR
  <2> QED BY <2>2, <2>3, <2>5 DEF BulkOutInv
<1>3. CASE Running /\ handle_disconnect
  <2>1. /\ connected /\ connected' = FALSE
        /\ env' = [env EXCEPT !.drops = @ + 1, !.fell = @ \/ pc = "online"]
        /\ UNCHANGED <<model, has_sock, char_signed, pc, buffer, line, died, received, taken>>
    BY <1>3, Zenon DEF handle_disconnect
  <2>2. env \in [transfers : Nat, drops : Nat, raised : Nat, fell : BOOLEAN, last : Seq(Byte)]
    BY Zenon DEF BulkOutInv, TypeOK
  <2>3. /\ env' \in [transfers : Nat, drops : Nat, raised : Nat, fell : BOOLEAN, last : Seq(Byte)]
        /\ env'.last = env.last /\ env'.fell = (env.fell \/ pc = "online")
    <3>1. env.drops + 1 \in Nat
      BY <2>2, SMT
    <3> QED BY <2>1, <2>2, <3>1, Zenon
  <2>4. TypeOK' /\ Kept' /\ Labelled' /\ DiesOnlyOfInput'
    BY <1>3, <2>1, <2>3, Zenon DEF BulkOutInv, Running, TypeOK, Kept, Labelled, DiesOnlyOfInput
  <2>5. BehindConnect' /\ LineTaken'
    BY <2>1, Zenon DEF BulkOutInv, BehindConnect, LineTaken, LastLine
  <2>6. LinesTaken'
    BY <2>1, <2>3, Zenon DEF BulkOutInv, LinesTaken, NothingWaits, NoCR
  <2> QED BY <2>4, <2>5, <2>6 DEF BulkOutInv
<1> QED BY <1>1, <1>2, <1>3

\* Every step keeps the invariant.
LEMMA BulkOutStep ==
  ASSUME BulkOutInv, [Next]_vars
  PROVE  BulkOutInv'
BY ReadKeeps, TakeLineKeeps, ProcessKeeps, OfflineDoneKeeps, SendKeeps, OthersKeep, Zenon
   DEF Next, BulkOutThread, HostWrites, HostHangsUp, WaitForHost

\* The invariant always holds.
LEMMA BulkOutSafe == Spec => []BulkOutInv
BY InitBulkOutInv, BulkOutStep, PTL DEF Spec

-----------------------------------------------------------------------------
(* The theorems.                                                           *)

\* The payload of every transfer goes through the buffer in order, byte by
\* byte; what is neither a line nor passed on is a newline or a NUL of Lucent.
THEOREM StreamIsKept == Spec => []StreamKept
<1>1. ASSUME BulkOutInv PROVE StreamKept
  <2> DEFINE s == [i \in 1..Len(taken) |-> taken[i].c]
  <2>1. /\ received \in Seq(Byte) /\ buffer \in Seq(Byte) /\ Len(taken) \in Nat
        /\ \A i \in 1..Len(taken) : taken[i].c \in Byte
    <3>1. /\ received \in Seq(Byte) /\ buffer \in Seq(Byte)
          /\ taken \in Seq(Taken)
      BY <1>1, Zenon DEF BulkOutInv, TypeOK, Taken
    <3>2. Len(taken) \in Nat /\ \A i \in 1..Len(taken) : taken[i] \in Taken
      BY <3>1, SMT
    <3> QED BY <3>1, <3>2, Zenon DEF Taken
  <2>2. s \in Seq(Byte) /\ Len(s) = Len(taken) /\ \A i \in 1..Len(taken) : s[i] = taken[i].c
    <3>1. s \in [1..Len(taken) -> Byte] /\ \A i \in 1..Len(taken) : s[i] = taken[i].c
      BY <2>1, Zenon
    <3> HIDE DEF s
    <3> QED BY <2>1, <3>1, SMT
  <2> HIDE DEF s
  <2>3. /\ Len(received) = Len(taken) + Len(buffer)
        /\ \A i \in 1..Len(taken) : received[i] = taken[i].c
        /\ \A i \in 1..Len(buffer) : received[Len(taken) + i] = buffer[i]
    BY <1>1, Zenon DEF BulkOutInv, Kept
  <2>4. /\ Len(s \o buffer) = Len(s) + Len(buffer) /\ Len(buffer) \in Nat
        /\ \A i \in 1..Len(s) : (s \o buffer)[i] = s[i]
        /\ \A i \in 1..Len(buffer) : (s \o buffer)[Len(s) + i] = buffer[i]
        /\ s \o buffer \in Seq(Byte)
    <3>1. s \in Seq(Byte) /\ buffer \in Seq(Byte)
      BY <2>1, <2>2
    <3>2. s \o buffer \in Seq(Byte)
      BY <3>1, SMT
    <3> QED BY <3>1, <3>2, Joined
  <2>5. ASSUME NEW i \in 1..Len(received) PROVE received[i] = (s \o buffer)[i]
    <3>1. CASE i \in 1..Len(taken)
      BY <2>2, <2>3, <2>4, <3>1, Zenon
    <3>2. CASE i \notin 1..Len(taken)
      <4> DEFINE k == i - Len(taken)
      <4>1. k \in 1..Len(buffer) /\ i = Len(taken) + k
        BY <2>1, <2>3, <2>4, <3>2, SMT
      <4> QED BY <2>2, <2>3, <2>4, <4>1, Zenon
    <3> QED BY <3>1, <3>2
  <2>6. Len(received) = Len(s \o buffer)
    BY <2>2, <2>3, <2>4, Zenon
  <2>7. received = s \o buffer
    BY <2>1, <2>4, <2>5, <2>6, SeqEqual
  <2> QED BY <1>1, <2>7, Zenon DEF BulkOutInv, Labelled, StreamKept, s
<1> QED BY <1>1, BulkOutSafe, PTL

\* Payload goes to the link only behind the line that raised the carrier, with
\* no other line in between.
THEOREM PayloadFollowsConnect == Spec => []PayloadBehindConnect
<1>1. ASSUME BulkOutInv PROVE PayloadBehindConnect
  <2>1. env.raised \in 1..Len(taken) /\ Len(taken) \in Nat => env.raised > 0
    BY SMT
  <2>2. Len(taken) \in Nat
    <3>1. taken \in Seq([c : Byte, to : Whereto])
      BY <1>1, Zenon DEF BulkOutInv, TypeOK
    <3> QED BY <3>1, SMT
  <2> QED BY <1>1, <2>1, <2>2, Zenon DEF BulkOutInv, BehindConnect, PayloadBehindConnect
<1> QED BY <1>1, BulkOutSafe, PTL

\* When the thread waits for the next transfer it has left no whole command
\* and no payload behind, but for a carrier that dropped between its loops.
THEOREM WaitsWithNothing == Spec => []NothingWaits
<1>1. BulkOutInv => NothingWaits
  BY Zenon DEF BulkOutInv, LinesTaken
<1> QED BY <1>1, BulkOutSafe, PTL

\* The thread dies of two kinds of Omron's headers and of a bare ATD, and of
\* nothing else the host may write.
THEOREM DiesOfInput == Spec => []DiesOnlyOfInput
<1>1. BulkOutInv => DiesOnlyOfInput
  BY Zenon DEF BulkOutInv
<1> QED BY <1>1, BulkOutSafe, PTL

=============================================================================
